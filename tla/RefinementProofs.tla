------------------------- MODULE RefinementProofs -------------------------
(***************************************************************************)
(* App implements PlayRequests, for every set of processes, effect ids,    *)
(* devices and effect bodies and every throttle interval: initial states   *)
(* map to initial states, and every step to a step or a stutter.           *)
(***************************************************************************)
EXTENDS AppProofs

(* What an upload resolves is in the store. *)
ResolvingIsKnown == \A play \in resolving : found(effect_store, play[2].id) # {}

MapInv == Safety /\ ResolvingIsKnown

(* The mapped state, without its CHOOSEs: there is but one effect to find, *)
(* the last uploaded, and what is resolved for a device is what it wants.  *)
Mapped ==
    /\ KnownEffects = [id \in EffectIds |->
                          IF found(effect_store, id) = {} THEN NONE ELSE latest[id]]
    /\ OpenRequests = [d \in DeviceIds |->
                          IF \E play \in resolving : play[1] = d THEN wanted[d] ELSE pending_plays[d]]

LEMMA FoundIsLatest ==
    ASSUME Safety, NEW id
    PROVE  \A e \in found(effect_store, id) : e = latest[id] /\ e # NONE /\ e.id = id
BY DEF Safety, StoreHoldsLatest, found

LEMMA Mapping == MapInv => Mapped
<1> SUFFICES ASSUME MapInv PROVE Mapped
  OBVIOUS
<1>1. ASSUME NEW id \in EffectIds, found(effect_store, id) # {}
      PROVE  (CHOOSE e \in found(effect_store, id) : TRUE) = latest[id]
  <2>1. (CHOOSE e \in found(effect_store, id) : TRUE) \in found(effect_store, id)
    BY <1>1
  <2> QED
    BY <2>1, FoundIsLatest DEF MapInv
<1>2. ASSUME NEW d \in DeviceIds, \E play \in resolving : play[1] = d
      PROVE  (CHOOSE play \in resolving : play[1] = d)[2].id = wanted[d]
  <2>1. /\ (CHOOSE play \in resolving : play[1] = d) \in resolving
        /\ (CHOOSE play \in resolving : play[1] = d)[1] = d
    BY <1>2
  <2> QED
    BY <2>1 DEF MapInv, Safety, ResolvingIsWanted
<1> QED
  BY ZenonT(40), <1>1, <1>2 DEF Mapped, KnownEffects, OpenRequests

LEMMA MappingNext == MapInv' => Mapped'
BY Mapping, PTL

-----------------------------------------------------------------------------
LEMMA InitMaps == AppInit => MapInv /\ Requests!Init
<1> SUFFICES ASSUME AppInit PROVE MapInv /\ Requests!Init
  OBVIOUS
<1>1. MapInv
  BY InitSafety DEF MapInv, AppInit, ResolvingIsKnown
<1>2. \A id \in EffectIds : found(effect_store, id) = {}
  BY DEF AppInit, found
<1>3. Starting = <<>>
  BY DEF AppInit, Starting, NoCall
<1> QED
  BY <1>1, <1>2, <1>3, Mapping DEF Mapped, AppInit, Requests!Init

LEMMA NextKnown == MapInv /\ [AppNext]_vars => ResolvingIsKnown'
<1> SUFFICES ASSUME MapInv, [AppNext]_vars PROVE ResolvingIsKnown'
  OBVIOUS
<1>1. ASSUME NEW t \in Tgids, NEW e \in FfEffects, handle_effect_uploaded(t, e)
      PROVE  ResolvingIsKnown'
  <2>1. effect_store' = upsert_effect(effect_store, t, e) /\ \A play \in resolving' : play[2] = e
    BY <1>1 DEF handle_effect_uploaded
  <2>2. <<t, e.id>> \in Keys /\ e # NONE
    BY AppAssumption DEF FfEffects, Keys
  <2>3. effect_store'[<<t, e.id>>] = e
    BY <2>1, UpsertFacts DEF MapInv, Safety, TypeOK
  <2> QED
    BY <2>1, <2>2, <2>3 DEF ResolvingIsKnown, found
<1>2. CASE resolving' \subseteq resolving /\ (effect_store' = effect_store \/ resolving' = {})
  BY <1>2 DEF MapInv, ResolvingIsKnown
<1> QED
  BY <1>1, <1>2
  DEF AppNext, Selecting, handle_effect_erased, handle_ff_event_stop, handle_ff_event_play, stop_all,
      Awaiting, ResolvePending, ScheduleReturns, StopReturns, StopAllReturns, Tick, Exited,
      store_vars, history, vars

(* Between handlers nothing is due. *)
LEMMA SelectingIsQuiet == MapInv /\ Selecting => Requests!Quiet /\ Starting = <<>>
<1> SUFFICES ASSUME MapInv, Selecting PROVE Requests!Quiet /\ Starting = <<>>
  OBVIOUS
<1>1. Mapped
  BY Mapping
<1>2. Starting = <<>>
  BY DEF Selecting, Starting, NoCall
<1>3. ASSUME NEW d \in DeviceIds PROVE ~Requests!Due(d)
  <2>1. OpenRequests[d] = pending_plays[d]
    BY <1>1 DEF Mapped, Selecting
  <2>2. pending_plays[d] # NONE => KnownEffects[pending_plays[d]] = NONE
    BY <1>1 DEF Mapped, MapInv, Safety, TypeOK, PendingIsWanted
  <2> QED
    BY <2>1, <2>2 DEF Requests!Due
<1> QED
  BY <1>2, <1>3 DEF Requests!Quiet

(* What purging an id and uploading an effect do to what is known. *)
LEMMA PurgeForgets ==
    ASSUME Safety, NEW id \in EffectIds, NEW other \in EffectIds
    PROVE  found(purge_effect_id(effect_store, id), other) =
               IF other = id THEN {} ELSE found(effect_store, other)
<1>1. TypeOK /\ StoreHoldsLatest
  BY DEF Safety
<1>2. CASE other = id
  BY <1>1, <1>2, PurgeLeavesNothing
<1>3. CASE other # id
  BY <1>1, <1>3, PurgeKeepsOthers
<1> QED
  BY <1>2, <1>3

LEMMA UploadKnows ==
    ASSUME Safety, NEW t \in Tgids, NEW e \in FfEffects, NEW id \in EffectIds
    PROVE  found(upsert_effect(effect_store, t, e), id) = {} <=>
               id # e.id /\ found(effect_store, id) = {}
<1> DEFINE s == upsert_effect(effect_store, t, e)
<1>1. e.id \in EffectIds /\ <<t, e.id>> \in Keys /\ e # NONE
  BY AppAssumption DEF FfEffects, Keys
<1>2. /\ s[<<t, e.id>>] = e
      /\ \A k \in Keys : k[2] # e.id => s[k] = effect_store[k]
      /\ \A k \in Keys : k[2] = e.id /\ k # <<t, e.id>> => s[k] = NONE
  BY UpsertFacts DEF Safety, TypeOK
<1>3. \A k \in Keys : effect_store[k] # NONE => effect_store[k].id = k[2]
  BY DEF Safety, StoreHoldsLatest
<1> HIDE DEF s
<1>4. CASE id = e.id
  BY <1>1, <1>2, <1>4, FoundNothing DEF s
<1>5. CASE id # e.id
  <2>1. \A k \in Keys : (s[k] # NONE /\ s[k].id = id) <=>
            (effect_store[k] # NONE /\ effect_store[k].id = id)
    BY <1>1, <1>2, <1>3, <1>5
  <2>2. found(s, id) = {} <=> found(effect_store, id) = {}
    BY <2>1, FoundNothing
  <2> QED
    BY <1>5, <2>2 DEF s
<1> QED
  BY <1>4, <1>5

LEMMA NextMaps == MapInv /\ MapInv' /\ [AppNext]_vars => [Requests!Next]_(Requests!vars)
<1> SUFFICES ASSUME MapInv, MapInv', [AppNext]_vars PROVE [Requests!Next]_(Requests!vars)
  OBVIOUS
<1>0. Mapped /\ Mapped'
  BY Mapping, MappingNext
<1>00. Safety /\ TypeOK /\ TypeOK'
  BY DEF MapInv, Safety
<1> DEFINE Stutter == UNCHANGED <<KnownEffects, OpenRequests, Starting>>
(* What is known and what is open, where the step leaves them alone. *)
<1>1. ASSUME effect_store' = effect_store, latest' = latest PROVE KnownEffects' = KnownEffects
  BY <1>0, <1>1 DEF Mapped
<1>2. ASSUME resolving' = resolving, wanted' = wanted, pending_plays' = pending_plays
      PROVE  OpenRequests' = OpenRequests
  BY <1>0, <1>2 DEF Mapped
<1>3. ASSUME resolving = {}, resolving' = {}
      PROVE  OpenRequests = pending_plays /\ OpenRequests' = pending_plays'
  BY <1>0, <1>00, <1>3 DEF Mapped, TypeOK
<1>4. ASSUME NEW t \in Tgids, NEW e \in FfEffects, handle_effect_uploaded(t, e)
      PROVE  Requests!Upload(e)
  <2>1. Requests!Quiet /\ Starting' = Starting
    BY <1>4, SelectingIsQuiet DEF handle_effect_uploaded, MapInv, Starting
  <2>2. /\ effect_store' = upsert_effect(effect_store, t, e) /\ resolving = {}
        /\ latest' = [latest EXCEPT ![e.id] = e] /\ wanted' = wanted
        /\ resolving' = matching(pending_plays, e.id) \X {e}
        /\ pending_plays' = take_all_pending_matching_effect(pending_plays, e.id)
    BY <1>4 DEF handle_effect_uploaded, Selecting
  <2>3. KnownEffects' = [KnownEffects EXCEPT ![e.id] = e]
    <3>1. \A id \in EffectIds : found(effect_store', id) = {} <=> id # e.id /\ found(effect_store, id) = {}
      BY <1>00, <2>2, UploadKnows
    <3> QED
      BY <1>0, <1>00, <2>2, <3>1 DEF Mapped, TypeOK
  <2>4. OpenRequests' = OpenRequests
    <3>1. ASSUME NEW d \in DeviceIds
          PROVE  (IF \E play \in resolving' : play[1] = d THEN wanted'[d] ELSE pending_plays'[d])
                     = pending_plays[d]
      <4>1. (\E play \in resolving' : play[1] = d) <=> d \in matching(pending_plays, e.id)
        <5>1. ASSUME d \in matching(pending_plays, e.id) PROVE \E play \in resolving' : play[1] = d
          <6>1. <<d, e>> \in resolving' /\ <<d, e>>[1] = d
            BY <2>2, <5>1
          <6> QED
            BY <6>1
        <5>2. ASSUME NEW play \in resolving' PROVE play[1] \in matching(pending_plays, e.id)
          BY <2>2, <5>2
        <5> QED
          BY <5>1, <5>2
      <4>2. d \in matching(pending_plays, e.id) => pending_plays[d] = e.id /\ pending_plays[d] # NONE
        BY AppAssumption DEF matching, FfEffects
      <4>3. d \in matching(pending_plays, e.id) => wanted[d] = pending_plays[d]
        BY <1>00, <4>2 DEF Safety, PendingIsWanted
      <4>4. d \notin matching(pending_plays, e.id) => pending_plays'[d] = pending_plays[d]
        BY <2>2 DEF take_all_pending_matching_effect
      <4> QED
        BY <2>2, <4>1, <4>3, <4>4
    <3> QED
      BY <1>0, <2>2, <3>1 DEF Mapped
  <2> QED
    BY <2>1, <2>3, <2>4 DEF Requests!Upload
(* An id that is purged is known no more, and no other id is touched. *)
<1>5. ASSUME NEW id \in EffectIds, effect_store' = purge_effect_id(effect_store, id),
             \A i \in EffectIds \ {id} : latest'[i] = latest[i]
      PROVE  KnownEffects' = [KnownEffects EXCEPT ![id] = NONE]
  <2>1. \A i \in EffectIds : found(effect_store', i) = IF i = id THEN {} ELSE found(effect_store, i)
    BY <1>00, <1>5, PurgeForgets
  <2> QED
    BY <1>0, <1>5, <2>1 DEF Mapped
<1>6. ASSUME NEW id \in EffectIds, handle_effect_erased(id)
      PROVE  Requests!Erase(id)
  <2>1. Requests!Quiet /\ Starting' = Starting
    BY <1>6, SelectingIsQuiet DEF handle_effect_erased, MapInv, Starting
  <2>2. KnownEffects' = [KnownEffects EXCEPT ![id] = NONE]
    BY <1>00, <1>5, <1>6 DEF handle_effect_erased, TypeOK
  <2>3. OpenRequests = pending_plays
        /\ OpenRequests' = take_all_pending_matching_effect(pending_plays, id)
    BY <1>3, <1>6 DEF handle_effect_erased, Selecting
  <2>4. OpenRequests' = [d \in DeviceIds |-> IF OpenRequests[d] = id THEN NONE ELSE OpenRequests[d]]
    BY <2>3 DEF take_all_pending_matching_effect, matching
  <2> QED
    BY <2>1, <2>2, <2>4 DEF Requests!Erase
<1>7. ASSUME NEW d \in DeviceIds, NEW id \in EffectIds, handle_ff_event_stop(d, id)
      PROVE  Requests!Stop(d, id)
  <2>1. Requests!Quiet /\ Starting = <<>> /\ Starting' = <<>>
    BY <1>7, SelectingIsQuiet DEF handle_ff_event_stop, Starting
  <2>2. KnownEffects' = [KnownEffects EXCEPT ![id] = NONE]
    BY <1>5, <1>7 DEF handle_ff_event_stop
  <2>3. OpenRequests' = [OpenRequests EXCEPT ![d] = NONE]
    BY <1>3, <1>7 DEF handle_ff_event_stop, Selecting, take_pending_for_device
  <2> QED
    BY <2>1, <2>2, <2>3 DEF Requests!Stop
(* What process_play hands to playback. *)
<1>8. ASSUME NEW d, NEW e, process_play(d, e) PROVE Starting' \in {<<>>, <<d, e>>}
  BY <1>8 DEF process_play, Starting, NoCall
<1>9. ASSUME NEW d \in DeviceIds, NEW id \in EffectIds, handle_ff_event_play(d, id)
      PROVE  Requests!Hold(d, id) \/ Requests!PlayNow(d, id)
  <2>1. Requests!Quiet /\ Starting = <<>>
    BY <1>9, SelectingIsQuiet DEF handle_ff_event_play
  <2>2. KnownEffects' = KnownEffects
    BY <1>1, <1>9 DEF handle_ff_event_play
  <2>3. OpenRequests = pending_plays /\ OpenRequests' = pending_plays'
    BY <1>3, <1>9 DEF handle_ff_event_play, Selecting
  <2>4. ASSUME PlayUnknown(d, id) PROVE Requests!Hold(d, id)
    <3>1. KnownEffects[id] = NONE
      BY <1>0, <2>4 DEF PlayUnknown, Mapped
    <3>2. OpenRequests' = [OpenRequests EXCEPT ![d] = id]
      BY <2>3, <2>4 DEF PlayUnknown, insert_pending
    <3>3. Starting' = Starting
      BY <2>4 DEF PlayUnknown, Starting
    <3> QED
      BY <2>1, <2>2, <3>1, <3>2, <3>3 DEF Requests!Hold
  <2>5. ASSUME PlayKnown(d, id) PROVE Requests!PlayNow(d, id)
    <3>1. PICK e \in found(effect_store, id) :
              /\ pending_plays' = take_pending_for_device(pending_plays, d)
              /\ process_play(d, e)
      BY <2>5 DEF PlayKnown
    <3>2. e = latest[id] /\ e # NONE
      BY <1>00, FoundIsLatest
    <3>3. KnownEffects[id] = e
      BY <1>0, <3>2 DEF Mapped
    <3>4. OpenRequests' = [OpenRequests EXCEPT ![d] = NONE]
      BY <2>3, <3>1 DEF take_pending_for_device
    <3>5. Starting' \in {<<>>, <<d, e>>}
      BY <1>8, <3>1
    <3> QED
      BY <2>1, <2>2, <3>2, <3>3, <3>4, <3>5 DEF Requests!PlayNow
  <2> QED
    BY <1>9, <2>4, <2>5 DEF handle_ff_event_play
<1>10. ASSUME stop_all PROVE Stutter
  <2>1. Starting' = Starting
    BY <1>10 DEF stop_all, Selecting, Starting, NoCall
  <2> QED
    BY <1>1, <1>2, <1>10, <2>1 DEF stop_all, store_vars, history
<1>11. ASSUME NEW play \in resolving, call = NoCall, resolving' = resolving \ {play},
              process_play(play[1], play[2]), UNCHANGED <<elapsed, store_vars, exited, history>>
       PROVE  Requests!Settle(play[1])
  <2>1. PICK d \in DeviceIds, e \in FfEffects : play = <<d, e>>
    BY <1>00 DEF TypeOK
  <2>2. /\ wanted[d] = e.id /\ latest[e.id] = e /\ pending_plays[d] = NONE
        /\ e.id \in EffectIds /\ e # NONE /\ e.id # NONE
    BY <1>00, <1>11, <2>1, AppAssumption DEF Safety, ResolvingIsWanted, FfEffects
  <2>3. OpenRequests[d] = e.id
    BY <1>0, <1>11, <2>1, <2>2 DEF Mapped
  <2>4. KnownEffects[e.id] = e /\ KnownEffects' = KnownEffects
    <3>1. found(effect_store, e.id) # {}
      BY <1>11, <2>1 DEF MapInv, ResolvingIsKnown
    <3> QED
      BY <1>0, <1>1, <1>11, <2>2, <3>1 DEF Mapped, store_vars, history
  <2>5. Starting = <<>>
    BY <1>11 DEF Starting, NoCall
  <2>6. OpenRequests' = [OpenRequests EXCEPT ![d] = NONE]
    <3>1. ~ \E p \in resolving' : p[1] = d
      <4> SUFFICES ASSUME NEW p \in resolving', p[1] = d PROVE FALSE
        OBVIOUS
      <4>1. p \in resolving /\ p # play
        BY <1>11
      <4>2. PICK f \in FfEffects : p = <<d, f>>
        BY <1>00, <4>1 DEF TypeOK
      <4>3. wanted[d] = f.id /\ latest[f.id] = f
        BY <1>00, <4>1, <4>2 DEF Safety, ResolvingIsWanted
      <4> QED
        BY <2>1, <2>2, <4>1, <4>2, <4>3
    <3>2. \A c \in DeviceIds \ {d} : (\E p \in resolving' : p[1] = c) <=> (\E p \in resolving : p[1] = c)
      BY <1>11, <2>1
    <3>3. wanted' = wanted /\ pending_plays' = pending_plays
      BY <1>11 DEF store_vars, history
    <3> QED
      BY <1>0, <2>2, <3>1, <3>2, <3>3 DEF Mapped
  <2>7. Starting' \in {<<>>, <<d, e>>}
    BY <1>8, <1>11, <2>1
  <2> QED
    BY <2>1, <2>2, <2>3, <2>4, <2>5, <2>6, <2>7 DEF Requests!Settle, Requests!Due
<1>12. ASSUME ResolvePending PROVE Requests!Next
  <2>1. PICK play \in resolving : Requests!Settle(play[1])
    BY <1>11, <1>12 DEF ResolvePending
  <2>2. play[1] \in DeviceIds
    BY <1>00 DEF TypeOK
  <2> QED
    BY <2>1, <2>2 DEF Requests!Next
<1>13. ASSUME ScheduleReturns PROVE Requests!Started
  <2>1. Starting # <<>> /\ Starting' = <<>>
    BY <1>13 DEF ScheduleReturns, Starting, NoCall
  <2> QED
    BY <1>1, <1>2, <1>13, <2>1 DEF ScheduleReturns, store_vars, history, Requests!Started
<1>14. ASSUME StopReturns \/ StopAllReturns \/ Tick PROVE Stutter
  <2>1. Starting' = Starting
    BY <1>14 DEF StopReturns, StopAllReturns, Tick, Starting, NoCall
  <2> QED
    BY <1>1, <1>2, <1>14, <2>1 DEF StopReturns, StopAllReturns, Tick, store_vars, history
<1>15. ASSUME UNCHANGED vars PROVE Stutter
  <2>1. Starting' = Starting
    BY <1>15 DEF vars, Starting
  <2> QED
    BY <1>1, <1>2, <1>15, <2>1 DEF vars
<1>16. ASSUME Stutter PROVE UNCHANGED Requests!vars
  BY <1>16 DEF Requests!vars
<1>17. ASSUME NEW e \in FfEffects, Requests!Upload(e) PROVE Requests!Next
  BY <1>17 DEF Requests!Next, Requests!Effects, FfEffects
<1> HIDE DEF Stutter
<1> QED
  BY <1>4, <1>6, <1>7, <1>9, <1>10, <1>12, <1>13, <1>14, <1>15, <1>16, <1>17
  DEF AppNext, Awaiting, Exited, Requests!Next

(* The handlers keep the promise of PlayRequests, step by step, whatever   *)
(* the number of processes and devices and however many plays one upload   *)
(* makes due.                                                              *)
THEOREM Refines == AppSpec => ImplementsPlayRequests
<1>1. MapInv /\ [AppNext]_vars => MapInv'
  BY NextSafety, NextKnown DEF MapInv
<1>2. AppSpec => []MapInv
  BY <1>1, InitMaps, PTL DEF AppSpec
<1> QED
  BY <1>2, InitMaps, NextMaps, PTL DEF AppSpec, ImplementsPlayRequests, Requests!Spec
=============================================================================
