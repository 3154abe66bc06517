------------------------------ MODULE AppProofs ------------------------------
(***************************************************************************)
(* Proofs about App, for every set of processes, effect ids, devices and   *)
(* effect bodies and every throttle interval.  Safety is the conjunction   *)
(* of App's invariants; it is inductive as it stands.                      *)
(***************************************************************************)
EXTENDS App, TLAPS

Safety ==
    /\ TypeOK
    /\ StoreHoldsLatest
    /\ PendingIsWanted
    /\ ResolvingIsWanted
    /\ OnlyWantedPlays

(* The only operation that adds to effect_store leaves the effect under    *)
(* its key, nothing else under its id, and every other id alone.           *)
LEMMA UpsertFacts ==
    ASSUME NEW store \in [Keys -> FfEffects \union {NONE}],
           NEW tgid \in Tgids, NEW effect \in FfEffects
    PROVE  LET s == upsert_effect(store, tgid, effect)
           IN  /\ s \in [Keys -> FfEffects \union {NONE}]
               /\ s[<<tgid, effect.id>>] = effect
               /\ \A k \in Keys : k[2] # effect.id => s[k] = store[k]
               /\ \A k \in Keys : k[2] = effect.id /\ k # <<tgid, effect.id>> => s[k] = NONE
<1>1. effect.id \in EffectIds
  BY DEF FfEffects
<1>2. <<tgid, effect.id>> \in Keys
  BY <1>1 DEF Keys
<1>3. purge_effect_id(store, effect.id) \in [Keys -> FfEffects \union {NONE}]
  BY DEF purge_effect_id
<1> QED
  BY <1>2, <1>3 DEF upsert_effect, purge_effect_id

(* A purged id has no entry left, and no other entry is touched. *)
LEMMA PurgeFacts ==
    ASSUME NEW store \in [Keys -> FfEffects \union {NONE}], NEW id \in EffectIds
    PROVE  LET s == purge_effect_id(store, id)
           IN  /\ s \in [Keys -> FfEffects \union {NONE}]
               /\ \A k \in Keys : k[2] # id => s[k] = store[k]
               /\ \A k \in Keys : k[2] = id => s[k] = NONE
BY DEF purge_effect_id

(* What the two ways of taking pending plays return. *)
LEMMA TakeFacts ==
    ASSUME NEW pending \in [DeviceIds -> EffectIds \union {NONE}],
           NEW id \in EffectIds
    PROVE  LET p == take_all_pending_matching_effect(pending, id)
           IN  /\ p \in [DeviceIds -> EffectIds \union {NONE}]
               /\ \A d \in DeviceIds : p[d] # NONE => p[d] = pending[d] /\ p[d] # id
               /\ \A d \in matching(pending, id) : p[d] = NONE /\ pending[d] = id
BY DEF take_all_pending_matching_effect, matching

(* A Play finds nothing exactly when no entry has its id. *)
LEMMA FoundNothing ==
    ASSUME NEW store, NEW id
    PROVE  found(store, id) = {} <=> \A k \in Keys : store[k] = NONE \/ store[k].id # id
BY DEF found

(* A daemon that has just started is safe. *)
LEMMA InitSafety == AppInit => Safety
<1> SUFFICES ASSUME AppInit PROVE Safety
  OBVIOUS
<1> USE DEF AppInit, ThrottleNew
<1>1. TypeOK
  <2>1. elapsed \in 0 .. MIN_INTERVAL_MS
    BY ThrottleAssumption
  <2>2. call \in Calls
    BY DEF Calls
  <2>3. /\ effect_store \in [Keys -> FfEffects \union {NONE}]
        /\ pending_plays \in [DeviceIds -> EffectIds \union {NONE}]
        /\ wanted \in [DeviceIds -> EffectIds \union {NONE}]
        /\ latest \in [EffectIds -> FfEffects \union {NONE}]
    OBVIOUS
  <2> QED
    BY <2>1, <2>2, <2>3 DEF TypeOK
<1>2. StoreHoldsLatest
  BY DEF StoreHoldsLatest
<1>3. PendingIsWanted
  BY DEF PendingIsWanted
<1>4. ResolvingIsWanted
  BY DEF ResolvingIsWanted
<1>5. OnlyWantedPlays
  BY DEF OnlyWantedPlays, NoCall
<1> QED
  BY <1>1, <1>2, <1>3, <1>4, <1>5 DEF Safety

(* What process_play does to `call`. *)
LEMMA ProcessPlayFacts ==
    ASSUME NEW d \in DeviceIds, NEW effect \in FfEffects, process_play(d, effect)
    PROVE  /\ call' \in Calls
           /\ call'.op = "schedule_sequence" => call'.device = d /\ call'.effect = effect
BY DEF process_play, Calls, NoCall

(* Every handler, every return of a playback call and every tick keeps the  *)
(* daemon safe.                                                            *)
LEMMA NextSafety == Safety /\ [AppNext]_vars => Safety'
<1> SUFFICES ASSUME Safety, [AppNext]_vars PROVE Safety'
  OBVIOUS
<1> USE DEF Safety
<1>1. ASSUME NEW t \in Tgids, NEW e \in FfEffects, handle_effect_uploaded(t, e)
      PROVE  Safety'
  <2> USE <1>1 DEF handle_effect_uploaded
  <2>0. e.id \in EffectIds
    BY DEF FfEffects
  <2>1. TypeOK'
    <3>1. /\ effect_store' \in [Keys -> FfEffects \union {NONE}]
          /\ pending_plays' \in [DeviceIds -> EffectIds \union {NONE}]
      BY <2>0, UpsertFacts, TakeFacts DEF TypeOK
    <3>2. resolving' \subseteq DeviceIds \X FfEffects
      BY DEF matching
    <3>3. latest' \in [EffectIds -> FfEffects \union {NONE}]
      BY <2>0 DEF TypeOK
    <3> QED
      BY <3>1, <3>2, <3>3 DEF TypeOK
  <2>2. StoreHoldsLatest'
    <3> SUFFICES ASSUME NEW k \in Keys, effect_store'[k] # NONE
                 PROVE  /\ effect_store'[k].id = k[2]
                        /\ latest'[k[2]] = effect_store'[k]
                        /\ \A j \in Keys : effect_store'[j] # NONE /\ j[2] = k[2] => j = k
      BY DEF StoreHoldsLatest
    <3>1. k[2] \in EffectIds /\ <<t, e.id>> \in Keys /\ <<t, e.id>>[2] = e.id
      BY <2>0 DEF Keys
    <3>2. /\ effect_store'[<<t, e.id>>] = e
          /\ \A j \in Keys : j[2] # e.id => effect_store'[j] = effect_store[j]
          /\ \A j \in Keys : j[2] = e.id /\ j # <<t, e.id>> => effect_store'[j] = NONE
      BY UpsertFacts DEF TypeOK
    <3>3. CASE k[2] = e.id
      BY <3>1, <3>2, <3>3, <2>0 DEF TypeOK
    <3>4. CASE k[2] # e.id
      BY <3>1, <3>2, <3>4, <2>0 DEF TypeOK, StoreHoldsLatest
    <3> QED
      BY <3>3, <3>4
  <2>3. PendingIsWanted'
    <3> SUFFICES ASSUME NEW d \in DeviceIds, pending_plays'[d] # NONE
                 PROVE  /\ wanted'[d] = pending_plays'[d]
                        /\ found(effect_store', pending_plays'[d]) = {}
      BY DEF PendingIsWanted, found
    <3>1. pending_plays'[d] = pending_plays[d] /\ pending_plays[d] # e.id
      BY <2>0, TakeFacts DEF TypeOK
    <3>2. wanted[d] = pending_plays[d] /\ found(effect_store, pending_plays[d]) = {}
      BY <3>1 DEF PendingIsWanted
    <3>3. found(effect_store', pending_plays[d]) = {}
      <4>1. \A k \in Keys :
                effect_store[k] = NONE \/ effect_store[k].id # pending_plays[d]
        BY <3>2, FoundNothing
      <4>2. \A k \in Keys :
                effect_store'[k] = NONE \/ effect_store'[k].id # pending_plays[d]
        <5> SUFFICES ASSUME NEW k \in Keys
                     PROVE  effect_store'[k] = NONE \/ effect_store'[k].id # pending_plays[d]
          OBVIOUS
        <5>1. CASE k[2] = e.id
          <6>1. effect_store'[k] # NONE => effect_store'[k].id = k[2]
            BY <2>2 DEF StoreHoldsLatest
          <6> QED
            BY <3>1, <5>1, <6>1
        <5>2. CASE k[2] # e.id
          <6>1. effect_store \in [Keys -> FfEffects \union {NONE}]
            BY DEF TypeOK
          <6>2. effect_store'[k] = effect_store[k]
            BY ZenonT(40), <5>2, <6>1, UpsertFacts
          <6> QED
            BY <4>1, <6>2
        <5> QED
          BY <5>1, <5>2
      <4> QED
        BY <4>2, FoundNothing
    <3> QED
      BY <3>1, <3>2, <3>3
  <2>4. ResolvingIsWanted'
    <3> SUFFICES ASSUME NEW play \in resolving'
                 PROVE  /\ wanted'[play[1]] = play[2].id
                        /\ latest'[play[2].id] = play[2]
                        /\ pending_plays'[play[1]] = NONE
      BY DEF ResolvingIsWanted
    <3>1. play[1] \in matching(pending_plays, e.id) /\ play[2] = e
      OBVIOUS
    <3>2. /\ play[1] \in DeviceIds
          /\ pending_plays[play[1]] = e.id
          /\ pending_plays'[play[1]] = NONE
      BY <2>0, <3>1, TakeFacts DEF TypeOK, matching
    <3>3. wanted[play[1]] = e.id
      BY <2>0, <3>2, AppAssumption DEF PendingIsWanted
    <3> QED
      BY <2>0, <3>1, <3>2, <3>3 DEF TypeOK
  <2>5. OnlyWantedPlays'
    BY DEF OnlyWantedPlays, Selecting, NoCall
  <2> QED
    BY <2>1, <2>2, <2>3, <2>4, <2>5
<1>2. CASE ResolvePending
  <2>1. PICK play \in resolving :
            /\ resolving' = resolving \ {play}
            /\ process_play(play[1], play[2])
            /\ UNCHANGED <<elapsed, store_vars, exited, history>>
    BY <1>2 DEF ResolvePending
  <2> USE <2>1 DEF store_vars, history
  <2>2. play[1] \in DeviceIds /\ play[2] \in FfEffects
    BY DEF TypeOK
  <2>3. /\ call' \in Calls
        /\ call'.op = "schedule_sequence" => call'.device = play[1] /\ call'.effect = play[2]
    BY <2>2, ProcessPlayFacts
  <2>4. TypeOK'
    BY <2>3 DEF TypeOK
  <2>5. StoreHoldsLatest'
    BY DEF StoreHoldsLatest
  <2>6. PendingIsWanted'
    BY DEF PendingIsWanted, found
  <2>7. ResolvingIsWanted'
    BY DEF ResolvingIsWanted
  <2>8. OnlyWantedPlays'
    <3>1. /\ wanted[play[1]] = play[2].id
          /\ latest[play[2].id] = play[2]
          /\ pending_plays[play[1]] = NONE
      BY DEF ResolvingIsWanted
    <3>2. play = <<play[1], play[2]>>
      BY DEF TypeOK
    <3> QED
      BY <2>3, <3>1, <3>2 DEF OnlyWantedPlays
  <2> QED
    BY <2>4, <2>5, <2>6, <2>7, <2>8
<1>3. ASSUME NEW id \in EffectIds, handle_effect_erased(id)
      PROVE  Safety'
  <2> USE <1>3 DEF handle_effect_erased
  <2>1. TypeOK'
    <3>1. /\ effect_store' \in [Keys -> FfEffects \union {NONE}]
          /\ pending_plays' \in [DeviceIds -> EffectIds \union {NONE}]
      BY PurgeFacts, TakeFacts DEF TypeOK
    <3> QED
      BY <3>1 DEF TypeOK
  <2>2. StoreHoldsLatest'
    <3> SUFFICES ASSUME NEW k \in Keys, effect_store'[k] # NONE
                 PROVE  /\ effect_store'[k].id = k[2]
                        /\ latest'[k[2]] = effect_store'[k]
                        /\ \A j \in Keys : effect_store'[j] # NONE /\ j[2] = k[2] => j = k
      BY DEF StoreHoldsLatest
    <3>1. k[2] \in EffectIds
      BY DEF Keys
    <3>2. /\ \A j \in Keys : j[2] # id => effect_store'[j] = effect_store[j]
          /\ \A j \in Keys : j[2] = id => effect_store'[j] = NONE
      BY PurgeFacts DEF TypeOK
    <3> QED
      BY <3>1, <3>2 DEF TypeOK, StoreHoldsLatest
  <2>3. PendingIsWanted'
    <3> SUFFICES ASSUME NEW d \in DeviceIds, pending_plays'[d] # NONE
                 PROVE  /\ wanted'[d] = pending_plays'[d]
                        /\ found(effect_store', pending_plays'[d]) = {}
      BY DEF PendingIsWanted, found
    <3>1. pending_plays'[d] = pending_plays[d] /\ pending_plays'[d] # id
      BY TakeFacts DEF TypeOK
    <3>2. wanted[d] = pending_plays[d] /\ found(effect_store, pending_plays[d]) = {}
      BY <3>1 DEF PendingIsWanted
    <3>3. found(effect_store', pending_plays[d]) = {}
      <4>1. \A k \in Keys :
                effect_store[k] = NONE \/ effect_store[k].id # pending_plays[d]
        BY <3>2, FoundNothing
      <4>2. \A k \in Keys :
                effect_store'[k] = NONE \/ effect_store'[k].id # pending_plays[d]
        BY ZenonT(40), <4>1, PurgeFacts DEF TypeOK
      <4> QED
        BY <4>2, FoundNothing
    <3>4. wanted'[d] = wanted[d]
      BY <3>1, <3>2
    <3> QED
      BY <3>1, <3>2, <3>3, <3>4
  <2>4. ResolvingIsWanted'
    BY DEF ResolvingIsWanted, Selecting
  <2>5. OnlyWantedPlays'
    BY DEF OnlyWantedPlays, Selecting, NoCall
  <2> QED
    BY <2>1, <2>2, <2>3, <2>4, <2>5
<1>4. ASSUME NEW d \in DeviceIds, NEW id \in EffectIds, handle_ff_event_stop(d, id)
      PROVE  Safety'
  <2> USE <1>4 DEF handle_ff_event_stop, take_pending_for_device
  <2>1. TypeOK'
    <3>1. effect_store' \in [Keys -> FfEffects \union {NONE}]
      BY PurgeFacts DEF TypeOK
    <3>2. call' \in Calls
      BY DEF Calls
    <3> QED
      BY <3>1, <3>2 DEF TypeOK
  <2>2. StoreHoldsLatest'
    <3> SUFFICES ASSUME NEW k \in Keys, effect_store'[k] # NONE
                 PROVE  /\ effect_store'[k].id = k[2]
                        /\ latest'[k[2]] = effect_store'[k]
                        /\ \A j \in Keys : effect_store'[j] # NONE /\ j[2] = k[2] => j = k
      BY DEF StoreHoldsLatest
    <3>1. k[2] \in EffectIds
      BY DEF Keys
    <3>2. /\ \A j \in Keys : j[2] # id => effect_store'[j] = effect_store[j]
          /\ \A j \in Keys : j[2] = id => effect_store'[j] = NONE
      BY PurgeFacts DEF TypeOK
    <3> QED
      BY <3>1, <3>2 DEF TypeOK, StoreHoldsLatest
  <2>3. PendingIsWanted'
    <3> SUFFICES ASSUME NEW o \in DeviceIds, pending_plays'[o] # NONE
                 PROVE  /\ wanted'[o] = pending_plays'[o]
                        /\ found(effect_store', pending_plays'[o]) = {}
      BY DEF PendingIsWanted, found
    <3>1. o # d /\ pending_plays'[o] = pending_plays[o] /\ wanted'[o] = wanted[o]
      BY DEF TypeOK
    <3>2. wanted[o] = pending_plays[o] /\ found(effect_store, pending_plays[o]) = {}
      BY <3>1 DEF PendingIsWanted
    <3>3. found(effect_store', pending_plays[o]) = {}
      <4>1. \A k \in Keys :
                effect_store[k] = NONE \/ effect_store[k].id # pending_plays[o]
        BY <3>2, FoundNothing
      <4>2. \A k \in Keys :
                effect_store'[k] = NONE \/ effect_store'[k].id # pending_plays[o]
        BY SMTT(40), <4>1, PurgeFacts DEF TypeOK
      <4> QED
        BY <4>2, FoundNothing
    <3> QED
      BY <3>1, <3>2, <3>3
  <2>4. ResolvingIsWanted'
    BY DEF ResolvingIsWanted, Selecting
  <2>5. OnlyWantedPlays'
    BY DEF OnlyWantedPlays
  <2> QED
    BY <2>1, <2>2, <2>3, <2>4, <2>5
<1>5. ASSUME NEW d \in DeviceIds, NEW id \in EffectIds, handle_ff_event_play(d, id)
      PROVE  Safety'
  <2> USE <1>5 DEF handle_ff_event_play
  <2>1. CASE PlayKnown(d, id)
    <3>1. PICK effect \in found(effect_store, id) :
              /\ pending_plays' = take_pending_for_device(pending_plays, d)
              /\ process_play(d, effect)
      BY <2>1 DEF PlayKnown
    <3>2. effect \in FfEffects /\ effect.id = id /\ latest[id] = effect
      BY <3>1 DEF found, TypeOK, StoreHoldsLatest
    <3>3. /\ call' \in Calls
          /\ call'.op = "schedule_sequence" => call'.device = d /\ call'.effect = effect
      BY <3>1, <3>2, ProcessPlayFacts
    <3>4. TypeOK'
      BY <3>1, <3>3 DEF TypeOK, take_pending_for_device
    <3>5. StoreHoldsLatest'
      BY DEF StoreHoldsLatest
    <3>6. PendingIsWanted'
      BY <3>1 DEF PendingIsWanted, found, TypeOK, take_pending_for_device
    <3>7. ResolvingIsWanted'
      BY DEF ResolvingIsWanted, Selecting
    <3>8. OnlyWantedPlays'
      BY <3>1, <3>2, <3>3 DEF OnlyWantedPlays, TypeOK, take_pending_for_device, Selecting
    <3> QED
      BY <3>4, <3>5, <3>6, <3>7, <3>8
  <2>2. CASE PlayUnknown(d, id)
    <3> USE <2>2 DEF PlayUnknown, insert_pending
    <3>1. TypeOK'
      BY DEF TypeOK
    <3>2. StoreHoldsLatest'
      BY DEF StoreHoldsLatest
    <3>3. PendingIsWanted'
      BY DEF PendingIsWanted, found, TypeOK
    <3>4. ResolvingIsWanted'
      BY DEF ResolvingIsWanted, Selecting
    <3>5. OnlyWantedPlays'
      BY DEF OnlyWantedPlays, Selecting, NoCall
    <3> QED
      BY <3>1, <3>2, <3>3, <3>4, <3>5
  <2> QED
    BY <2>1, <2>2
(* The remaining actions leave the store, the pending plays and the        *)
(* history alone and start no sequence.                                    *)
<1>6. CASE stop_all \/ ScheduleReturns \/ StopReturns \/ StopAllReturns
  <2>0. call' \in {NoCall, [op |-> "stop_all", device |-> NONE, effect |-> NONE]}
    BY <1>6 DEF stop_all, ScheduleReturns, StopReturns, StopAllReturns
  <2>1. /\ UNCHANGED <<store_vars, resolving, history>>
        /\ call' \in Calls
        /\ call'.op # "schedule_sequence"
        /\ exited' \in BOOLEAN
        /\ elapsed' \in 0 .. MIN_INTERVAL_MS
    <3>1. call' \in Calls /\ call'.op # "schedule_sequence"
      BY <2>0 DEF Calls, NoCall
    <3>2. UNCHANGED <<store_vars, resolving, history>> /\ exited' \in BOOLEAN
      BY <1>6 DEF stop_all, ScheduleReturns, StopReturns, StopAllReturns, TypeOK
    <3>3. elapsed' \in 0 .. MIN_INTERVAL_MS
      BY <1>6, ThrottleAssumption DEF stop_all, ScheduleReturns, StopReturns, StopAllReturns,
         record_haptic_emitted, TypeOK
    <3> QED
      BY <3>1, <3>2, <3>3
  <2> USE <2>1 DEF store_vars, history
  <2>2. TypeOK'
    BY DEF TypeOK
  <2>3. StoreHoldsLatest' /\ PendingIsWanted' /\ ResolvingIsWanted' /\ OnlyWantedPlays'
    BY SMTT(40) DEF StoreHoldsLatest, PendingIsWanted, found, ResolvingIsWanted, OnlyWantedPlays
  <2> QED
    BY <2>2, <2>3
<1>7. CASE Tick
  <2> USE <1>7 DEF Tick, Elapse, store_vars, history
  <2>1. TypeOK'
    BY ThrottleAssumption DEF TypeOK
  <2>2. StoreHoldsLatest' /\ PendingIsWanted' /\ ResolvingIsWanted' /\ OnlyWantedPlays'
    BY DEF StoreHoldsLatest, PendingIsWanted, found, ResolvingIsWanted, OnlyWantedPlays
  <2> QED
    BY <2>1, <2>2
<1>8. CASE UNCHANGED vars
  <2> USE <1>8 DEF vars
  <2>1. TypeOK' /\ StoreHoldsLatest'
    BY DEF TypeOK, StoreHoldsLatest
  <2>2. PendingIsWanted' /\ ResolvingIsWanted' /\ OnlyWantedPlays'
    BY DEF PendingIsWanted, found, ResolvingIsWanted, OnlyWantedPlays
  <2> QED
    BY <2>1, <2>2
<1>9. AppNext => \/ \E t \in Tgids, e \in FfEffects : handle_effect_uploaded(t, e)
                 \/ \E id \in EffectIds : handle_effect_erased(id)
                 \/ \E d \in DeviceIds, id \in EffectIds : handle_ff_event_stop(d, id)
                 \/ \E d \in DeviceIds, id \in EffectIds : handle_ff_event_play(d, id)
                 \/ ResolvePending
                 \/ (stop_all \/ ScheduleReturns \/ StopReturns \/ StopAllReturns)
                 \/ Tick
                 \/ UNCHANGED vars
  BY DEF AppNext, Awaiting, Exited
<1> HIDE DEF Safety
<1> QED
  BY <1>1, <1>2, <1>3, <1>4, <1>5, <1>6, <1>7, <1>8, <1>9

(* The invariants of the handlers in app.rs are inductive together: what   *)
(* the store holds, which Plays are held and which are resolved or started *)
(* depend on each other.                                                   *)
THEOREM SafetyInvariant == AppSpec => []Safety
<1>1. AppInit => Safety
  BY InitSafety
<1>2. Safety /\ [AppNext]_vars => Safety'
  BY NextSafety
<1> QED
  BY <1>1, <1>2, PTL DEF AppSpec

(* Every variable of the daemon keeps its type. *)
THEOREM TypeCorrect == AppSpec => []TypeOK
<1>1. Safety => TypeOK
  BY DEF Safety
<1> QED
  BY <1>1, SafetyInvariant, PTL

(* effect_store has one entry per effect id, the last one uploaded: a Play *)
(* finds the same effect whatever the HashMap's order.                     *)
THEOREM StoreCorrect == AppSpec => []StoreHoldsLatest
<1>1. Safety => StoreHoldsLatest
  BY DEF Safety
<1> QED
  BY <1>1, SafetyInvariant, PTL

(* A held Play is its device's last request, and its effect is missing. *)
THEOREM PendingCorrect == AppSpec => []PendingIsWanted
<1>1. Safety => PendingIsWanted
  BY DEF Safety
<1> QED
  BY <1>1, SafetyInvariant, PTL

(* Whatever is handed to playback is what the device's last event asked    *)
(* for, and the effect last uploaded under that id.                        *)
THEOREM PlaysCorrect == AppSpec => []OnlyWantedPlays
<1>1. Safety => OnlyWantedPlays
  BY DEF Safety
<1> QED
  BY <1>1, SafetyInvariant, PTL

(* The plays an upload has taken stay wanted until each is processed, for  *)
(* all that main awaits playback between them (app.rs:90-101).             *)
THEOREM ResolvingCorrect == AppSpec => []ResolvingIsWanted
<1>1. Safety => ResolvingIsWanted
  BY DEF Safety
<1> QED
  BY <1>1, SafetyInvariant, PTL

(* Purging one id leaves what a Play of another finds as it was. *)
LEMMA PurgeKeepsOthers ==
    ASSUME TypeOK, StoreHoldsLatest,
           NEW id \in EffectIds, NEW other \in EffectIds, other # id
    PROVE  found(purge_effect_id(effect_store, id), other) = found(effect_store, other)
<1> DEFINE s == purge_effect_id(effect_store, id)
<1>1. /\ \A k \in Keys : k[2] # id => s[k] = effect_store[k]
      /\ \A k \in Keys : k[2] = id => s[k] = NONE
  BY PurgeFacts DEF TypeOK
<1>2. \A k \in Keys : effect_store[k] # NONE => effect_store[k].id = k[2]
  BY DEF StoreHoldsLatest
<1>3. \A k \in Keys : s[k] # NONE /\ s[k].id = other
                     <=> effect_store[k] # NONE /\ effect_store[k].id = other
  BY <1>1, <1>2
<1>4. \A k \in Keys : s[k] # NONE => s[k] = effect_store[k]
  BY <1>1
<1> HIDE DEF s
<1> QED
  BY <1>3, <1>4 DEF found, s

(* Purging an id leaves a Play of it nothing to find. *)
LEMMA PurgeLeavesNothing ==
    ASSUME TypeOK, StoreHoldsLatest, NEW id \in EffectIds
    PROVE  found(purge_effect_id(effect_store, id), id) = {}
<1> DEFINE s == purge_effect_id(effect_store, id)
<1>1. /\ \A k \in Keys : k[2] # id => s[k] = effect_store[k]
      /\ \A k \in Keys : k[2] = id => s[k] = NONE
  BY PurgeFacts DEF TypeOK
<1>2. \A k \in Keys : s[k] = NONE \/ s[k].id # id
  BY <1>1 DEF StoreHoldsLatest
<1> QED
  BY <1>2, FoundNothing

(* An effect is forgotten only by the step that handles its own erase or a *)
(* Stop that names it, and then alone, and a Stop forgets what it names    *)
(* (app.rs:104-139, 245-258).                                              *)
THEOREM ForgetsOnlyItsOwn == AppSpec => KnownUntilStopped
<1> DEFINE Kept == \A id \in EffectIds :
                      /\ id \in Forgotten =>
                             /\ Forgotten = {id}
                             /\ latest'[id] = NONE \/ Stopping(id)
                      /\ Stopping(id) => found(effect_store', id) = {}
<1>1. Safety /\ [AppNext]_vars => [Kept]_vars
  <2> SUFFICES ASSUME Safety, [AppNext]_vars PROVE [Kept]_vars
    OBVIOUS
  <2>0. TypeOK /\ StoreHoldsLatest
    BY DEF Safety
  <2>1. ASSUME NEW t \in Tgids, NEW e \in FfEffects, handle_effect_uploaded(t, e)
        PROVE  Forgotten = {}
    <3>1. e.id \in EffectIds /\ effect_store' = upsert_effect(effect_store, t, e)
      BY <2>1 DEF handle_effect_uploaded, FfEffects
    <3>2. /\ effect_store'[<<t, e.id>>] = e
          /\ \A k \in Keys : k[2] # e.id => effect_store'[k] = effect_store[k]
      BY <2>0, <3>1, UpsertFacts DEF TypeOK
    <3>3. <<t, e.id>> \in Keys /\ e # NONE
      BY <3>1, AppAssumption DEF Keys, FfEffects
    <3>4. ASSUME NEW id \in EffectIds, found(effect_store, id) # {}
          PROVE  found(effect_store', id) # {}
      <4>1. CASE id = e.id
        BY <3>2, <3>3, <4>1, FoundNothing
      <4>2. CASE id # e.id
        <5>1. PICK k \in Keys : effect_store[k] # NONE /\ effect_store[k].id = id
          BY <3>4, FoundNothing
        <5>2. k[2] = id
          BY <2>0, <5>1 DEF StoreHoldsLatest
        <5> QED
          BY <3>2, <4>2, <5>1, <5>2, FoundNothing
      <4> QED
        BY <4>1, <4>2
    <3> QED
      BY <3>4 DEF Forgotten
  <2>2. ASSUME NEW id \in EffectIds, effect_store' = purge_effect_id(effect_store, id)
        PROVE  Forgotten \subseteq {id}
    BY <2>0, <2>2, PurgeKeepsOthers DEF Forgotten
  <2>3. ASSUME NEW id \in EffectIds, handle_effect_erased(id)
        PROVE  Kept
    <3>1. Forgotten \subseteq {id} /\ latest'[id] = NONE
      BY <2>0, <2>2, <2>3 DEF handle_effect_erased, TypeOK
    <3>2. \A i \in EffectIds : ~Stopping(i)
      BY <2>3 DEF handle_effect_erased, Stopping, NoCall
    <3> QED
      BY <3>1, <3>2
  <2>4. ASSUME NEW d \in DeviceIds, NEW id \in EffectIds, handle_ff_event_stop(d, id)
        PROVE  Kept
    <3>1. Forgotten \subseteq {id}
      BY <2>2, <2>4 DEF handle_ff_event_stop
    <3>2. \A i \in EffectIds : Stopping(i) <=> i = id
      BY <2>4 DEF handle_ff_event_stop, Selecting, Stopping
    <3>3. found(effect_store', id) = {}
      BY <2>0, <2>4, PurgeLeavesNothing DEF handle_ff_event_stop
    <3> QED
      BY <3>1, <3>2, <3>3
  <2>5. ASSUME UNCHANGED effect_store
        PROVE  Forgotten = {}
    BY <2>5 DEF Forgotten, found
  <2>6. ASSUME NEW d \in DeviceIds, NEW id \in EffectIds, handle_ff_event_play(d, id)
        PROVE  Forgotten = {} /\ \A i \in EffectIds : ~Stopping(i)
    <3>1. UNCHANGED effect_store /\ call' # call => call'.op # "stop"
      BY <2>6 DEF handle_ff_event_play, PlayKnown, PlayUnknown, process_play, NoCall
    <3> QED
      BY <2>5, <3>1, <2>6 DEF handle_ff_event_play, Stopping, NoCall
  <2>7. CASE ResolvePending \/ stop_all \/ ScheduleReturns \/ StopReturns \/ StopAllReturns \/ Tick
    <3>1. UNCHANGED effect_store
      BY <2>7 DEF ResolvePending, stop_all, ScheduleReturns, StopReturns, StopAllReturns, Tick, store_vars
    <3>2. \A i \in EffectIds : ~Stopping(i)
      BY <2>7 DEF ResolvePending, stop_all, ScheduleReturns, StopReturns, StopAllReturns, Tick,
         process_play, Stopping, NoCall
    <3> QED
      BY <2>5, <3>1, <3>2
  <2>8. CASE UNCHANGED vars
    BY <2>8
  <2>9. ASSUME NEW t \in Tgids, NEW e \in FfEffects, handle_effect_uploaded(t, e)
        PROVE  \A i \in EffectIds : ~Stopping(i)
    BY <2>9 DEF handle_effect_uploaded, Stopping, NoCall
  <2>10. Forgotten = {} /\ (\A i \in EffectIds : ~Stopping(i)) => Kept
    OBVIOUS
  <2> HIDE DEF Kept
  <2> QED
    BY <2>1, <2>3, <2>4, <2>6, <2>7, <2>8, <2>9, <2>10 DEF AppNext, Awaiting, Exited
<1> QED
  BY <1>1, SafetyInvariant, PTL DEF AppSpec, KnownUntilStopped
=============================================================================
