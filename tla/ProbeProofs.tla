---------------------------- MODULE ProbeProofs ----------------------------
(***************************************************************************)
(* Proofs about Probe, for any games, effect table, ring, channel and      *)
(* faults: its state stays well-typed, a published upload is that of its   *)
(* call, and, with one thread for each game, the receiver's table          *)
(* converges to the kernel's.                                              *)
(***************************************************************************)
EXTENDS Probe, SequenceTheorems, WellFoundedInduction, TLAPS

(* The last event of id in a sequence, and the body it leaves. *)
IsLatest(m, events, id) ==
    /\ m \in 1 .. Len(events)
    /\ events[m].id = id
    /\ \A j \in 1 .. Len(events) : events[j].id = id => j <= m

Silent(events, id) == \A j \in 1 .. Len(events) : events[j].id # id

Latest(events, was, id) ==
    LET own == {i \in 1 .. Len(events) : events[i].id = id}
    IN  IF own = {} THEN was
        ELSE events[CHOOSE i \in own : \A j \in own : j <= i].body

-----------------------------------------------------------------------------
(* Sequences of events. *)

LEMMA LastExists ==
    ASSUME NEW n \in Nat, NEW S \in SUBSET (1 .. n), S # {}
    PROVE  \E i \in S : \A j \in S : j <= i
<1> DEFINE T == {k \in Nat : k <= n /\ n - k \in S}
<1>1. PICK i \in S : TRUE
  OBVIOUS
<1>2. n - i \in T
  <2>1. i \in 1 .. n /\ n - i \in Nat /\ n - (n - i) = i
    OBVIOUS
  <2> QED
    BY <2>1
<1>3. T \subseteq Nat /\ T # {}
  BY <1>2
<1>4. PICK k \in T : \A l \in T : <<l, k>> \notin OpToRel(<, Nat)
  <2> HIDE DEF T
  <2> QED
    BY <1>3, NatLessThanWellFounded, WFMin
<1>5. \A j \in S : j <= n - k
  <2> TAKE j \in S
  <2>1. j \in 1 .. n /\ n - j \in Nat /\ n - (n - j) = j
    OBVIOUS
  <2>2. n - j \in T
    BY <2>1
  <2>3. ~(n - j < k)
    BY <1>4, <2>1, <2>2 DEF OpToRel
  <2> QED
    BY <2>1, <2>3
<1> QED
  BY <1>4, <1>5

LEMMA LatestValue ==
    ASSUME NEW events \in Seq(Events), NEW was, NEW id
    PROVE  /\ Silent(events, id) => Latest(events, was, id) = was
           /\ \A m : IsLatest(m, events, id) => Latest(events, was, id) = events[m].body
           /\ Silent(events, id) \/ \E m : IsLatest(m, events, id)
<1> DEFINE own == {i \in 1 .. Len(events) : events[i].id = id}
<1>1. Silent(events, id) => Latest(events, was, id) = was
  BY DEF Silent, Latest
<1>2. ASSUME NEW m, IsLatest(m, events, id)
      PROVE  Latest(events, was, id) = events[m].body
  <2>1. m \in own /\ \A j \in own : j <= m
    BY <1>2 DEF IsLatest
  <2>2. \A i \in own : (\A j \in own : j <= i) => i = m
    BY <2>1
  <2>3. (CHOOSE i \in own : \A j \in own : j <= i) = m
    BY <2>1, <2>2
  <2> QED
    BY <2>1, <2>3 DEF Latest
<1>3. ASSUME ~Silent(events, id) PROVE \E m : IsLatest(m, events, id)
  <2>1. own # {} /\ Len(events) \in Nat
    BY <1>3 DEF Silent
  <2>2. PICK m \in own : \A j \in own : j <= m
    BY <2>1, LastExists
  <2> QED
    BY <2>2 DEF IsLatest
<1> QED
  BY <1>1, <1>2, <1>3

LEMMA LatestAppend ==
    ASSUME NEW events \in Seq(Events), NEW e \in Events, NEW was, NEW id
    PROVE  Latest(Append(events, e), was, id) =
               IF e.id = id THEN e.body ELSE Latest(events, was, id)
<1> DEFINE more == Append(events, e)
<1>1. /\ more \in Seq(Events) /\ Len(more) = Len(events) + 1 /\ Len(events) \in Nat
      /\ \A i \in 1 .. Len(events) : more[i] = events[i]
      /\ more[Len(events) + 1] = e
  OBVIOUS
<1> SUFFICES Latest(more, was, id) = IF e.id = id THEN e.body ELSE Latest(events, was, id)
  OBVIOUS
<1> HIDE DEF more
<1>2. CASE e.id = id
  <2>1. IsLatest(Len(events) + 1, more, id)
    BY <1>1, <1>2 DEF IsLatest
  <2> QED
    BY <1>1, <1>2, <2>1, LatestValue
<1>3. CASE e.id # id
  <2>1. CASE Silent(events, id)
    <3>1. Silent(more, id)
      BY <1>1, <1>3, <2>1 DEF Silent
    <3> QED
      BY <1>1, <1>3, <2>1, <3>1, LatestValue
  <2>2. ASSUME NEW m, IsLatest(m, events, id)
        PROVE  Latest(more, was, id) = Latest(events, was, id)
    <3>1. IsLatest(m, more, id) /\ more[m] = events[m]
      BY <1>1, <1>3, <2>2 DEF IsLatest
    <3> QED
      BY <1>1, <2>2, <3>1, LatestValue
  <2> QED
    BY <1>3, <2>1, <2>2, LatestValue
<1> QED
  BY <1>2, <1>3

LEMMA LatestTail ==
    ASSUME NEW events \in Seq(Events), events # <<>>, NEW was, NEW id
    PROVE  Latest(Tail(events), IF Head(events).id = id THEN Head(events).body ELSE was, id) =
               Latest(events, was, id)
<1> DEFINE rest == Tail(events)
           told == IF Head(events).id = id THEN Head(events).body ELSE was
<1>1. /\ rest \in Seq(Events) /\ Len(rest) = Len(events) - 1 /\ Len(events) \in Nat \ {0}
      /\ \A i \in 1 .. Len(rest) : rest[i] = events[i + 1]
      /\ Head(events) = events[1]
  BY HeadTailProperties, EmptySeq
<1> HIDE DEF rest
<1>2. ASSUME NEW m, IsLatest(m, rest, id)
      PROVE  Latest(rest, told, id) = Latest(events, was, id)
  <2>1. m \in 1 .. Len(rest) /\ rest[m] = events[m + 1] /\ m + 1 \in 1 .. Len(events)
    BY <1>1, <1>2 DEF IsLatest
  <2> m \in Nat
    BY <1>1, <2>1
  <2>2. ASSUME NEW j \in 1 .. Len(events), events[j].id = id PROVE j <= m + 1
    <3>1. CASE j = 1
      BY <2>1, <3>1
    <3>2. CASE j # 1
      <4>1. j - 1 \in 1 .. Len(rest) /\ rest[j - 1] = events[j]
        BY <1>1, <3>2
      <4>2. rest[j - 1].id = id
        BY <2>2, <4>1
      <4>3. j - 1 <= m
        BY <1>2, <4>1, <4>2 DEF IsLatest
      <4> QED
        BY <1>1, <4>3
    <3> QED
      BY <3>1, <3>2
  <2>3. IsLatest(m + 1, events, id)
    BY <1>2, <2>1, <2>2 DEF IsLatest
  <2> QED
    BY <1>1, <1>2, <2>1, <2>3, LatestValue
<1>3. ASSUME Silent(rest, id)
      PROVE  Latest(rest, told, id) = Latest(events, was, id)
  <2>0. \A j \in 1 .. Len(events) : j # 1 => events[j].id # id
    <3> TAKE j \in 1 .. Len(events)
    <3> HAVE j # 1
    <3>1. j - 1 \in 1 .. Len(rest) /\ rest[j - 1] = events[j]
      BY <1>1
    <3> QED
      BY <1>3, <3>1 DEF Silent
  <2>1. CASE Head(events).id = id
    <3>1. IsLatest(1, events, id)
      BY <1>1, <2>0, <2>1 DEF IsLatest
    <3> QED
      BY <1>1, <1>3, <2>1, <3>1, LatestValue
  <2>2. CASE Head(events).id # id
    <3>1. Silent(events, id)
      BY <1>1, <2>0, <2>2 DEF Silent
    <3> QED
      BY <1>1, <1>3, <2>2, <3>1, LatestValue
  <2> QED
    BY <2>1, <2>2
<1> QED
  BY <1>1, <1>2, <1>3, LatestValue DEF rest

LEMMA LatestDrop ==
    ASSUME NEW rx \in Seq(Events), NEW ring \in Seq(Events), ring # <<>>, NEW was, NEW id,
           \/ Head(ring).id # id
           \/ \E i \in 2 .. Len(ring) : ring[i].id = Head(ring).id
    PROVE  Latest(rx \o Tail(ring), was, id) = Latest(rx \o ring, was, id)
<1> DEFINE old == rx \o ring
           new == rx \o Tail(ring)
           n   == Len(rx)
<1>1. /\ Tail(ring) \in Seq(Events) /\ Len(Tail(ring)) = Len(ring) - 1
      /\ \A i \in 1 .. Len(Tail(ring)) : Tail(ring)[i] = ring[i + 1]
      /\ Head(ring) = ring[1] /\ Len(ring) \in Nat \ {0} /\ n \in Nat
  BY HeadTailProperties, EmptySeq
<1>2. /\ old \in Seq(Events) /\ Len(old) = n + Len(ring)
      /\ \A i \in 1 .. Len(old) : old[i] = IF i <= n THEN rx[i] ELSE ring[i - n]
  BY ConcatProperties
<1>3. /\ new \in Seq(Events) /\ Len(new) = n + Len(ring) - 1
      /\ \A i \in 1 .. Len(new) : new[i] = IF i <= n THEN rx[i] ELSE Tail(ring)[i - n]
  BY <1>1, ConcatProperties
<1> SUFFICES Latest(new, was, id) = Latest(old, was, id)
  OBVIOUS
<1> HIDE DEF old, new, n
<1>4. \A i \in 1 .. Len(new) : new[i] = old[IF i <= n THEN i ELSE i + 1]
  <2> TAKE i \in 1 .. Len(new)
  <2>1. CASE i <= n
    <3>1. i \in 1 .. Len(old)
      BY <1>1, <1>2, <1>3, <2>1
    <3>2. new[i] = rx[i] /\ old[i] = rx[i]
      BY <1>2, <1>3, <2>1, <3>1
    <3> QED
      BY <2>1, <3>2
  <2>2. CASE ~(i <= n)
    <3>1. i - n \in 1 .. Len(Tail(ring)) /\ i + 1 \in 1 .. Len(old) /\ ~(i + 1 <= n)
      BY <1>1, <1>2, <1>3, <2>2
    <3>2. new[i] = ring[(i - n) + 1] /\ old[i + 1] = ring[(i + 1) - n]
      BY <1>1, <1>2, <1>3, <2>2, <3>1
    <3> QED
      BY <1>1, <2>2, <3>2
  <2> QED
    BY <2>1, <2>2
<1>5. n + 1 \in 1 .. Len(old) /\ old[n + 1] = Head(ring)
  <2>1. n + 1 \in 1 .. Len(old) /\ ~(n + 1 <= n) /\ (n + 1) - n = 1
    BY <1>1, <1>2
  <2>2. old[n + 1] = ring[(n + 1) - n]
    BY <1>2, <2>1
  <2> QED
    BY <1>1, <2>1, <2>2
<1>6. CASE Silent(old, id)
  <2>1. Silent(new, id)
    <3> SUFFICES ASSUME NEW i \in 1 .. Len(new) PROVE new[i].id # id
      BY DEF Silent
    <3>1. (IF i <= n THEN i ELSE i + 1) \in 1 .. Len(old)
      BY <1>1, <1>2, <1>3
    <3> QED
      BY <1>4, <1>6, <3>1 DEF Silent
  <2> QED
    BY <1>2, <1>3, <1>6, <2>1, LatestValue
<1>7. ASSUME NEW m, IsLatest(m, old, id)
      PROVE  Latest(new, was, id) = Latest(old, was, id)
  <2>1. m \in 1 .. Len(old) /\ old[m].id = id
    BY <1>7 DEF IsLatest
  <2>2. m # n + 1
    <3>1. CASE Head(ring).id # id
      BY <1>5, <2>1, <3>1
    <3>2. ASSUME NEW i \in 2 .. Len(ring), ring[i].id = Head(ring).id, Head(ring).id = id
          PROVE  m # n + 1
      <4>1. n + i \in 1 .. Len(old) /\ ~(n + i <= n) /\ (n + i) - n = i
        BY <1>1, <1>2
      <4>2. old[n + i].id = id
        BY <1>2, <3>2, <4>1
      <4>3. n + i <= m
        BY <1>7, <4>1, <4>2 DEF IsLatest
      <4> QED
        BY <1>1, <2>1, <4>3
    <3> QED
      BY <3>1, <3>2
  <2> DEFINE k == IF m <= n THEN m ELSE m - 1
  <2>3. k \in 1 .. Len(new) /\ m = (IF k <= n THEN k ELSE k + 1)
    BY <1>1, <1>2, <1>3, <2>1, <2>2
  <2>4. new[k] = old[m]
    BY <1>4, <2>3
  <2>5. ASSUME NEW j \in 1 .. Len(new), new[j].id = id PROVE j <= k
    <3> DEFINE l == IF j <= n THEN j ELSE j + 1
    <3>1. l \in 1 .. Len(old) /\ new[j] = old[l]
      BY <1>1, <1>2, <1>3, <1>4
    <3>2. l <= m
      BY <1>7, <2>5, <3>1 DEF IsLatest
    <3> QED
      BY <1>1, <1>3, <2>1, <2>2, <3>2
  <2>6. IsLatest(k, new, id)
    <3> HIDE DEF k
    <3> QED
      BY <2>1, <2>3, <2>4, <2>5 DEF IsLatest
  <2> QED
    <3> HIDE DEF k
    <3> QED
      BY SMTT(40), <1>2, <1>3, <1>7, <2>4, <2>6, LatestValue
<1> QED
  BY <1>2, <1>6, <1>7, LatestValue

-----------------------------------------------------------------------------
(* What a step does to what the receiver will believe. *)

LEMMA BelievedIsLatest ==
    \A id : /\ Believed(id) = Latest(effect_rx \o EVENTS, view[id], id)
            /\ Believed(id)' = Latest(effect_rx' \o EVENTS', view'[id], id)
BY DEF Believed, Latest

LEMMA Published ==
    ASSUME TypeOK, NEW e \in Events, NEW happens \in BOOLEAN,
           publish(e, happens), UNCHANGED event_vars
    PROVE  /\ \A id : id # e.id => Believed(id)' = Believed(id) /\ (id \in unseen' <=> id \in unseen)
           /\ e.id \in unseen' \/ (happens /\ Believed(e.id)' = e.body)
<1>1. effect_rx \in Seq(Events) /\ EVENTS \in Seq(Events) /\ effect_rx \o EVENTS \in Seq(Events)
  BY DEF TypeOK
<1>2. effect_rx \o Append(EVENTS, e) = Append(effect_rx \o EVENTS, e)
  BY <1>1
<1>3. effect_rx' = effect_rx /\ view' = view
  BY DEF event_vars
<1>4. CASE Len(EVENTS) < RingSize
  <2>1. EVENTS' = Append(EVENTS, e)
    BY <1>4 DEF publish
  <2>2. \A id : Believed(id)' = IF e.id = id THEN e.body ELSE Believed(id)
    <3> TAKE id
    <3>1. Believed(id)' = Latest(Append(effect_rx \o EVENTS, e), view[id], id)
      BY <1>2, <1>3, <2>1, BelievedIsLatest
    <3>2. \A events \in Seq(Events) : \A was :
              Latest(Append(events, e), was, id) =
                  IF e.id = id THEN e.body ELSE Latest(events, was, id)
      BY LatestAppend
    <3> QED
      BY <1>1, <3>1, <3>2, BelievedIsLatest
  <2>3. unseen' = IF happens THEN unseen \ {e.id} ELSE unseen \union {e.id}
    BY <1>4 DEF publish, Unseen
  <2> QED
    BY <2>2, <2>3
<1>5. CASE ~(Len(EVENTS) < RingSize)
  <2>1. EVENTS' = EVENTS /\ unseen' = unseen \union {e.id}
    BY <1>5 DEF publish, Unseen
  <2> QED
    BY <1>3, <2>1 DEF Believed
<1> QED
  BY <1>4, <1>5

LEMMA Forwarded ==
    ASSUME TypeOK, Forward
    PROVE  \A id : \/ id \in unseen'
                   \/ Believed(id)' = Believed(id) /\ (id \in unseen' <=> id \in unseen)
<1>1. effect_rx \in Seq(Events) /\ EVENTS \in Seq(Events) /\ EVENTS # <<>>
  BY DEF TypeOK, Forward
<1>2. EVENTS' = Tail(EVENTS) /\ view' = view
  BY DEF Forward
<1>3. CASE Len(effect_rx) < ChannelSize /\ effect_rx' = Append(effect_rx, Head(EVENTS))
           /\ UNCHANGED unseen
  <2>1. Append(effect_rx, Head(EVENTS)) \o Tail(EVENTS) = effect_rx \o EVENTS
    BY <1>1
  <2>2. effect_rx' \o EVENTS' = effect_rx \o EVENTS
    BY <1>2, <1>3, <2>1
  <2>3. \A id : Believed(id)' = Believed(id)
    BY <1>2, <2>2, BelievedIsLatest
  <2> QED
    BY <1>3, <2>3
<1>4. CASE /\ Len(effect_rx) = ChannelSize
           /\ UNCHANGED effect_rx
           /\ unseen' = IF \E i \in 2 .. Len(EVENTS) : EVENTS[i].id = Head(EVENTS).id
                        THEN unseen ELSE unseen \union {Head(EVENTS).id}
  <2> TAKE id
  <2>1. CASE \/ Head(EVENTS).id # id
             \/ \E i \in 2 .. Len(EVENTS) : EVENTS[i].id = Head(EVENTS).id
    <3>1. Latest(effect_rx \o Tail(EVENTS), view[id], id) = Latest(effect_rx \o EVENTS, view[id], id)
      BY <1>1, <2>1, LatestDrop
    <3>2. Believed(id)' = Believed(id)
      BY <1>2, <1>4, <3>1, BelievedIsLatest
    <3>3. id \in unseen' <=> id \in unseen
      BY <1>4, <2>1
    <3> QED
      BY <3>2, <3>3
  <2>2. CASE /\ Head(EVENTS).id = id
             /\ ~ \E i \in 2 .. Len(EVENTS) : EVENTS[i].id = Head(EVENTS).id
    BY <1>4, <2>2
  <2> QED
    BY <2>1, <2>2
<1> QED
  BY <1>3, <1>4 DEF Forward

LEMMA Received ==
    ASSUME TypeOK, Receive
    PROVE  \A id \in Ids : Believed(id)' = Believed(id)
<1>1. effect_rx \in Seq(Events) /\ EVENTS \in Seq(Events) /\ effect_rx # <<>>
  BY DEF TypeOK, Receive
<1> DEFINE pending == effect_rx \o EVENTS
<1>2. /\ pending \in Seq(Events) /\ pending # <<>>
      /\ Head(pending) = Head(effect_rx) /\ Tail(pending) = Tail(effect_rx) \o EVENTS
  BY <1>1
<1>3. EVENTS' = EVENTS /\ effect_rx' = Tail(effect_rx)
      /\ view' = [view EXCEPT ![Head(effect_rx).id] = Head(effect_rx).body]
  BY DEF Receive
<1> TAKE id \in Ids
<1>4. view'[id] = IF Head(pending).id = id THEN Head(pending).body ELSE view[id]
  <2>1. Head(effect_rx).id = id => id \in DOMAIN view
    BY DEF TypeOK
  <2> QED
    BY <1>2, <1>3, <2>1 DEF TypeOK
<1>5. Believed(id)' = Latest(Tail(pending), view'[id], id)
  BY <1>2, <1>3, BelievedIsLatest
<1>6. Believed(id)' = Latest(pending, view[id], id)
  <2> HIDE DEF pending
  <2> QED
    BY <1>2, <1>4, <1>5, LatestTail
<1> QED
  BY <1>6, BelievedIsLatest

-----------------------------------------------------------------------------
(* Types. *)

(* A thread in an upload points to an effect. *)
UploadsHaveBodies == \A t \in Threads : sys[t].cmd = "EVIOCSFF" => mem[t].body \in Bodies

TypeInv == TypeOK /\ UploadsHaveBodies

Calls == [cmd : {"user", "EVIOCSFF", "EVIOCRMFF", "other"}, id : Ids \union Arguments,
          ran : BOOLEAN, failed : BOOLEAN]

(* Sixteen bits are enough for the kernel's ids, and only for them. *)
LEMMA Truncated ==
    ASSUME NEW arg \in Arguments
    PROVE  as_i16(arg) \in EffectIds /\ (arg \in EffectIds => as_i16(arg) = arg)
<1> DEFINE words == 2 * S16_END
<1>1. S16_END \in Nat /\ S16_END > 0 /\ words \in Nat /\ words > 0 /\ words = S16_END + S16_END
  <2>1. S16_END \in Nat /\ S16_END > 0
    BY DEF S16_END
  <2> QED
    BY <2>1
<1>2. EffectIds \subseteq 0 .. (S16_END - 1)
  BY ProbeAssumption
<1>3. Arguments = EffectIds \union {id + words : id \in EffectIds}
  BY DEF Arguments
<1>4. \A a : as_i16(a) = ((a + S16_END) % words) - S16_END
  BY DEF as_i16
<1> HIDE DEF words
<1>5. ASSUME NEW id \in EffectIds
      PROVE  /\ as_i16(id) = id /\ as_i16(id + words) = id
             /\ id + words \notin EffectIds
  <2>1. id \in Nat /\ id + S16_END \in Nat /\ id + S16_END < words
    BY <1>1, <1>2
  <2>2. \A n \in Nat : n < words => n % words = n /\ (n + words) % words = n
    BY <1>1
  <2>3. (id + words) + S16_END = (id + S16_END) + words
    BY <1>1, <2>1
  <2>4. (id + S16_END) % words = id + S16_END /\ ((id + words) + S16_END) % words = id + S16_END
    BY <2>1, <2>2, <2>3
  <2> QED
    BY <1>1, <1>2, <1>4, <2>1, <2>4
<1> QED
  BY <1>3, <1>5

LEMMA InitType == ProbeInit => TypeInv
BY ProbeAssumption
   DEF ProbeInit, TypeInv, TypeOK, UploadsHaveBodies, User, Calling, Blank, Ids, NEW_EFFECT

(* A published event is an event, and the ring keeps its size. *)
LEMMA PublishedType ==
    ASSUME TypeOK, NEW e \in Events, e.id \in Ids, NEW happens \in BOOLEAN, publish(e, happens)
    PROVE  EVENTS' \in Seq(Events) /\ Len(EVENTS') <= RingSize /\ unseen' \subseteq Ids
<1>1. EVENTS \in Seq(Events) /\ Len(EVENTS) <= RingSize /\ unseen \subseteq Ids /\ RingSize \in Nat
  BY ProbeAssumption DEF TypeOK
<1>2. EVENTS' \in Seq(Events) /\ Len(EVENTS') <= RingSize
  BY <1>1 DEF publish
<1>3. unseen' \subseteq Ids
  BY <1>1 DEF publish, Unseen
<1> QED
  BY <1>2, <1>3

LEMMA EventsHaveIds ==
    /\ \A id \in Ids : Erased(id) \in Events /\ Erased(id).id = id
    /\ \A id \in Ids, body \in Bodies : Uploaded(id, body) \in Events /\ Uploaded(id, body).id = id
    /\ \A e \in Events : e.id \in Ids /\ e.body \in Bodies \union {NONE}
BY DEF Erased, Uploaded, Events

LEMMA NextType == TypeInv /\ [ProbeNext]_vars => TypeInv'
<1> SUFFICES ASSUME TypeInv, [ProbeNext]_vars PROVE TypeInv'
  OBVIOUS
<1> USE DEF TypeInv
<1>1. ASSUME NEW t \in Threads, NEW id \in Ids, NEW body \in Bodies, EnterUpload(t, id, body)
      PROVE  TypeInv'
  <2>1. sys' = [sys EXCEPT ![t] = Calling("EVIOCSFF", id)] /\ Calling("EVIOCSFF", id) \in Calls
    BY <1>1 DEF EnterUpload, Calling, Calls
  <2>2. sys' \in [Threads -> Calls]
    BY <2>1 DEF TypeOK, Calls
  <2>3. mem' \in [Threads -> [id : Ids, body : Bodies \union {NONE}]]
    BY <1>1 DEF EnterUpload, TypeOK
  <2>4. ENTER_SCRATCH' \in [Threads -> Bodies \union {NONE}] /\ leftover' \subseteq Threads
    BY <1>1 DEF EnterUpload, TypeOK
  <2>5. UploadsHaveBodies'
    BY <1>1, <2>1 DEF EnterUpload, TypeOK, UploadsHaveBodies
  <2> QED
    BY <1>1, <2>2, <2>3, <2>4, <2>5 DEF EnterUpload, TypeOK, event_vars, Calls
<1>2. ASSUME NEW t \in Threads, NEW arg \in Arguments, EnterErase(t, arg) PROVE TypeInv'
  <2>1. sys' = [sys EXCEPT ![t] = Calling("EVIOCRMFF", arg)] /\ Calling("EVIOCRMFF", arg) \in Calls
    BY <1>2 DEF EnterErase, Calling, Calls
  <2>2. sys' \in [Threads -> Calls] /\ UploadsHaveBodies'
    BY <1>2, <2>1 DEF EnterErase, TypeOK, Calls, UploadsHaveBodies, Calling
  <2>3. EVENTS' \in Seq(Events) /\ Len(EVENTS') <= RingSize /\ unseen' \subseteq Ids
    <3>1. Owns(t, arg) \in BOOLEAN
      BY DEF Owns
    <3>2. as_i16(arg) \in Ids
      BY Truncated DEF Ids
    <3> QED
      BY <1>2, <3>1, <3>2, PublishedType, EventsHaveIds DEF EnterErase
  <2> QED
    BY <1>2, <2>2, <2>3 DEF EnterErase, TypeOK, event_vars, Calls
<1>3. ASSUME NEW t \in Threads, EnterOther(t) PROVE TypeInv'
  <2>1. sys' = [sys EXCEPT ![t] = Calling("other", NEW_EFFECT)]
        /\ Calling("other", NEW_EFFECT) \in Calls
    BY <1>3 DEF EnterOther, Calling, Calls, Ids
  <2>2. sys' \in [Threads -> Calls] /\ UploadsHaveBodies'
    BY <1>3, <2>1 DEF EnterOther, TypeOK, Calls, UploadsHaveBodies, Calling
  <2> QED
    BY <1>3, <2>2 DEF EnterOther, TypeOK, event_vars, Calls
<1>4. ASSUME NEW t \in Threads, NEW failed \in BOOLEAN, Returning(t, failed)
      PROVE  sys' \in [Threads -> Calls] /\ \A s \in Threads : sys'[s].cmd = sys[s].cmd
  <2>1. sys' = [sys EXCEPT ![t] = [@ EXCEPT !.ran = TRUE, !.failed = failed]]
    BY <1>4 DEF Returning, TypeOK
  <2>2. sys[t] \in Calls
    BY DEF TypeOK, Calls
  <2>3. [sys[t] EXCEPT !.ran = TRUE, !.failed = failed] \in Calls
        /\ [sys[t] EXCEPT !.ran = TRUE, !.failed = failed].cmd = sys[t].cmd
    BY <2>2 DEF Calls
  <2> QED
    BY <2>1, <2>3 DEF TypeOK, Calls
<1>5. ASSUME NEW t \in Threads, NEW id \in EffectIds, KernelUpload(t, id) PROVE TypeInv'
  <2>1. sys' \in [Threads -> Calls] /\ \A s \in Threads : sys'[s].cmd = sys[s].cmd
    BY <1>4, <1>5 DEF KernelUpload
  <2>2. mem[t].body \in Bodies /\ TgidOf[t] \in Tgids
    BY <1>5, ProbeAssumption DEF KernelUpload, Running, UploadsHaveBodies
  <2>3. effects' \in [EffectIds -> [owner : Tgids, body : Bodies] \union {NONE}]
    BY <1>5, <2>2 DEF KernelUpload, TypeOK
  <2>4. mem' \in [Threads -> [id : Ids, body : Bodies \union {NONE}]]
        /\ \A s \in Threads : mem'[s].body = mem[s].body
    BY <1>5 DEF KernelUpload, TypeOK, Ids
  <2> QED
    BY <1>5, <2>1, <2>3, <2>4 DEF KernelUpload, TypeOK, UploadsHaveBodies, event_vars, Calls
<1>6. ASSUME NEW t \in Threads, KernelRefuses(t) \/ KernelErase(t) \/ KernelOther(t) PROVE TypeInv'
  <2>1. sys' \in [Threads -> Calls] /\ \A s \in Threads : sys'[s].cmd = sys[s].cmd
    BY <1>4, <1>6 DEF KernelRefuses, KernelErase, KernelOther
  <2>2. effects' \in [EffectIds -> [owner : Tgids, body : Bodies] \union {NONE}]
    BY <1>6 DEF KernelRefuses, KernelErase, KernelOther, TypeOK
  <2> QED
    BY <1>6, <2>1, <2>2
    DEF KernelRefuses, KernelErase, KernelOther, TypeOK, UploadsHaveBodies, event_vars, Calls
<1>7. ASSUME NEW tgid \in Tgids, Close(tgid) PROVE TypeInv'
  <2>1. effects' \in [EffectIds -> [owner : Tgids, body : Bodies] \union {NONE}]
    BY <1>7 DEF Close, TypeOK
  <2>2. unseen' \subseteq Ids
    BY <1>7 DEF Close, TypeOK, Ids
  <2> QED
    BY <1>7, <2>1, <2>2 DEF Close, TypeOK, UploadsHaveBodies, event_vars
<1>8. ASSUME NEW t \in Threads, Leave(t) PROVE sys' \in [Threads -> Calls] /\ sys'[t].cmd = "user"
                                                /\ \A s \in Threads \ {t} : sys'[s] = sys[s]
  <2>1. User \in Calls /\ User.cmd = "user"
    BY DEF User, Calling, Calls, Ids
  <2> QED
    BY <1>8, <2>1 DEF Leave, TypeOK, Calls
<1>9. ASSUME NEW t \in Threads, mem' = [mem EXCEPT ![t] = Blank]
      PROVE  /\ mem' \in [Threads -> [id : Ids, body : Bodies \union {NONE}]]
             /\ \A s \in Threads \ {t} : mem'[s] = mem[s]
  BY <1>9 DEF TypeOK, Blank, Ids
<1>10. ASSUME NEW t \in Threads, ExitWithoutScratch(t) PROVE TypeInv'
  <2>1. unseen' \subseteq Ids
    BY <1>10 DEF ExitWithoutScratch, TypeOK
  <2>2. UploadsHaveBodies'
    BY <1>8, <1>9, <1>10 DEF ExitWithoutScratch, UploadsHaveBodies
  <2> QED
    BY <1>8, <1>9, <1>10, <2>1, <2>2 DEF ExitWithoutScratch, TypeOK, event_vars, Calls
<1>11. ASSUME NEW t \in Threads, ExitUpload(t) PROVE TypeInv'
  <2>1. mem[t].id \in Ids /\ ENTER_SCRATCH[t] \in Bodies
    BY <1>11 DEF ExitUpload, TypeOK
  <2>2. EVENTS' \in Seq(Events) /\ Len(EVENTS') <= RingSize /\ unseen' \subseteq Ids
    <3>1. (~sys[t].failed /\ t \notin leftover) \in BOOLEAN
      OBVIOUS
    <3> QED
      BY <1>11, <2>1, <3>1, PublishedType, EventsHaveIds DEF ExitUpload, Uploading
  <2>3. UploadsHaveBodies'
    BY <1>8, <1>9, <1>11 DEF ExitUpload, UploadsHaveBodies
  <2>4. ENTER_SCRATCH' \in [Threads -> Bodies \union {NONE}] /\ leftover' \subseteq Threads
    BY <1>11 DEF ExitUpload, TypeOK
  <2> QED
    BY <1>8, <1>9, <1>11, <2>2, <2>3, <2>4 DEF ExitUpload, TypeOK, event_vars, Calls
<1>12. ASSUME NEW t \in Threads, ExitReadFails(t) PROVE TypeInv'
  <2>1. unseen' \subseteq Ids /\ leftover' \subseteq Threads
    BY <1>12 DEF ExitReadFails, TypeOK
  <2>2. UploadsHaveBodies'
    BY <1>8, <1>12 DEF ExitReadFails, UploadsHaveBodies
  <2> QED
    BY <1>8, <1>12, <2>1, <2>2 DEF ExitReadFails, TypeOK, event_vars, Calls
<1>13. ASSUME Forward PROVE TypeInv'
  <2>1. /\ Head(EVENTS) \in Events /\ Tail(EVENTS) \in Seq(Events)
        /\ Len(Tail(EVENTS)) = Len(EVENTS) - 1 /\ Len(EVENTS) \in Nat
    BY <1>13, HeadTailProperties DEF Forward, TypeOK
  <2>2. EVENTS' \in Seq(Events) /\ Len(EVENTS') <= RingSize
    BY <1>13, <2>1, ProbeAssumption DEF Forward, TypeOK
  <2>3. effect_rx' \in Seq(Events) /\ Len(effect_rx') <= ChannelSize
    <3>1. /\ effect_rx \in Seq(Events) /\ Len(effect_rx) \in Nat
          /\ Len(effect_rx) <= ChannelSize /\ ChannelSize \in Nat
      BY ProbeAssumption DEF TypeOK
    <3>2. /\ Append(effect_rx, Head(EVENTS)) \in Seq(Events)
          /\ Len(Append(effect_rx, Head(EVENTS))) = Len(effect_rx) + 1
      BY <2>1, <3>1
    <3>3. \/ Len(effect_rx) < ChannelSize /\ effect_rx' = Append(effect_rx, Head(EVENTS))
          \/ effect_rx' = effect_rx
      BY <1>13 DEF Forward
    <3> QED
      BY <3>1, <3>2, <3>3
  <2>4. unseen' \subseteq Ids
    BY <1>13, <2>1, EventsHaveIds DEF Forward, TypeOK
  <2> QED
    BY <1>13, <2>2, <2>3, <2>4 DEF Forward, TypeOK, UploadsHaveBodies, kernel_vars
<1>14. ASSUME Receive PROVE TypeInv'
  <2>1. /\ Head(effect_rx) \in Events /\ Tail(effect_rx) \in Seq(Events)
        /\ Len(Tail(effect_rx)) = Len(effect_rx) - 1 /\ Len(effect_rx) \in Nat
    BY <1>14, HeadTailProperties DEF Receive, TypeOK
  <2>2. effect_rx' \in Seq(Events) /\ Len(effect_rx') <= ChannelSize
    BY <1>14, <2>1, ProbeAssumption DEF Receive, TypeOK
  <2>3. view' \in [Ids -> Bodies \union {NONE}]
    BY <1>14, <2>1, EventsHaveIds DEF Receive, TypeOK
  <2> QED
    BY <1>14, <2>2, <2>3 DEF Receive, TypeOK, UploadsHaveBodies, kernel_vars
<1>15. CASE UNCHANGED vars
  BY <1>15 DEF vars, TypeOK, UploadsHaveBodies
<1> QED
  BY <1>1, <1>2, <1>3, <1>5, <1>6, <1>7, <1>10, <1>11, <1>12, <1>13, <1>14, <1>15
  DEF ProbeNext, Enter, Kernel, Exit

(* The probe's state is well-typed: the ring and the channel never hold    *)
(* more than they have room for, whatever the games do.                    *)
THEOREM TypeCorrect == ProbeSpec => []TypeOK
<1>1. ProbeSpec => []TypeInv
  BY InitType, NextType, PTL DEF ProbeSpec
<1> QED
  BY <1>1, PTL DEF TypeInv

-----------------------------------------------------------------------------
(* What is captured and what is published. *)

(* A scratch entry that was not left over is of the upload being made. *)
ScratchIsOfCall ==
    \A t \in Threads : ENTER_SCRATCH[t] # NONE /\ t \notin leftover =>
        sys[t].cmd = "EVIOCSFF" /\ ENTER_SCRATCH[t] = mem[t].body

LEMMA ScratchNext == TypeInv /\ ScratchIsOfCall /\ [ProbeNext]_vars => ScratchIsOfCall'
<1> SUFFICES ASSUME TypeInv, ScratchIsOfCall, [ProbeNext]_vars PROVE ScratchIsOfCall'
  OBVIOUS
<1> USE DEF TypeInv, TypeOK, ScratchIsOfCall
<1>1. ASSUME NEW t \in Threads, NEW id \in Ids, NEW body \in Bodies, EnterUpload(t, id, body)
      PROVE  ScratchIsOfCall'
  <2>1. sys[t].cmd = "user" /\ sys'[t].cmd = "EVIOCSFF" /\ mem'[t].body = body
        /\ \A s \in Threads \ {t} : sys'[s] = sys[s] /\ mem'[s] = mem[s]
    BY <1>1 DEF EnterUpload, User, Calling
  <2>2. CASE ENTER_SCRATCH' = [ENTER_SCRATCH EXCEPT ![t] = body] /\ leftover' = leftover \ {t}
    BY <2>1, <2>2
  <2>3. CASE UNCHANGED <<ENTER_SCRATCH, leftover>>
    BY <2>1, <2>3
  <2> QED
    BY <1>1, <2>2, <2>3 DEF EnterUpload
<1>2. ASSUME NEW t \in Threads, NEW arg \in Arguments, EnterErase(t, arg) PROVE ScratchIsOfCall'
  <2>1. sys[t].cmd = "user" /\ \A s \in Threads \ {t} : sys'[s] = sys[s]
    BY <1>2 DEF EnterErase, User, Calling
  <2> QED
    BY <1>2, <2>1 DEF EnterErase
<1>3. ASSUME NEW t \in Threads, EnterOther(t) PROVE ScratchIsOfCall'
  <2>1. sys[t].cmd = "user" /\ \A s \in Threads \ {t} : sys'[s] = sys[s]
    BY <1>3 DEF EnterOther, User, Calling
  <2> QED
    BY <1>3, <2>1 DEF EnterOther
<1>4. ASSUME NEW t \in Threads, NEW failed \in BOOLEAN, Returning(t, failed)
      PROVE  \A s \in Threads : sys'[s].cmd = sys[s].cmd
  BY <1>4 DEF Returning
<1>5. ASSUME NEW t \in Threads, Kernel(t) PROVE ScratchIsOfCall'
  <2>1. \A s \in Threads : sys'[s].cmd = sys[s].cmd
    BY <1>4, <1>5 DEF Kernel, KernelUpload, KernelRefuses, KernelErase, KernelOther
  <2>2. \A s \in Threads : mem'[s].body = mem[s].body
    <3>1. mem' = mem \/ \E id \in EffectIds : mem' = [mem EXCEPT ![t].id = id]
      BY <1>5 DEF Kernel, KernelUpload, KernelRefuses, KernelErase, KernelOther
    <3>2. mem \in [Threads -> [id : Ids, body : Bodies \union {NONE}]]
      OBVIOUS
    <3> HIDE DEF TypeInv, TypeOK, ScratchIsOfCall
    <3> QED
      BY <3>1, <3>2
  <2>3. ENTER_SCRATCH' = ENTER_SCRATCH /\ leftover' = leftover
    BY <1>5 DEF Kernel, KernelUpload, KernelRefuses, KernelErase, KernelOther
  <2> QED
    BY <2>1, <2>2, <2>3
<1>6. ASSUME NEW t \in Threads, Exit(t) PROVE ScratchIsOfCall'
  <2>1. \A s \in Threads \ {t} : /\ sys'[s] = sys[s] /\ mem'[s] = mem[s]
                                 /\ ENTER_SCRATCH'[s] = ENTER_SCRATCH[s]
                                 /\ s \in leftover' <=> s \in leftover
    BY <1>6 DEF Exit, ExitWithoutScratch, ExitUpload, ExitReadFails, Leave
  <2>2. ENTER_SCRATCH'[t] = NONE \/ t \in leftover'
    BY <1>6 DEF Exit, ExitWithoutScratch, ExitUpload, ExitReadFails
  <2> QED
    BY <2>1, <2>2
<1>7. ASSUME NEW tgid \in Tgids, Close(tgid) PROVE ScratchIsOfCall'
  BY <1>7 DEF Close
<1>8. CASE Forward \/ Receive \/ UNCHANGED vars
  BY <1>8 DEF Forward, Receive, vars, kernel_vars
<1> QED
  BY <1>1, <1>2, <1>3, <1>5, <1>6, <1>7, <1>8 DEF ProbeNext, Enter

(* What is published and how. *)
LEMMA PublishesOne ==
    ASSUME NEW e, NEW happens \in BOOLEAN, TypeOK, publish(e, happens),
           NEW i \in 1 .. Len(EVENTS'), Len(EVENTS') > Len(EVENTS), i > Len(EVENTS)
    PROVE  EVENTS'[i] = e
<1>1. EVENTS \in Seq(Events) /\ Len(EVENTS) \in Nat
  BY DEF TypeOK
<1>2. EVENTS' = Append(EVENTS, e)
  BY <1>1 DEF publish
<1> QED
  BY <1>1, <1>2

(* The upload of a call is published by that call, once, and says what the *)
(* game passed: a scratch entry is written on the way in, taken on the way *)
(* out and of no other call, unless one was left over by an exit that      *)
(* could not read the id.                                                  *)
THEOREM ReportsTheirCall == ProbeSpec => UploadsReportTheirCall
<1> DEFINE Grows(i) == Len(EVENTS') > Len(EVENTS) /\ i > Len(EVENTS) /\ EVENTS'[i].kind = "uploaded"
           Told(i)  == \E t \in Threads :
                           /\ sys[t].ran /\ sys'[t] = User
                           /\ \/ /\ sys[t].cmd = "EVIOCSFF"
                                 /\ EVENTS'[i] = Uploaded(mem[t].id, mem[t].body)
                              \/ t \in leftover
<1>1. TypeInv /\ ScratchIsOfCall /\ [ProbeNext]_vars =>
          [\A i \in 1 .. Len(EVENTS') : Grows(i) => Told(i)]_vars
  <2> SUFFICES ASSUME TypeInv, ScratchIsOfCall, ProbeNext,
                      NEW i \in 1 .. Len(EVENTS'), Grows(i)
               PROVE  Told(i)
    OBVIOUS
  <2>1. ASSUME NEW t \in Threads, NEW arg \in Arguments, EnterErase(t, arg) PROVE Told(i)
    <3>1. EVENTS'[i] = Erased(as_i16(arg))
      <4>1. Owns(t, arg) \in BOOLEAN
        BY DEF Owns
      <4> QED
        BY <2>1, <4>1, PublishesOne DEF EnterErase, TypeInv
    <3> QED
      BY <3>1 DEF Erased
  <2>2. ASSUME NEW t \in Threads, ExitUpload(t) PROVE Told(i)
    <3>1. EVENTS'[i] = Uploaded(mem[t].id, ENTER_SCRATCH[t])
      <4>1. (~sys[t].failed /\ t \notin leftover) \in BOOLEAN
        OBVIOUS
      <4> QED
        BY <2>2, <4>1, PublishesOne DEF ExitUpload, Uploading, TypeInv
    <3>2. sys[t].ran /\ sys'[t] = User /\ ENTER_SCRATCH[t] # NONE
      BY <2>2 DEF ExitUpload, Leave, TypeInv, TypeOK
    <3> QED
      BY <3>1, <3>2 DEF ScratchIsOfCall
  <2>3. ASSUME Forward PROVE FALSE
    <3>1. Len(EVENTS') = Len(EVENTS) - 1 /\ Len(EVENTS) \in Nat
      BY <2>3, HeadTailProperties DEF Forward, TypeInv, TypeOK
    <3> QED
      BY <3>1
  <2>4. ASSUME EVENTS' = EVENTS PROVE FALSE
    <3>1. Len(EVENTS) \in Nat
      BY DEF TypeInv, TypeOK
    <3> QED
      BY <2>4, <3>1
  <2> QED
    BY <2>1, <2>2, <2>3, <2>4
    DEF ProbeNext, Enter, EnterUpload, EnterOther, Kernel, KernelUpload, KernelRefuses, KernelErase,
        KernelOther, Exit, ExitWithoutScratch, ExitReadFails, Close, Receive
<1>2. ProbeInit => ScratchIsOfCall
  BY DEF ProbeInit, ScratchIsOfCall
<1> QED
  BY <1>1, <1>2, InitType, NextType, ScratchNext, PTL DEF ProbeSpec, UploadsReportTheirCall

-----------------------------------------------------------------------------
(* Convergence.  Games that do not race one thread's erase with another's  *)
(* upload: here, games of one thread.                                      *)
OneThreadEach == \A s, t \in Threads : TgidOf[s] = TgidOf[t] => s = t

(* A thread whose upload the kernel accepted, and has yet to be reported.  *)
Reporting(t, id) ==
    sys[t].cmd = "EVIOCSFF" /\ sys[t].ran /\ ~sys[t].failed /\ mem[t].id = id

(* A thread whose erase is reported, and has yet to be made. *)
Erasing(t, id) ==
    sys[t].cmd = "EVIOCRMFF" /\ ~sys[t].ran /\ sys[t].id = id /\ Owns(t, id)

(* Until it is reported an upload stands: only its thread could undo it. *)
ReportsAreTrue ==
    \A t \in Threads, id \in EffectIds :
        Reporting(t, id) => Owns(t, id) /\ effects[id].body = mem[t].body

(* The receiver will believe what the kernel has, or one thread is about   *)
(* to make it so.                                                          *)
Converging(id) ==
    /\ \A t \in Threads : Erasing(t, id) => id \in unseen \/ Believed(id) = NONE
    /\ \/ id \in unseen
       \/ Believed(id) = InKernel(id)
       \/ \E t \in Threads : Reporting(t, id) \/ Erasing(t, id)

Inv ==
    /\ TypeInv
    /\ ScratchIsOfCall
    /\ ReportsAreTrue
    /\ \A id \in EffectIds : Converging(id)

LEMMA InitInv == ProbeInit => Inv
<1> SUFFICES ASSUME ProbeInit PROVE Inv
  OBVIOUS
<1>1. TypeInv
  BY InitType
<1>2. ScratchIsOfCall /\ ReportsAreTrue
  BY DEF ProbeInit, ScratchIsOfCall, ReportsAreTrue, Reporting, User, Calling
<1>3. ASSUME NEW id \in EffectIds PROVE Believed(id) = NONE
  <2>1. effect_rx \o EVENTS = <<>> /\ view[id] = NONE
    BY <1>3 DEF ProbeInit, Ids
  <2> QED
    BY <2>1 DEF Believed
<1>4. \A id \in EffectIds : Converging(id)
  BY <1>3 DEF ProbeInit, Converging, InKernel, Erasing, User, Calling
<1> QED
  BY <1>1, <1>2, <1>4 DEF Inv

LEMMA ReportsNext == OneThreadEach /\ Inv /\ [ProbeNext]_vars => ReportsAreTrue'
<1> SUFFICES ASSUME OneThreadEach, Inv, [ProbeNext]_vars,
                    NEW r \in Threads, NEW o \in EffectIds, Reporting(r, o)'
             PROVE  (Owns(r, o) /\ effects[o].body = mem[r].body)'
  BY DEF ReportsAreTrue
<1> USE DEF Inv, TypeInv, TypeOK
(* Steps that leave r's report and the effect alone. *)
<1>1. ASSUME Reporting(r, o), effects'[o] = effects[o], mem'[r].body = mem[r].body
      PROVE  (Owns(r, o) /\ effects[o].body = mem[r].body)'
  BY <1>1 DEF ReportsAreTrue, Owns
<1>2. ASSUME NEW t \in Threads, Enter(t) PROVE (Owns(r, o) /\ effects[o].body = mem[r].body)'
  <2>1. ~sys'[t].ran /\ \A s \in Threads \ {t} : sys'[s] = sys[s] /\ mem'[s] = mem[s]
    BY <1>2 DEF Enter, EnterUpload, EnterErase, EnterOther, Calling
  <2>2. Reporting(r, o) /\ mem'[r] = mem[r] /\ effects' = effects
    BY <1>2, <2>1 DEF Reporting, Enter, EnterUpload, EnterErase, EnterOther
  <2> QED
    BY <1>1, <2>2
<1>3. ASSUME NEW t \in Threads, NEW id \in EffectIds, KernelUpload(t, id)
      PROVE  (Owns(r, o) /\ effects[o].body = mem[r].body)'
  <2>1. /\ effects' = [effects EXCEPT ![id] = [owner |-> TgidOf[t], body |-> mem[t].body]]
        /\ mem' = [mem EXCEPT ![t].id = id]
        /\ id \in Free \/ Owns(t, id)
        /\ \A s \in Threads \ {t} : sys'[s] = sys[s] /\ mem'[s] = mem[s]
    BY <1>3 DEF KernelUpload, Returning
  <2>2. CASE r = t
    <3>1. o = id
      BY <2>1, <2>2 DEF Reporting
    <3>2. effects'[id] = [owner |-> TgidOf[t], body |-> mem[t].body] /\ mem'[t].body = mem[t].body
      BY <2>1
    <3>3. [owner |-> TgidOf[t], body |-> mem[t].body] # NONE
      <4>1. [owner |-> TgidOf[t], body |-> mem[t].body] \in [owner : Tgids, body : Bodies]
        BY <1>3, ProbeAssumption DEF UploadsHaveBodies, KernelUpload, Running
      <4> QED
        BY <4>1, ProbeAssumption
    <3> QED
      BY <2>2, <3>1, <3>2, <3>3 DEF Owns
  <2>3. CASE r # t
    <3>1. Reporting(r, o) /\ mem'[r] = mem[r]
      BY <2>1, <2>3 DEF Reporting
    <3>2. Owns(r, o)
      BY <3>1 DEF ReportsAreTrue
    <3>3. o # id
      BY <2>1, <2>3, <3>2 DEF Owns, Free, OneThreadEach
    <3> QED
      BY <1>1, <2>1, <3>1, <3>3
  <2> QED
    BY <2>2, <2>3
<1>4. ASSUME NEW t \in Threads, KernelErase(t)
      PROVE  (Owns(r, o) /\ effects[o].body = mem[r].body)'
  <2>1. sys'[t].cmd = "EVIOCRMFF" /\ mem' = mem /\ \A s \in Threads \ {t} : sys'[s] = sys[s]
    BY <1>4 DEF KernelErase, Running, Returning
  <2>2. r # t /\ Reporting(r, o)
    BY <2>1 DEF Reporting
  <2>3. Owns(r, o)
    BY <2>2 DEF ReportsAreTrue
  <2>4. effects'[o] = effects[o]
    BY <1>4, <2>2, <2>3 DEF KernelErase, Owns, OneThreadEach
  <2> QED
    BY <1>1, <2>1, <2>2, <2>4
<1>5. ASSUME NEW t \in Threads, KernelRefuses(t) \/ KernelOther(t)
      PROVE  (Owns(r, o) /\ effects[o].body = mem[r].body)'
  <2>1. /\ sys'[t].failed \/ sys'[t].cmd # "EVIOCSFF"
        /\ mem' = mem /\ effects' = effects
        /\ \A s \in Threads \ {t} : sys'[s] = sys[s]
    BY <1>5 DEF KernelRefuses, KernelOther, Running, Returning
  <2>2. Reporting(r, o)
    BY <2>1 DEF Reporting
  <2> QED
    BY <1>1, <2>1, <2>2
<1>6. ASSUME NEW t \in Threads, Exit(t) PROVE (Owns(r, o) /\ effects[o].body = mem[r].body)'
  <2>1. sys'[t] = User /\ effects' = effects
        /\ \A s \in Threads \ {t} : sys'[s] = sys[s] /\ mem'[s] = mem[s]
    BY <1>6 DEF Exit, ExitWithoutScratch, ExitUpload, ExitReadFails, Leave
  <2>2. Reporting(r, o) /\ mem'[r] = mem[r]
    BY <2>1 DEF Reporting, User, Calling
  <2> QED
    BY <1>1, <2>1, <2>2
<1>7. ASSUME NEW tgid \in Tgids, Close(tgid)
      PROVE  (Owns(r, o) /\ effects[o].body = mem[r].body)'
  <2>1. Reporting(r, o) /\ mem' = mem
    BY <1>7 DEF Close, Reporting
  <2>2. effects[o].owner = TgidOf[r] /\ sys[r] # User
    <3>1. Owns(r, o)
      BY <2>1 DEF ReportsAreTrue
    <3>2. sys[r].cmd = "EVIOCSFF" /\ User.cmd = "user"
      BY <2>1 DEF Reporting, User, Calling
    <3> QED
      BY <3>1, <3>2 DEF Owns
  <2>3. effects'[o] = effects[o]
    BY <1>7, <2>2 DEF Close
  <2> QED
    BY <1>1, <2>1, <2>3
<1>8. CASE Forward \/ Receive \/ UNCHANGED vars
  BY <1>1, <1>8 DEF Forward, Receive, vars, kernel_vars, Reporting
<1> QED
  BY <1>2, <1>3, <1>4, <1>5, <1>6, <1>7, <1>8 DEF ProbeNext, Kernel

(* A step that changes neither the effect nor what will be believed of it, *)
(* and leaves the erases and the reports of it as they are.                *)
Quiet(id) ==
    /\ effects'[id] = effects[id]
    /\ Believed(id)' = Believed(id)
    /\ id \in unseen => id \in unseen'

Undisturbed(t, id) ==
    /\ Erasing(t, id)' <=> Erasing(t, id)
    /\ Reporting(t, id) => Reporting(t, id)'

LEMMA QuietConverges ==
    ASSUME NEW id \in EffectIds, Converging(id), Quiet(id),
           \A t \in Threads : Undisturbed(t, id)
    PROVE  Converging(id)'
BY DEF Converging, Quiet, Undisturbed, InKernel

LEMMA UnseenConverges ==
    ASSUME NEW id \in EffectIds, id \in unseen'
    PROVE  Converging(id)'
BY DEF Converging

LEMMA ConvergesNext ==
    OneThreadEach /\ Inv /\ [ProbeNext]_vars => \A id \in EffectIds : Converging(id)'
<1> SUFFICES ASSUME OneThreadEach, Inv, [ProbeNext]_vars, NEW o \in EffectIds
             PROVE  Converging(o)'
  OBVIOUS
<1> USE DEF Inv, TypeInv
<1> o \in Ids /\ Converging(o)
  BY DEF Ids
(* The other threads of a step of t. *)
<1>1. ASSUME NEW t \in Threads, NEW s \in Threads \ {t}, sys'[s] = sys[s], mem'[s] = mem[s],
             effects'[o] = effects[o]
      PROVE  Undisturbed(s, o)
  BY <1>1 DEF Undisturbed, Erasing, Reporting, Owns
<1>2. ASSUME UNCHANGED <<EVENTS, event_vars>> PROVE Believed(o)' = Believed(o)
  BY <1>2 DEF event_vars, Believed
<1>3. ASSUME NEW t \in Threads, NEW id \in Ids, NEW body \in Bodies, EnterUpload(t, id, body)
      PROVE  Converging(o)'
  <2>1. sys[t].cmd = "user" /\ sys'[t].cmd = "EVIOCSFF"
        /\ \A s \in Threads \ {t} : sys'[s] = sys[s] /\ mem'[s] = mem[s]
    BY <1>3 DEF EnterUpload, User, Calling, TypeOK
  <2>2. Quiet(o)
    BY <1>2, <1>3 DEF Quiet, EnterUpload
  <2>3. Undisturbed(t, o)
    BY <2>1 DEF Undisturbed, Erasing, Reporting
  <2> QED
    BY <1>1, <2>1, <2>2, <2>3, QuietConverges DEF Quiet
<1>4. ASSUME NEW t \in Threads, EnterOther(t) PROVE Converging(o)'
  <2>1. sys[t].cmd = "user" /\ sys'[t].cmd = "other"
        /\ \A s \in Threads \ {t} : sys'[s] = sys[s] /\ mem'[s] = mem[s]
    BY <1>4 DEF EnterOther, User, Calling, TypeOK
  <2>2. Quiet(o)
    BY <1>2, <1>4 DEF Quiet, EnterOther
  <2>3. Undisturbed(t, o)
    BY <2>1 DEF Undisturbed, Erasing, Reporting
  <2> QED
    BY <1>1, <2>1, <2>2, <2>3, QuietConverges DEF Quiet
<1>5. ASSUME NEW t \in Threads, NEW arg \in Arguments, EnterErase(t, arg) PROVE Converging(o)'
  <2>0. PICK id \in EffectIds : id = as_i16(arg) /\ (arg \in EffectIds => id = arg)
    BY Truncated
  <2>1. /\ sys[t].cmd = "user" /\ sys'[t].cmd = "EVIOCRMFF" /\ sys'[t].id = arg
        /\ \A s \in Threads \ {t} : sys'[s] = sys[s] /\ mem'[s] = mem[s]
        /\ effects' = effects
    BY <1>5 DEF EnterErase, User, Calling, TypeOK
  <2>2. /\ \A i : i # id => Believed(i)' = Believed(i) /\ (i \in unseen' <=> i \in unseen)
        /\ id \in unseen' \/ (Owns(t, arg) /\ Believed(id)' = NONE)
    <3>1. Owns(t, arg) \in BOOLEAN
      BY DEF Owns
    <3>2. Erased(id) \in Events /\ Erased(id).id = id /\ Erased(id).body = NONE
      BY DEF Erased, Events, Ids
    <3>3. publish(Erased(id), Owns(t, arg)) /\ UNCHANGED event_vars
      BY <1>5, <2>0 DEF EnterErase
    <3> QED
      BY <3>1, <3>2, <3>3, Published
  <2>3. CASE o # id
    <3>1. Quiet(o)
      BY <2>1, <2>2, <2>3 DEF Quiet
    <3>2. Undisturbed(t, o)
      BY <2>0, <2>1, <2>3 DEF Undisturbed, Erasing, Reporting
    <3> QED
      BY <1>1, <2>1, <3>1, <3>2, QuietConverges
  <2>4. CASE o = id /\ id \notin unseen'
    <3>1. Owns(t, arg) /\ arg = o /\ Believed(o)' = NONE
      BY <2>0, <2>2, <2>4 DEF Owns
    <3>2. sys'[t].ran = FALSE
      BY <1>5 DEF EnterErase, Calling, TypeOK
    <3>3. Erasing(t, o)'
      BY <2>1, <2>4, <3>1, <3>2 DEF Erasing, Owns
    <3> QED
      BY <3>1, <3>3 DEF Converging
  <2> QED
    BY <2>3, <2>4, UnseenConverges
(* The thread of a step in the kernel: the call is that before, but ran. *)
<1>6. ASSUME NEW t \in Threads, NEW failed \in BOOLEAN, Returning(t, failed)
      PROVE  /\ sys'[t].cmd = sys[t].cmd /\ sys'[t].ran /\ sys'[t].failed = failed
             /\ \A s \in Threads \ {t} : sys'[s] = sys[s]
  BY <1>6 DEF Returning, TypeOK
<1>7. ASSUME NEW t \in Threads, NEW id \in EffectIds, KernelUpload(t, id) PROVE Converging(o)'
  <2>1. /\ effects' = [effects EXCEPT ![id] = [owner |-> TgidOf[t], body |-> mem[t].body]]
        /\ sys[t].cmd = "EVIOCSFF" /\ ~sys[t].ran /\ mem'[t].id = id
        /\ \A s \in Threads \ {t} : mem'[s] = mem[s]
    BY <1>7 DEF KernelUpload, Running, TypeOK
  <2>2. /\ sys'[t].cmd = "EVIOCSFF" /\ sys'[t].ran /\ sys'[t].failed = FALSE
        /\ \A s \in Threads \ {t} : sys'[s] = sys[s]
    BY <1>6, <1>7, <2>1 DEF KernelUpload
  <2>3. CASE o # id
    <3>1. effects'[o] = effects[o]
      BY <2>1, <2>3 DEF TypeOK
    <3>2. Quiet(o)
      BY <1>2, <1>7, <3>1 DEF Quiet, KernelUpload
    <3>3. Undisturbed(t, o)
      BY <2>1, <2>2 DEF Undisturbed, Erasing, Reporting
    <3> QED
      BY <1>1, <2>1, <2>2, <3>1, <3>2, <3>3, QuietConverges
  <2>4. CASE o = id
    <3>1. Reporting(t, o)'
      BY <2>1, <2>2, <2>4 DEF Reporting
    <3>2. effects'[o].owner = TgidOf[t]
      BY <2>1, <2>4 DEF TypeOK
    <3>3. \A s \in Threads : ~Erasing(s, o)'
      BY <2>2, <3>2 DEF Erasing, Owns, OneThreadEach
    <3> QED
      BY <3>1, <3>3 DEF Converging
  <2> QED
    BY <2>3, <2>4
<1>8. ASSUME NEW t \in Threads, KernelRefuses(t) \/ KernelOther(t) PROVE Converging(o)'
  <2>1. /\ sys[t].cmd \in {"EVIOCSFF", "other"} /\ ~sys[t].ran /\ mem' = mem /\ effects' = effects
        /\ UNCHANGED <<EVENTS, event_vars>> /\ unseen' = unseen
    BY <1>8 DEF KernelRefuses, KernelOther, Running
  <2>2. sys'[t].cmd = sys[t].cmd /\ \A s \in Threads \ {t} : sys'[s] = sys[s]
    BY <1>6, <1>8 DEF KernelRefuses, KernelOther
  <2>3. Quiet(o)
    BY <1>2, <2>1 DEF Quiet
  <2>4. Undisturbed(t, o)
    BY <2>1, <2>2 DEF Undisturbed, Erasing, Reporting
  <2> QED
    BY <1>1, <2>1, <2>2, <2>3, <2>4, QuietConverges
<1>9. ASSUME NEW t \in Threads, KernelErase(t) PROVE Converging(o)'
  <2>1. /\ sys[t].cmd = "EVIOCRMFF" /\ ~sys[t].ran /\ mem' = mem
        /\ effects' = IF Owns(t, sys[t].id) THEN [effects EXCEPT ![sys[t].id] = NONE] ELSE effects
        /\ UNCHANGED <<EVENTS, event_vars>> /\ unseen' = unseen
    BY <1>9 DEF KernelErase, Running
  <2>2. /\ sys'[t].cmd = sys[t].cmd /\ sys'[t].ran
        /\ \A s \in Threads \ {t} : sys'[s] = sys[s]
    BY <1>6, <1>9 DEF KernelErase
  <2>3. Believed(o)' = Believed(o)
    BY <1>2, <2>1
  <2>4. CASE Erasing(t, o)
    <3>1. effects'[o] = NONE
      BY <2>1, <2>4 DEF Erasing, TypeOK
    <3>2. o \in unseen' \/ Believed(o)' = NONE
      BY <2>1, <2>3, <2>4 DEF Converging
    <3>3. \A s \in Threads : ~Erasing(s, o)'
      BY <3>1 DEF Erasing, Owns
    <3> QED
      BY <3>1, <3>2, <3>3 DEF Converging, InKernel
  <2>5. CASE ~Erasing(t, o)
    <3>1. effects'[o] = effects[o]
      BY <2>1, <2>5 DEF Erasing, TypeOK
    <3>2. Quiet(o)
      BY <2>1, <2>3, <3>1 DEF Quiet
    <3>3. Undisturbed(t, o)
      BY <2>1, <2>2, <2>5 DEF Undisturbed, Erasing, Reporting
    <3> QED
      BY <1>1, <2>1, <2>2, <3>1, <3>2, <3>3, QuietConverges
  <2> QED
    BY <2>4, <2>5
(* The thread of a step out of an ioctl. *)
<1>10. ASSUME NEW t \in Threads, Leave(t)
       PROVE  /\ sys[t].ran /\ sys'[t] = User /\ User.cmd = "user"
              /\ \A s \in Threads \ {t} : sys'[s] = sys[s]
              /\ ~Erasing(t, o) /\ ~Erasing(t, o)' /\ ~Reporting(t, o)'
  BY <1>10 DEF Leave, User, Calling, Erasing, Reporting, TypeOK
<1>11. ASSUME NEW t \in Threads, ExitWithoutScratch(t) PROVE Converging(o)'
  <2>1. /\ effects' = effects /\ UNCHANGED <<EVENTS, event_vars>>
        /\ \A s \in Threads \ {t} : mem'[s] = mem[s]
        /\ unseen' = IF sys[t].cmd = "EVIOCSFF" THEN unseen \union {mem[t].id} ELSE unseen
    BY <1>11 DEF ExitWithoutScratch, TypeOK
  <2>2. CASE Reporting(t, o)
    BY <2>1, <2>2, UnseenConverges DEF Reporting
  <2>3. CASE ~Reporting(t, o)
    <3>1. Quiet(o)
      BY <1>2, <2>1 DEF Quiet
    <3>2. Undisturbed(t, o)
      BY <1>10, <1>11, <2>3 DEF Undisturbed, ExitWithoutScratch
    <3> QED
      BY <1>1, <1>10, <1>11, <2>1, <3>1, <3>2, QuietConverges DEF ExitWithoutScratch
  <2> QED
    BY <2>2, <2>3
<1>12. ASSUME NEW t \in Threads, ExitUpload(t) PROVE Converging(o)'
  <2> DEFINE happens == ~sys[t].failed /\ t \notin leftover
  <2>0. PICK id : id = mem[t].id
    OBVIOUS
  <2>1. /\ effects' = effects /\ UNCHANGED event_vars
        /\ \A s \in Threads \ {t} : mem'[s] = mem[s]
    BY <1>12 DEF ExitUpload, TypeOK
  <2>2. /\ \A i : i # id => Believed(i)' = Believed(i) /\ (i \in unseen' <=> i \in unseen)
        /\ id \in unseen' \/ (happens /\ Believed(id)' = ENTER_SCRATCH[t])
    <3>1. id \in Ids /\ ENTER_SCRATCH[t] \in Bodies
      BY <1>12, <2>0 DEF ExitUpload, TypeOK
    <3>2. /\ Uploaded(id, ENTER_SCRATCH[t]) \in Events
          /\ Uploaded(id, ENTER_SCRATCH[t]).id = id
          /\ Uploaded(id, ENTER_SCRATCH[t]).body = ENTER_SCRATCH[t]
      BY <3>1 DEF Uploaded, Events
    <3>3. publish(Uploaded(id, ENTER_SCRATCH[t]), happens)
      BY <1>12, <2>0 DEF ExitUpload, Uploading
    <3>4. happens \in BOOLEAN
      OBVIOUS
    <3> QED
      BY <2>1, <3>2, <3>3, <3>4, Published
  <2>3. CASE o # id
    <3>1. Quiet(o)
      BY <2>1, <2>2, <2>3 DEF Quiet
    <3>2. Undisturbed(t, o)
      BY <1>10, <1>12, <2>0, <2>3 DEF Undisturbed, ExitUpload, Reporting
    <3> QED
      BY <1>1, <1>10, <1>12, <2>1, <3>1, <3>2, QuietConverges DEF ExitUpload
  <2>4. CASE o = id /\ o \notin unseen'
    <3>1. happens /\ Believed(o)' = ENTER_SCRATCH[t]
      BY <2>2, <2>4
    <3>2. Reporting(t, o) /\ ENTER_SCRATCH[t] = mem[t].body
      BY <1>12, <2>0, <2>4, <3>1 DEF ScratchIsOfCall, Reporting, ExitUpload, Leave
    <3>3. Owns(t, o) /\ effects[o].body = mem[t].body
      BY <3>2 DEF ReportsAreTrue
    <3>4. Believed(o)' = InKernel(o)'
      BY <2>1, <3>1, <3>2, <3>3 DEF Owns, InKernel
    <3>5. \A s \in Threads : ~Erasing(s, o)'
      <4> SUFFICES ASSUME NEW s \in Threads, Erasing(s, o)' PROVE FALSE
        OBVIOUS
      <4>1. s = t
        BY <2>1, <3>3 DEF Erasing, Owns, OneThreadEach
      <4> QED
        BY <1>10, <1>12, <4>1 DEF ExitUpload
    <3> QED
      BY <3>4, <3>5 DEF Converging
  <2> QED
    BY <2>3, <2>4, UnseenConverges
<1>13. ASSUME NEW t \in Threads, ExitReadFails(t) PROVE Converging(o)'
  <2>1. /\ effects' = effects /\ mem' = mem /\ UNCHANGED <<EVENTS, event_vars>>
        /\ unseen' = unseen \union {mem[t].id}
    BY <1>13 DEF ExitReadFails
  <2>2. CASE Reporting(t, o)
    BY <2>1, <2>2, UnseenConverges DEF Reporting
  <2>3. CASE ~Reporting(t, o)
    <3>1. Quiet(o)
      BY <1>2, <2>1 DEF Quiet
    <3>2. Undisturbed(t, o)
      BY <1>10, <1>13, <2>3 DEF Undisturbed, ExitReadFails
    <3> QED
      BY <1>1, <1>10, <1>13, <2>1, <3>1, <3>2, QuietConverges DEF ExitReadFails
  <2> QED
    BY <2>2, <2>3
<1>14. ASSUME sys' = sys, mem' = mem, effects'[o] = effects[o]
       PROVE  \A t \in Threads : Undisturbed(t, o)
  BY <1>14 DEF Undisturbed, Erasing, Reporting, Owns
<1>15. ASSUME NEW tgid \in Tgids, Close(tgid) PROVE Converging(o)'
  <2>1. o \in unseen' \/ effects'[o] = effects[o]
    BY <1>15 DEF Close, TypeOK
  <2>2. ASSUME effects'[o] = effects[o] PROVE Quiet(o)
    BY <1>2, <1>15, <2>2 DEF Quiet, Close
  <2> QED
    BY <1>14, <1>15, <2>1, <2>2, QuietConverges, UnseenConverges DEF Close
<1>16. CASE Forward
  <2>1. o \in unseen' \/ Quiet(o)
    BY <1>16, Forwarded DEF Quiet, Forward, kernel_vars
  <2> QED
    BY <1>14, <1>16, <2>1, QuietConverges, UnseenConverges DEF Forward, kernel_vars
<1>17. CASE Receive
  <2>1. Quiet(o)
    BY <1>17, Received DEF Quiet, Receive, kernel_vars
  <2> QED
    BY <1>14, <1>17, <2>1, QuietConverges DEF Receive, kernel_vars
<1>18. CASE UNCHANGED vars
  <2>1. Quiet(o)
    BY <1>2, <1>18 DEF Quiet, vars, event_vars
  <2> QED
    BY <1>14, <1>18, <2>1, QuietConverges DEF vars
<1> QED
  BY <1>3, <1>4, <1>5, <1>7, <1>8, <1>9, <1>11, <1>12, <1>13, <1>15, <1>16, <1>17, <1>18
  DEF ProbeNext, Enter, Kernel, Exit

(* With games of one thread the receiver's table converges to the kernel's *)
(* whatever room the ring and the channel have and whatever goes wrong:    *)
(* uploads are reported after the kernel acts, erases before, and only a   *)
(* report that was dropped, never made or false leaves a difference.       *)
THEOREM Mirrors ==
    ASSUME OneThreadEach
    PROVE  ProbeSpec => []MirrorsKernel
<1>1. Inv /\ [ProbeNext]_vars => Inv'
  <2> SUFFICES ASSUME Inv, [ProbeNext]_vars PROVE Inv'
    OBVIOUS
  <2>1. TypeInv' /\ ScratchIsOfCall'
    BY NextType, ScratchNext DEF Inv
  <2>2. ReportsAreTrue'
    BY ReportsNext
  <2>3. \A id \in EffectIds : Converging(id)'
    BY ConvergesNext
  <2> QED
    BY <2>1, <2>2, <2>3 DEF Inv
<1>2. Inv => MirrorsKernel
  BY DEF Inv, Converging, MirrorsKernel, Changing, Reporting, Erasing
<1> QED
  BY <1>1, <1>2, InitInv, PTL DEF ProbeSpec
=============================================================================
