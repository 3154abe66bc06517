--------------------------- MODULE ReadersProofs ---------------------------
(***************************************************************************)
(* Proofs about Readers, for any devices, paths, blocks, channel and       *)
(* number of visits: its state stays well-typed, a rescan finds every      *)
(* device, and one reader at a time keeps its device's events in order.    *)
(***************************************************************************)
EXTENDS Readers, SequenceTheorems, TLAPS

(* A reader is spawned in a visit there has been. *)
ReadersAreVisits == \A r \in Visits : Spawned(r) => r <= plugs

(* No two nodes are of one device. *)
NodesAreDistinct ==
    \A u, v \in Visits : Present(u) /\ Present(v) /\ device[u] = device[v] => u = v

(* A remembered path has a reader. *)
KnownHaveReaders ==
    \A d \in DeviceIds : known_devices[d] # NONE =>
        \E r \in Visits : Spawned(r) /\ device[r] = d /\ path[r] = known_devices[d]

(* After a rescan of everything each device is remembered where it is. *)
FreshAreKnown ==
    fresh => \A v \in Visits : Present(v) => known_devices[device[v]] = path[v]

Found == ReadersAreVisits /\ NodesAreDistinct /\ KnownHaveReaders /\ FreshAreKnown

Inv == TypeOK /\ Found

(* What is remembered of a plugged device that has its reader is where it  *)
(* is: a rescan leaves that reader alone.                                  *)
ReadersStay == \A v \in Visits : Present(v) /\ Spawned(v) => known_devices[device[v]] = path[v]

(* A reader without an open file has nothing to read. *)
ClosedAreEmpty == \A r \in Visits : ~HasOpen(r) => fd[r] = 0 /\ unread[r] = <<>>

(* Whatever is on its way was written before. *)
WrittenBefore ==
    /\ \A d \in DeviceIds : newest[d].n <= written
    /\ \A i \in 1 .. Len(ff_rx) : ff_rx[i].event.n <= written
    /\ \A r \in Visits : held[r].n <= written
    /\ \A r \in Visits : \A i \in 1 .. Len(unread[r]) : \A a \in 1 .. Len(unread[r][i]) :
           unread[r][i][a].n <= written

(* A device not doubled has one reader at most that may still tell main    *)
(* something.                                                              *)
OneActive ==
    \A r, s \in Visits :
        device[r] = device[s] /\ device[r] \notin doubled /\ Active(r) /\ Active(s) => r = s

Ordered == ReadersStay /\ ClosedAreEmpty /\ WrittenBefore /\ OneActive /\ OneReaderKeepsOrder

OrderInv == Inv /\ Ordered

-----------------------------------------------------------------------------
(* Types. *)

LEMMA NoEventType == NoEvent \in Events
<1>1. (CHOOSE d \in DeviceIds : TRUE) \in DeviceIds
  BY ReadersAssumption
<1> QED
  BY <1>1, ReadersAssumption DEF NoEvent, Events, PlayOps

LEMMA InitType == ReadersInit => TypeOK
<1> SUFFICES ASSUME ReadersInit PROVE TypeOK
  OBVIOUS
<1>1. (CHOOSE d \in DeviceIds : TRUE) \in DeviceIds /\ (CHOOSE p \in Paths : TRUE) \in Paths
  BY ReadersAssumption
<1>2. /\ held \in [Visits -> Events]
      /\ newest \in [DeviceIds -> Events]
  BY NoEventType DEF ReadersInit
<1>3. /\ unread \in [Visits -> Seq(Seq(Events) \ {<<>>})]
      /\ ff_rx \in Seq([device : DeviceIds, event : Events])
      /\ Len(ff_rx) <= ChannelSize
  BY ReadersAssumption DEF ReadersInit
<1>4. /\ plugs \in 0 .. MaxPlugs
      /\ node \in [Paths -> 0 .. plugs]
      /\ fd \in [Visits -> 0 .. plugs]
      /\ written \in 0 .. MaxWrites
  BY ReadersAssumption DEF ReadersInit
<1>5. /\ device \in [Visits -> DeviceIds]
      /\ path \in [Visits -> Paths]
      /\ known_devices \in [DeviceIds -> Paths \union {NONE}]
      /\ phase \in [Visits -> {"unborn", "closed", "reading", "sending"}]
      /\ fresh \in BOOLEAN
      /\ doubled \subseteq DeviceIds
  BY <1>1 DEF ReadersInit
<1> QED
  BY <1>2, <1>3, <1>4, <1>5 DEF TypeOK

(* What a game writes is a block of numbered events. *)
LEMMA WrittenBlock ==
    ASSUME TypeOK, NEW v \in Visits, NEW block \in Blocks, written + Len(block) <= MaxWrites
    PROVE  [i \in 1 .. Len(block) |-> [n |-> written + i, op |-> block[i], on |-> device[v]]]
               \in Seq(Events) \ {<<>>}
<1> DEFINE events == [i \in 1 .. Len(block) |->
                        [n |-> written + i, op |-> block[i], on |-> device[v]]]
<1>1. block \in Seq(PlayOps) /\ block # <<>> /\ Len(block) \in Nat \ {0}
  BY ReadersAssumption, EmptySeq
<1>2. \A i \in 1 .. Len(block) : events[i] \in Events
  <2> TAKE i \in 1 .. Len(block)
  <2>1. written + i \in 0 .. MaxWrites
    BY <1>1, ReadersAssumption DEF TypeOK
  <2>2. block[i] \in PlayOps /\ device[v] \in DeviceIds
    BY <1>1 DEF TypeOK
  <2> QED
    BY <2>1, <2>2 DEF Events
<1>3. events \in Seq(Events) /\ Len(events) = Len(block)
  BY <1>1, <1>2
<1> QED
  BY <1>1, <1>3

LEMMA NextType == TypeOK /\ [ReadersNext]_vars => TypeOK'
<1> SUFFICES ASSUME TypeOK, [ReadersNext]_vars PROVE TypeOK'
  OBVIOUS
<1> USE DEF TypeOK
<1>1. ASSUME NEW d \in DeviceIds, NEW p \in Paths, Plug(d, p) PROVE TypeOK'
  <2>1. plugs' \in 1 .. MaxPlugs /\ plugs' = plugs + 1
    BY <1>1, ReadersAssumption DEF Plug
  <2>2. /\ device' \in [Visits -> DeviceIds]
        /\ path' \in [Visits -> Paths]
    BY <1>1 DEF Plug
  <2>3. node' \in [Paths -> 0 .. plugs'] /\ fd' \in [Visits -> 0 .. plugs']
    <3>1. \A i \in 0 .. plugs : i \in 0 .. plugs'
      BY <2>1
    <3>2. plugs' \in 0 .. plugs'
      BY <2>1
    <3> QED
      BY <1>1, <3>1, <3>2 DEF Plug, reader_vars
  <2>4. plugs' \in 0 .. MaxPlugs
    BY <2>1, ReadersAssumption
  <2>5. fresh' \in BOOLEAN
    BY <1>1 DEF Plug
  <2> QED
    BY <1>1, <2>2, <2>3, <2>4, <2>5 DEF Plug, reader_vars, history
<1>2. ASSUME NEW p \in Paths, Unplug(p) PROVE TypeOK'
  <2>1. plugs' = plugs /\ 0 \in 0 .. plugs
    BY <1>2, ReadersAssumption DEF Unplug
  <2>2. node' \in [Paths -> 0 .. plugs'] /\ fd' \in [Visits -> 0 .. plugs']
    BY <1>2, <2>1 DEF Unplug, reader_vars
  <2>3. fresh' \in BOOLEAN
    BY <1>2 DEF Unplug
  <2> QED
    BY <1>2, <2>1, <2>2, <2>3 DEF Unplug, reader_vars, history
<1>3. ASSUME NEW v \in Visits, NEW block \in Blocks, Write(v, block) PROVE TypeOK'
  <2>1. written' \in 0 .. MaxWrites
    <3>1. Len(block) \in Nat
      BY ReadersAssumption
    <3> QED
      BY <1>3, <3>1, ReadersAssumption DEF Write
  <2>2. unread' \in [Visits -> Seq(Seq(Events) \ {<<>>})]
    <3> DEFINE events == [i \in 1 .. Len(block) |->
                            [n |-> written + i, op |-> block[i], on |-> device[v]]]
    <3>1. events \in Seq(Events) \ {<<>>}
      BY <1>3, WrittenBlock DEF Write
    <3>2. unread' = [r \in Visits |-> IF fd[r] = v THEN Append(unread[r], events) ELSE unread[r]]
      BY <1>3 DEF Write
    <3> HIDE DEF events
    <3> QED
      BY <3>1, <3>2
  <2> QED
    BY <1>3, <2>1, <2>2 DEF Write, node_vars, history
<1>4. ASSUME NEW listed \in SUBSET Plugged, rescan_devices(listed) PROVE TypeOK'
  <2> DEFINE new == {v \in listed : known_devices[device[v]] # path[v]}
  <2>1. new \subseteq Visits
    BY DEF Plugged
  <2>2. known_devices' \in [DeviceIds -> Paths \union {NONE}]
    <3>1. ASSUME NEW d \in DeviceIds, \E v \in new : device[v] = d
          PROVE  path[CHOOSE v \in new : device[v] = d] \in Paths
      BY <2>1, <3>1
    <3> QED
      BY <1>4, <3>1 DEF rescan_devices
  <2>3. phase' \in [Visits -> {"unborn", "closed", "reading", "sending"}]
    BY <1>4 DEF rescan_devices
  <2> QED
    BY <1>4, <2>2, <2>3 DEF rescan_devices, node_vars, history
<1>5. CASE Receive
  <2>1. /\ Head(ff_rx) \in [device : DeviceIds, event : Events]
        /\ ff_rx' \in Seq([device : DeviceIds, event : Events])
        /\ Len(ff_rx') <= ChannelSize
    <3>1. /\ Head(ff_rx) \in [device : DeviceIds, event : Events]
          /\ Tail(ff_rx) \in Seq([device : DeviceIds, event : Events])
          /\ Len(Tail(ff_rx)) = Len(ff_rx) - 1
      BY <1>5, HeadTailProperties DEF Receive
    <3>2. Len(ff_rx) \in Nat
      BY LenProperties
    <3> QED
      BY <1>5, <3>1, <3>2, ReadersAssumption DEF Receive
  <2>2. newest' \in [DeviceIds -> Events]
    BY <1>5, <2>1 DEF Receive
  <2> QED
    BY <1>5, <2>1, <2>2 DEF Receive, node_vars, reader_vars
<1>6. ASSUME NEW r \in Visits, Open(r) PROVE TypeOK'
  <2>1. node[path[r]] \in 0 .. plugs
    OBVIOUS
  <2> QED
    BY <1>6, <2>1 DEF Open, node_vars
<1>7. ASSUME NEW r \in Visits, NextFfEvent(r) PROVE TypeOK'
  <2>1. unread[r] \in Seq(Seq(Events) \ {<<>>}) /\ unread[r] # <<>>
    BY <1>7 DEF NextFfEvent
  <2>2. /\ Head(unread[r]) \in Seq(Events) \ {<<>>}
        /\ Tail(unread[r]) \in Seq(Seq(Events) \ {<<>>})
    BY <2>1, HeadTailProperties
  <2>3. Head(Head(unread[r])) \in Events
    BY <2>2, HeadTailProperties
  <2> QED
    BY <1>7, <2>2, <2>3 DEF NextFfEvent, node_vars, history
<1>8. ASSUME NEW r \in Visits, ReadFails(r) PROVE TypeOK'
  <2>1. unread' \in [Visits -> Seq(Seq(Events) \ {<<>>})]
    BY <1>8 DEF ReadFails
  <2> QED
    BY <1>8, <2>1, ReadersAssumption DEF ReadFails, node_vars, history
<1>9. ASSUME NEW r \in Visits, Send(r) PROVE TypeOK'
  <2>1. /\ ff_rx' \in Seq([device : DeviceIds, event : Events])
        /\ Len(ff_rx') <= ChannelSize
    <3>1. [device |-> device[r], event |-> held[r]] \in [device : DeviceIds, event : Events]
      OBVIOUS
    <3> QED
      BY <1>9, <3>1, ReadersAssumption DEF Send
  <2> QED
    BY <1>9, <2>1 DEF Send, node_vars, history
<1>10. CASE UNCHANGED vars
  BY <1>10 DEF vars
<1> QED
  BY <1>1, <1>2, <1>3, <1>4, <1>5, <1>6, <1>7, <1>8, <1>9, <1>10 DEF ReadersNext, ReaderStep

-----------------------------------------------------------------------------
(* Rescans. *)

LEMMA InitFound == ReadersInit => Found
<1> SUFFICES ASSUME ReadersInit PROVE Found
  OBVIOUS
<1>1. ReadersAreVisits /\ KnownHaveReaders /\ FreshAreKnown
  BY DEF ReadersInit, ReadersAreVisits, KnownHaveReaders, FreshAreKnown, Spawned
<1>2. NodesAreDistinct
  BY ReadersAssumption DEF ReadersInit, NodesAreDistinct, Present, Visits
<1> QED
  BY <1>1, <1>2 DEF Found

(* A new visit disturbs nothing that was there. *)
LEMMA PlugFound ==
    ASSUME Inv, NEW d \in DeviceIds, NEW p \in Paths, Plug(d, p)
    PROVE  Found'
<1> USE DEF Inv, Found, TypeOK
<1>1. /\ plugs' = plugs + 1
      /\ plugs' \in Visits
      /\ \A v \in Visits : v # plugs' => device'[v] = device[v] /\ path'[v] = path[v]
      /\ device'[plugs'] = d /\ path'[plugs'] = p
      /\ node' = [node EXCEPT ![p] = plugs']
      /\ UNCHANGED <<known_devices, phase>>
      /\ fresh' = FALSE
      /\ \A v \in Visits : Present(v) => device[v] # d
  BY ReadersAssumption DEF Plug, Visits, reader_vars
<1>2. \A r \in Visits : Spawned(r)' => Spawned(r) /\ r <= plugs
  BY <1>1 DEF ReadersAreVisits, Spawned
<1>3. ReadersAreVisits'
  BY <1>1, <1>2 DEF ReadersAreVisits, Visits
<1>4. ASSUME NEW v \in Visits, Present(v)', v # plugs'
      PROVE  Present(v)
  <2>1. v <= plugs /\ path'[v] = path[v] /\ node'[path[v]] = v
    BY <1>1, <1>4 DEF Present, Visits
  <2>2. path[v] # p
    BY <1>1, <1>4, <2>1
  <2> QED
    BY <1>1, <2>1, <2>2 DEF Present
<1>5. NodesAreDistinct'
  BY <1>1, <1>4 DEF NodesAreDistinct
<1>6. KnownHaveReaders'
  <2> SUFFICES ASSUME NEW e \in DeviceIds, known_devices'[e] # NONE
               PROVE  \E r \in Visits : Spawned(r)' /\ device'[r] = e /\ path'[r] = known_devices'[e]
    BY DEF KnownHaveReaders
  <2>1. PICK r \in Visits : Spawned(r) /\ device[r] = e /\ path[r] = known_devices[e]
    BY <1>1 DEF KnownHaveReaders
  <2>2. r <= plugs /\ Spawned(r)'
    BY <1>1, <2>1 DEF ReadersAreVisits, Spawned
  <2>3. r # plugs'
    BY <1>1, <2>2 DEF Visits
  <2> QED
    BY <1>1, <2>1, <2>2, <2>3
<1>7. FreshAreKnown'
  BY <1>1 DEF FreshAreKnown
<1> QED
  BY <1>3, <1>5, <1>6, <1>7

(* The comparison of paths finds exactly the devices without a reader. *)
LEMMA RescanFound ==
    ASSUME Inv, NEW listed \in SUBSET Plugged, rescan_devices(listed)
    PROVE  Found'
<1> USE DEF Inv, Found, TypeOK
<1> DEFINE new == {v \in listed : known_devices[device[v]] # path[v]}
<1>1. /\ phase' = [r \in Visits |-> IF r \in new THEN "closed" ELSE phase[r]]
      /\ known_devices' = [d \in DeviceIds |->
             IF \E v \in new : device[v] = d
             THEN path[CHOOSE v \in new : device[v] = d] ELSE known_devices[d]]
      /\ fresh' = (fresh \/ listed = Plugged)
      /\ UNCHANGED <<plugs, device, path, node>>
  BY DEF rescan_devices, node_vars
<1>2. new \subseteq Visits /\ \A v \in new : Present(v)
  BY DEF Plugged
<1>3. \A v \in Visits : Present(v)' <=> Present(v)
  BY <1>1 DEF Present
<1>4. \A v \in new : known_devices'[device[v]] = path[v]
  <2> TAKE v \in new
  <2> DEFINE w == CHOOSE u \in new : device[u] = device[v]
  <2>1. w \in new /\ device[w] = device[v]
    OBVIOUS
  <2>2. w = v
    BY <1>2, <2>1 DEF NodesAreDistinct
  <2>3. device[v] \in DeviceIds
    BY <1>2
  <2> HIDE DEF new
  <2> QED
    BY <1>1, <2>2, <2>3
<1>5. \A d \in DeviceIds : (\A v \in new : device[v] # d) => known_devices'[d] = known_devices[d]
  BY <1>1
<1>6. \A r \in Visits : (Spawned(r) \/ r \in new) <=> Spawned(r)'
  BY <1>1 DEF Spawned
<1> HIDE DEF new
<1>7. ReadersAreVisits'
  BY <1>1, <1>2, <1>6 DEF ReadersAreVisits, Present
<1>8. NodesAreDistinct'
  BY <1>1, <1>3 DEF NodesAreDistinct
<1>9. KnownHaveReaders'
  <2> SUFFICES ASSUME NEW d \in DeviceIds, known_devices'[d] # NONE
               PROVE  \E r \in Visits : Spawned(r)' /\ device'[r] = d /\ path'[r] = known_devices'[d]
    BY DEF KnownHaveReaders
  <2>1. CASE \E v \in new : device[v] = d
    BY <1>1, <1>2, <1>4, <1>6, <2>1
  <2>2. CASE \A v \in new : device[v] # d
    BY <1>1, <1>5, <1>6, <2>2 DEF KnownHaveReaders
  <2> QED
    BY <2>1, <2>2
<1>10. FreshAreKnown'
  <2> SUFFICES ASSUME fresh', NEW v \in Visits, Present(v)
               PROVE  known_devices'[device[v]] = path[v]
    BY <1>1, <1>3 DEF FreshAreKnown
  <2>1. CASE v \in new
    BY <1>4, <2>1
  <2>2. CASE v \notin new
    <3>1. known_devices[device[v]] = path[v]
      <4>1. CASE fresh
        BY <4>1 DEF FreshAreKnown
      <4>2. CASE listed = Plugged
        BY <2>2, <4>2 DEF new, Plugged
      <4> QED
        BY <1>1, <4>1, <4>2
    <3>2. \A u \in new : device[u] # device[v]
      BY <1>2, <2>2 DEF NodesAreDistinct
    <3> QED
      BY <1>5, <3>1, <3>2
  <2> QED
    BY <2>1, <2>2
<1> QED
  BY <1>7, <1>8, <1>9, <1>10

LEMMA NextFound == Inv /\ [ReadersNext]_vars => Found'
<1> SUFFICES ASSUME Inv, [ReadersNext]_vars PROVE Found'
  OBVIOUS
<1>1. ASSUME NEW d \in DeviceIds, NEW p \in Paths, Plug(d, p) PROVE Found'
  BY <1>1, PlugFound
<1>2. ASSUME NEW p \in Paths, Unplug(p) PROVE Found'
  <2>1. /\ \A v \in Visits : Present(v)' => Present(v)
        /\ \A r \in Visits : Spawned(r)' <=> Spawned(r)
        /\ UNCHANGED <<plugs, device, path, known_devices>>
        /\ fresh' = FALSE
    BY <1>2 DEF Unplug, Present, Spawned, reader_vars, Inv, TypeOK, Visits
  <2> QED
    BY <2>1 DEF Inv, Found, ReadersAreVisits, NodesAreDistinct, KnownHaveReaders, FreshAreKnown
<1>3. ASSUME NEW listed \in SUBSET Plugged, rescan_devices(listed) PROVE Found'
  BY <1>3, RescanFound
(* The remaining steps spawn no reader and move no node. *)
<1>4. ASSUME \A r \in Visits : Spawned(r)' <=> Spawned(r),
             UNCHANGED <<node_vars, known_devices, fresh>>
      PROVE  Found'
  BY <1>4 DEF node_vars, Present, Inv, Found, ReadersAreVisits, NodesAreDistinct, KnownHaveReaders,
     FreshAreKnown
<1>5. ASSUME NEW v \in Visits, NEW block \in Blocks, Write(v, block) PROVE Found'
  BY <1>4, <1>5 DEF Write, Spawned
<1>6. CASE Receive \/ UNCHANGED vars
  BY <1>4, <1>6 DEF Receive, reader_vars, vars, node_vars, Spawned
<1>7. ASSUME NEW r \in Visits, ReaderStep(r) PROVE Found'
  <2>1. UNCHANGED <<node_vars, known_devices, fresh>>
    BY <1>7 DEF ReaderStep, Open, NextFfEvent, ReadFails, Send
  <2>2. /\ phase[r] # "unborn" /\ phase'[r] # "unborn"
        /\ \A s \in Visits \ {r} : phase'[s] = phase[s]
    BY <1>7 DEF ReaderStep, Open, NextFfEvent, ReadFails, Send, Inv, TypeOK
  <2> QED
    BY <1>4, <2>1, <2>2 DEF Spawned
<1> QED
  BY <1>1, <1>2, <1>3, <1>5, <1>6, <1>7 DEF ReadersNext

-----------------------------------------------------------------------------
(* Order. *)

(* The numbers on their way are numbers. *)
LEMMA Numbers ==
    ASSUME TypeOK
    PROVE  /\ written \in Nat
           /\ \A r \in Visits : r \in Nat \ {0} /\ fd[r] \in Nat /\ fd[r] <= plugs
           /\ \A r \in Visits : fd[r] # 0 => fd[r] \in Visits
           /\ \A d \in DeviceIds : newest[d].n \in Nat
           /\ \A r \in Visits : held[r].n \in Nat
           /\ Len(ff_rx) \in Nat
           /\ \A i \in 1 .. Len(ff_rx) : ff_rx[i].event.n \in Nat /\ ff_rx[i].device \in DeviceIds
           /\ \A r \in Visits : Len(unread[r]) \in Nat
           /\ \A r \in Visits : \A i \in 1 .. Len(unread[r]) :
                  /\ Len(unread[r][i]) \in Nat
                  /\ \A a \in 1 .. Len(unread[r][i]) : unread[r][i][a].n \in Nat
<1>1. \A e \in Events : e.n \in Nat
  BY ReadersAssumption DEF Events
<1>2. written \in Nat /\ plugs \in Nat /\ plugs <= MaxPlugs
  BY ReadersAssumption DEF TypeOK
<1>3. ASSUME NEW r \in Visits
      PROVE  r \in Nat \ {0} /\ fd[r] \in Nat /\ fd[r] <= plugs /\ (fd[r] # 0 => fd[r] \in Visits)
  BY <1>2, ReadersAssumption DEF TypeOK, Visits
<1>4. /\ \A d \in DeviceIds : newest[d].n \in Nat
      /\ \A r \in Visits : held[r].n \in Nat
  BY <1>1 DEF TypeOK
<1>5. Len(ff_rx) \in Nat
  BY DEF TypeOK
<1>6. ASSUME NEW i \in 1 .. Len(ff_rx) PROVE ff_rx[i] \in [device : DeviceIds, event : Events]
  BY ElementOfSeq DEF TypeOK
<1>7. ASSUME NEW r \in Visits
      PROVE  unread[r] \in Seq(Seq(Events) \ {<<>>})
  BY DEF TypeOK
<1>8. ASSUME NEW r \in Visits, NEW i \in 1 .. Len(unread[r])
      PROVE  unread[r][i] \in Seq(Events)
  BY <1>7, ElementOfSeq
<1>9. ASSUME NEW r \in Visits, NEW i \in 1 .. Len(unread[r]), NEW a \in 1 .. Len(unread[r][i])
      PROVE  unread[r][i][a] \in Events
  BY <1>8, ElementOfSeq
<1> QED
  BY SMTT(40), <1>1, <1>2, <1>3, <1>4, <1>5, <1>6, <1>7, <1>8, <1>9

LEMMA InitOrdered == ReadersInit => Ordered
<1> SUFFICES ASSUME ReadersInit PROVE Ordered
  OBVIOUS
<1>1. NoEvent.n = 0
  BY DEF NoEvent
<1>2. ff_rx = <<>> /\ Len(ff_rx) = 0 /\ \A r \in Visits : unread[r] = <<>> /\ Len(unread[r]) = 0
  BY DEF ReadersInit
<1>3. \A r \in Visits : ~HasOpen(r) /\ ~Active(r) /\ ~Spawned(r)
  BY DEF ReadersInit, HasOpen, Active, Spawned
<1>4. WrittenBefore
  BY <1>1, <1>2 DEF ReadersInit, WrittenBefore
<1>5. OneReaderKeepsOrder
  BY <1>2, <1>3 DEF OneReaderKeepsOrder, ChannelInOrder
<1>6. ClosedAreEmpty
  BY <1>2 DEF ReadersInit, ClosedAreEmpty
<1> QED
  BY <1>3, <1>4, <1>5, <1>6 DEF Ordered, ReadersStay, OneActive

(* A step that moves no event and makes no reader active keeps the order. *)
LEMMA NothingMoves ==
    ASSUME OrderInv,
           UNCHANGED <<fd, unread, held, ff_rx, written, newest, doubled>>,
           \A r \in Visits : Active(r)' => Active(r) /\ device'[r] = device[r],
           \A r \in Visits : /\ HasOpen(r)' <=> HasOpen(r)
                             /\ phase'[r] = "sending" <=> phase[r] = "sending"
    PROVE  (ClosedAreEmpty /\ WrittenBefore /\ OneActive /\ OneReaderKeepsOrder)'
<1> USE DEF OrderInv, Ordered
<1>1. ClosedAreEmpty' /\ WrittenBefore'
  BY DEF ClosedAreEmpty, WrittenBefore
<1>2. OneActive'
  BY DEF OneActive
<1>3. \A d \in DeviceIds : ChannelInOrder(d)' <=> ChannelInOrder(d)
  BY DEF ChannelInOrder
<1>4. \A n, d : After(n, d)' <=> After(n, d)
  BY DEF After
<1>5. \A r \in Visits : device'[r] = device[r] /\ ReaderInOrder(r) => ReaderInOrder(r)'
  BY <1>4 DEF ReaderInOrder
<1>6. OneReaderKeepsOrder'
  BY <1>3, <1>5 DEF OneReaderKeepsOrder
<1> QED
  BY <1>1, <1>2, <1>6

LEMMA PlugOrdered ==
    ASSUME OrderInv, NEW d \in DeviceIds, NEW p \in Paths, Plug(d, p)
    PROVE  Ordered'
<1> USE DEF OrderInv, Inv, Found, TypeOK
<1>1. /\ plugs' = plugs + 1
      /\ plugs' \in Visits
      /\ \A v \in Visits : v # plugs' => device'[v] = device[v] /\ path'[v] = path[v]
      /\ path'[plugs'] = p
      /\ node' = [node EXCEPT ![p] = plugs']
      /\ UNCHANGED <<known_devices, phase, fd, unread, held, ff_rx, written, newest, doubled>>
  BY ReadersAssumption DEF Plug, Visits, reader_vars, history
<1>2. ASSUME NEW v \in Visits, v # plugs', Present(v)' PROVE Present(v)
  <2>1. v <= plugs /\ path'[v] = path[v] /\ node'[path[v]] = v
    BY <1>1, <1>2 DEF Present, Visits
  <2>2. path[v] # p
    BY <1>1, <1>2, <2>1
  <2> QED
    BY <1>1, <2>1, <2>2 DEF Present
<1>3. \A r \in Visits : fd[r] # plugs' /\ (fd[r] # 0 => fd[r] \in Visits)
  <2>1. plugs \in Nat /\ plugs' = plugs + 1
    BY <1>1, ReadersAssumption
  <2>2. ASSUME NEW r \in Visits PROVE fd[r] \in Nat /\ fd[r] <= plugs /\ (fd[r] # 0 => fd[r] \in Visits)
    BY Numbers
  <2>3. ASSUME NEW r \in Visits PROVE fd[r] # plugs'
    <3>1. fd[r] \in Nat /\ fd[r] <= plugs
      BY <2>2
    <3> HIDE DEF TypeOK, Inv, OrderInv, Found
    <3> QED
      BY <2>1, <3>1
  <2> QED
    BY <2>2, <2>3
<1>4. \A r \in Visits : Live(r)' => Live(r)
  BY <1>1, <1>2, <1>3 DEF Live
<1>5. \A r \in Visits : Spawned(r) => r # plugs'
  BY <1>1 DEF ReadersAreVisits, Visits
<1>6. \A r \in Visits : Active(r)' => Active(r) /\ device'[r] = device[r]
  BY <1>1, <1>4, <1>5 DEF Active, Spawned
<1>7. ReadersStay'
  BY <1>1, <1>2, <1>5 DEF Ordered, ReadersStay, Spawned
<1> QED
  BY <1>1, <1>6, <1>7, NothingMoves DEF Ordered, HasOpen

LEMMA UnplugOrdered ==
    ASSUME OrderInv, NEW p \in Paths, Unplug(p)
    PROVE  Ordered'
<1> USE DEF OrderInv, Inv, Found, TypeOK
<1>1. /\ UNCHANGED <<plugs, device, path, known_devices, phase, fd, unread, held, ff_rx,
                     written, newest, doubled>>
      /\ node' = [node EXCEPT ![p] = 0]
  BY DEF Unplug, reader_vars, history
<1>2. \A v \in Visits : Present(v)' => Present(v)
  BY <1>1 DEF Present, Visits
<1>3. \A r \in Visits : fd[r] # 0 => fd[r] \in Visits
  BY Numbers
<1>4. \A r \in Visits : Active(r)' => Active(r)
  BY <1>1, <1>2, <1>3 DEF Active, Live
<1>5. ReadersStay'
  BY <1>1, <1>2 DEF Ordered, ReadersStay, Spawned
<1> QED
  BY <1>1, <1>4, <1>5, NothingMoves DEF Ordered, HasOpen

(* A rescan leaves alone the readers there are. *)
LEMMA RescanOrdered ==
    ASSUME OrderInv, NEW listed \in SUBSET Plugged, rescan_devices(listed)
    PROVE  Ordered'
<1> USE DEF OrderInv, Inv, Found, TypeOK
<1> DEFINE new == {v \in listed : known_devices[device[v]] # path[v]}
<1>1. /\ phase' = [r \in Visits |-> IF r \in new THEN "closed" ELSE phase[r]]
      /\ known_devices' = [d \in DeviceIds |->
             IF \E v \in new : device[v] = d
             THEN path[CHOOSE v \in new : device[v] = d] ELSE known_devices[d]]
      /\ UNCHANGED <<plugs, device, path, node, fd, unread, held, ff_rx, written, newest, doubled>>
  BY DEF rescan_devices, node_vars, history
<1>2. new \subseteq Visits /\ \A v \in new : Present(v) /\ known_devices[device[v]] # path[v]
  BY DEF Plugged
<1>3. \A v \in new : ~Spawned(v)
  BY <1>2 DEF Ordered, ReadersStay
<1>4. \A v \in Visits : Present(v)' <=> Present(v)
  BY <1>1 DEF Present
<1>5. \A v \in new : known_devices'[device[v]] = path[v]
  <2> TAKE v \in new
  <2> DEFINE w == CHOOSE u \in new : device[u] = device[v]
  <2>1. w \in new /\ device[w] = device[v]
    OBVIOUS
  <2>2. w = v
    BY <1>2, <2>1 DEF NodesAreDistinct
  <2>3. device[v] \in DeviceIds
    BY <1>2
  <2> HIDE DEF new
  <2> QED
    BY <1>1, <2>2, <2>3
<1>6. \A d \in DeviceIds : (\A v \in new : device[v] # d) => known_devices'[d] = known_devices[d]
  BY <1>1
<1> HIDE DEF new
<1>7. ReadersStay'
  <2> SUFFICES ASSUME NEW v \in Visits, Present(v), Spawned(v)'
               PROVE  known_devices'[device[v]] = path[v]
    BY <1>1, <1>4 DEF ReadersStay
  <2>1. CASE v \in new
    BY <1>5, <2>1
  <2>2. CASE v \notin new
    <3>1. Spawned(v)
      BY <1>1, <2>2 DEF Spawned
    <3>2. \A u \in new : device[u] # device[v]
      BY <1>2, <2>2 DEF NodesAreDistinct
    <3> QED
      BY <1>6, <3>1, <3>2 DEF Ordered, ReadersStay
  <2> QED
    BY <2>1, <2>2
<1>8. \A r \in Visits : \/ phase'[r] = phase[r]
                        \/ phase[r] = "unborn" /\ phase'[r] = "closed"
  BY <1>1, <1>3 DEF Spawned
<1>9. \A r \in Visits : fd[r] # 0 => fd[r] \in Visits
  BY Numbers
<1>10. \A r \in Visits : Active(r)' => Active(r)
  BY <1>1, <1>4, <1>8, <1>9 DEF Active, Live
<1> QED
  BY <1>1, <1>7, <1>8, <1>10, NothingMoves DEF Ordered, HasOpen

(* What is written comes after everything written before. *)
LEMMA WriteOrdered ==
    ASSUME OrderInv, NEW v \in Visits, NEW block \in Blocks, Write(v, block)
    PROVE  Ordered'
<1> DEFINE events == [i \in 1 .. Len(block) |->
                        [n |-> written + i, op |-> block[i], on |-> device[v]]]
<1>0. TypeOK /\ ReadersStay /\ ClosedAreEmpty /\ WrittenBefore /\ OneActive /\ OneReaderKeepsOrder
  BY DEF OrderInv, Inv, Ordered
<1>1. /\ unread' = [r \in Visits |-> IF fd[r] = v THEN Append(unread[r], events) ELSE unread[r]]
      /\ written' = written + Len(block)
      /\ UNCHANGED <<plugs, device, path, node, known_devices, phase, fd, held, ff_rx, newest,
                     doubled>>
  BY DEF Write, node_vars, history
<1>2. Len(block) \in Nat /\ Len(events) = Len(block)
  BY ReadersAssumption
<1>3. \A i \in 1 .. Len(events) : events[i].n = written + i
  BY <1>2
<1>4. events \in Seq(Events) \ {<<>>}
  BY <1>0, WrittenBlock DEF Write
<1> HIDE DEF events
<1>5. /\ written \in Nat
      /\ \A r \in Visits : Len(unread[r]) \in Nat /\ held[r].n \in Nat
      /\ \A r \in Visits : \A i \in 1 .. Len(unread[r]) : \A a \in 1 .. Len(unread[r][i]) :
             unread[r][i][a].n \in Nat
      /\ \A d \in DeviceIds : newest[d].n \in Nat
      /\ \A i \in 1 .. Len(ff_rx) : ff_rx[i].event.n \in Nat
  BY <1>0, Numbers
<1>6. ASSUME NEW r \in Visits
      PROVE  \/ unread'[r] = unread[r]
             \/ /\ fd[r] = v
                /\ Len(unread'[r]) = Len(unread[r]) + 1
                /\ unread'[r][Len(unread[r]) + 1] = events
                /\ \A i \in 1 .. Len(unread[r]) : unread'[r][i] = unread[r][i]
  BY <1>0, <1>1, <1>4 DEF TypeOK
<1>7. ClosedAreEmpty'
  <2>1. \A r \in Visits : fd[r] = 0 => fd[r] # v
    BY DEF Visits
  <2> QED
    BY <1>0, <1>1, <2>1 DEF ClosedAreEmpty, HasOpen
<1>8. /\ written' \in Nat /\ written <= written'
      /\ \A i \in 1 .. Len(events) : events[i].n \in Nat /\ events[i].n > written /\ events[i].n <= written'
  BY <1>1, <1>2, <1>3, <1>5
<1>9. ASSUME NEW r \in Visits, NEW i \in 1 .. Len(unread'[r])
      PROVE  \/ unread'[r][i] = events /\ i = Len(unread[r]) + 1
             \/ i \in 1 .. Len(unread[r]) /\ unread'[r][i] = unread[r][i]
  <2>1. CASE unread'[r] = unread[r]
    BY <2>1
  <2>2. CASE unread'[r] # unread[r]
    <3>1. /\ Len(unread'[r]) = Len(unread[r]) + 1
          /\ unread'[r][Len(unread[r]) + 1] = events
          /\ \A j \in 1 .. Len(unread[r]) : unread'[r][j] = unread[r][j]
          /\ Len(unread[r]) \in Nat
      BY <1>5, <1>6, <2>2
    <3>2. i = Len(unread[r]) + 1 \/ i \in 1 .. Len(unread[r])
      BY <3>1
    <3> QED
      BY <3>1, <3>2
  <2> QED
    BY <2>1, <2>2
<1>10. WrittenBefore'
  <2>1. \A d \in DeviceIds : newest[d].n <= written'
    BY <1>0, <1>5, <1>8 DEF WrittenBefore
  <2>2. \A i \in 1 .. Len(ff_rx) : ff_rx[i].event.n <= written'
    BY <1>0, <1>5, <1>8 DEF WrittenBefore
  <2>3. \A r \in Visits : held[r].n <= written'
    BY <1>0, <1>5, <1>8 DEF WrittenBefore
  <2>4. ASSUME NEW r \in Visits, NEW i \in 1 .. Len(unread'[r]), NEW a \in 1 .. Len(unread'[r][i])
        PROVE  unread'[r][i][a].n <= written'
    <3>1. CASE unread'[r][i] = events
      BY <1>8, <3>1
    <3>2. CASE i \in 1 .. Len(unread[r]) /\ unread'[r][i] = unread[r][i]
      <4>1. unread[r][i][a].n \in Nat /\ unread[r][i][a].n <= written
        BY <1>0, <1>5, <3>2 DEF WrittenBefore
      <4> QED
        BY <1>5, <1>8, <3>2, <4>1
    <3> QED
      BY <1>9, <3>1, <3>2
  <2> QED
    BY <1>1, <2>1, <2>2, <2>3, <2>4 DEF WrittenBefore
<1>11. \A r \in Visits : Active(r)' <=> Active(r)
  BY <1>1 DEF Active, Live, Present
<1>12. OneActive' /\ ReadersStay'
  BY <1>0, <1>1, <1>11 DEF OneActive, ReadersStay, Present, Spawned
<1>13. ASSUME NEW n, NEW d, After(n, d) PROVE After(n, d)'
  BY <1>1, <1>13 DEF After
<1>14. ASSUME NEW d \in DeviceIds, NEW i \in 1 .. Len(events) PROVE After(events[i].n, d)
  <2>1. events[i].n \in Nat /\ events[i].n > written
    BY <1>8
  <2> QED
    BY <1>0, <1>5, <2>1 DEF After, WrittenBefore
<1>15. ASSUME NEW r \in Visits, ReaderInOrder(r) PROVE ReaderInOrder(r)'
  <2>0. device[r] \in DeviceIds /\ device' = device /\ phase' = phase /\ held' = held
    BY <1>0, <1>1 DEF TypeOK
  <2>1. ASSUME phase[r] = "sending" PROVE After(held[r].n, device[r])'
    <3> DEFINE n == held[r].n
    <3>1. After(n, device[r])
      BY <1>15, <2>1 DEF ReaderInOrder
    <3> QED
      BY <1>1, <3>1 DEF After
  <2>2. ASSUME NEW i \in 1 .. Len(unread'[r]), NEW a \in 1 .. Len(unread'[r][i])
        PROVE  /\ After(unread[r][i][a].n, device[r])'
               /\ phase[r] = "sending" => held[r].n < unread'[r][i][a].n
               /\ \A j \in 1 .. i : \A b \in 1 .. Len(unread'[r][j]) :
                      j < i \/ b < a => unread'[r][j][b].n < unread'[r][i][a].n
    <3>1. CASE unread'[r][i] = events /\ i = Len(unread[r]) + 1
      <4>0. a \in 1 .. Len(events) /\ unread'[r][i][a].n = events[a].n
        BY <3>1
      <4>1. After(unread[r][i][a].n, device[r])'
        <5>1. After(events[a].n, device[r])
          BY <1>14, <2>0, <4>0
        <5> QED
          BY <1>1, <4>0, <5>1 DEF After
      <4>2. held[r].n < unread'[r][i][a].n
        <5>1. held[r].n \in Nat /\ held[r].n <= written
          BY <1>0, <1>5 DEF WrittenBefore
        <5> QED
          BY <1>5, <1>8, <4>0, <5>1
      <4>3. ASSUME NEW j \in 1 .. i, NEW b \in 1 .. Len(unread'[r][j]), j < i \/ b < a
            PROVE  unread'[r][j][b].n < unread'[r][i][a].n
        <5>0. i \in Nat /\ j \in Nat /\ a \in Nat /\ b \in Int
          <6>1. i \in Nat
            BY <1>5, <3>1
          <6>2. a \in Nat /\ j \in Nat
            BY <1>2, <4>0, <6>1
          <6> QED
            BY <6>1, <6>2
        <5>1. CASE j = i
          <6>1. b \in 1 .. Len(events) /\ b < a /\ unread'[r][j][b].n = events[b].n
            BY <3>1, <4>3, <5>0, <5>1
          <6> QED
            BY <1>2, <1>3, <1>5, <4>0, <5>0, <6>1
        <5>2. CASE j < i
          <6>1. j \in 1 .. Len(unread[r]) /\ j # Len(unread[r]) + 1
            BY <1>5, <3>1, <5>0, <5>2
          <6>2. j \in 1 .. Len(unread'[r]) /\ unread'[r][j] = unread[r][j]
            BY <1>5, <1>6, <1>9, <6>1
          <6>3. unread[r][j][b].n \in Nat /\ unread[r][j][b].n <= written
            BY <1>0, <1>5, <6>1, <6>2 DEF WrittenBefore
          <6>4. events[a].n \in Nat /\ events[a].n > written
            BY <1>8, <4>0
          <6>5. unread[r][j][b].n < events[a].n
            BY <1>5, <6>3, <6>4
          <6> QED
            BY <4>0, <6>2, <6>5
        <5> QED
          BY <5>0, <5>1, <5>2
      <4> QED
        BY <4>1, <4>2, <4>3
    <3>2. CASE i \in 1 .. Len(unread[r]) /\ unread'[r][i] = unread[r][i]
      <4>1. ASSUME NEW j \in 1 .. i
            PROVE  j \in 1 .. Len(unread[r]) /\ unread'[r][j] = unread[r][j]
        <5>1. j \in 1 .. Len(unread[r])
          BY <1>5, <3>2
        <5> QED
          BY <1>6, <5>1
      <4>2. a \in 1 .. Len(unread[r][i]) /\ unread'[r][i][a].n = unread[r][i][a].n
        BY <3>2
      <4>3. /\ After(unread[r][i][a].n, device[r])
            /\ phase[r] = "sending" => held[r].n < unread[r][i][a].n
            /\ \A j \in 1 .. i : \A b \in 1 .. Len(unread[r][j]) :
                      j < i \/ b < a => unread[r][j][b].n < unread[r][i][a].n
        BY <1>15, <3>2, <4>2 DEF ReaderInOrder
      <4>4. After(unread[r][i][a].n, device[r])'
        BY <1>1, <4>2, <4>3 DEF After
      <4> QED
        BY <4>1, <4>2, <4>3, <4>4
    <3> QED
      BY <1>9, <3>1, <3>2
  <2> QED
    BY <2>0, <2>1, <2>2 DEF ReaderInOrder
<1>16. \A d \in DeviceIds : ChannelInOrder(d)' <=> ChannelInOrder(d)
  BY <1>1 DEF ChannelInOrder
<1>17. OneReaderKeepsOrder'
  BY <1>0, <1>1, <1>11, <1>15, <1>16 DEF OneReaderKeepsOrder
<1> QED
  BY <1>7, <1>10, <1>12, <1>17 DEF Ordered

(* main takes the oldest event of the channel, which becomes the newest it *)
(* has had.                                                                *)
LEMMA ReceiveOrdered ==
    ASSUME OrderInv, Receive
    PROVE  Ordered'
<1> DEFINE x == Head(ff_rx).device
           e == Head(ff_rx).event
<1>0. TypeOK /\ ReadersStay /\ ClosedAreEmpty /\ WrittenBefore /\ OneActive /\ OneReaderKeepsOrder
  BY DEF OrderInv, Inv, Ordered
<1>1. /\ ff_rx # <<>>
      /\ ff_rx' = Tail(ff_rx)
      /\ newest' = [newest EXCEPT ![x] = IF e.n > @.n THEN e ELSE @]
      /\ UNCHANGED <<plugs, device, path, node, known_devices, phase, fd, unread, held, written,
                     doubled>>
  BY DEF Receive, node_vars, reader_vars
<1>2. /\ Len(ff_rx) \in Nat \ {0}
      /\ x = ff_rx[1].device /\ e = ff_rx[1].event
      /\ x \in DeviceIds /\ e.n \in Nat
      /\ Len(ff_rx') = Len(ff_rx) - 1
      /\ \A i \in 1 .. Len(ff_rx') : i + 1 \in 1 .. Len(ff_rx) /\ ff_rx'[i] = ff_rx[i + 1]
  <2>1. ff_rx \in Seq([device : DeviceIds, event : Events]) /\ ff_rx # <<>>
    BY <1>0, <1>1 DEF TypeOK
  <2>2. Len(ff_rx) \in Nat \ {0} /\ Head(ff_rx) = ff_rx[1]
    BY <2>1
  <2>3. x \in DeviceIds /\ e.n \in Nat
    BY <1>0, <2>2, Numbers
  <2> QED
    BY <1>1, <2>1, <2>2, <2>3
<1> HIDE DEF x, e
<1>3. /\ written \in Nat
      /\ \A d \in DeviceIds : newest[d].n \in Nat
      /\ \A i \in 1 .. Len(ff_rx) : ff_rx[i].event.n \in Nat
  BY <1>0, Numbers
<1>4. /\ \A d \in DeviceIds : d # x => newest'[d] = newest[d]
      /\ newest'[x].n = newest[x].n \/ newest'[x].n = e.n
      /\ newest[x].n < e.n => newest'[x].n = e.n
  <2>1. newest \in [DeviceIds -> Events]
    BY <1>0 DEF TypeOK
  <2> QED
    BY <1>1, <1>2, <1>3, <2>1
<1>5. ASSUME NEW d \in DeviceIds PROVE newest'[d].n \in Nat /\ newest'[d].n <= written
  <2>1. newest[d].n \in Nat /\ newest[d].n <= written
    BY <1>0, <1>3 DEF WrittenBefore
  <2>2. e.n \in Nat /\ e.n <= written
    BY <1>0, <1>2 DEF WrittenBefore
  <2> QED
    BY <1>4, <2>1, <2>2
<1>6. WrittenBefore'
  <2>1. \A i \in 1 .. Len(ff_rx') : ff_rx'[i].event.n <= written
    BY <1>0, <1>2 DEF WrittenBefore
  <2> QED
    BY <1>0, <1>1, <1>5, <2>1 DEF WrittenBefore
<1>7. \A r \in Visits : Active(r)' <=> Active(r)
  BY <1>1 DEF Active, Live, Present
<1>8. OneActive' /\ ReadersStay' /\ ClosedAreEmpty'
  BY <1>0, <1>1, <1>7 DEF OneActive, ReadersStay, ClosedAreEmpty, HasOpen, Present, Spawned
<1>9. ASSUME NEW n, NEW d \in DeviceIds, After(n, d) PROVE After(n, d)'
  <2>1. newest'[d].n < n
    <3>1. newest[d].n < n
      BY <1>9 DEF After
    <3>2. d = x => e.n < n
      BY <1>2, <1>9 DEF After
    <3> QED
      BY <1>4, <3>1, <3>2
  <2>2. \A i \in 1 .. Len(ff_rx') : ff_rx'[i].device = d => ff_rx'[i].event.n < n
    BY <1>2, <1>9 DEF After
  <2> QED
    BY <2>1, <2>2 DEF After
<1>10. ASSUME NEW d \in DeviceIds, ChannelInOrder(d) PROVE ChannelInOrder(d)'
  <2> SUFFICES ASSUME NEW j \in 1 .. Len(ff_rx'), ff_rx'[j].device = d
               PROVE  /\ newest'[d].n < ff_rx'[j].event.n
                      /\ \A i \in 1 .. j - 1 : ff_rx'[i].device = d => ff_rx'[i].event.n < ff_rx'[j].event.n
    BY DEF ChannelInOrder
  <2>1. /\ j + 1 \in 1 .. Len(ff_rx) /\ j \in Nat \ {0}
        /\ ff_rx'[j] = ff_rx[j + 1]
    BY <1>2
  <2>2. /\ newest[d].n < ff_rx[j + 1].event.n
        /\ \A i \in 1 .. j : ff_rx[i].device = d => ff_rx[i].event.n < ff_rx[j + 1].event.n
    BY <1>10, <2>1 DEF ChannelInOrder
  <2>3. newest'[d].n < ff_rx[j + 1].event.n
    <3>1. d = x => e.n < ff_rx[j + 1].event.n
      BY <1>2, <2>1, <2>2
    <3> QED
      BY <1>4, <2>2, <3>1
  <2>4. ASSUME NEW i \in 1 .. j - 1, ff_rx'[i].device = d
        PROVE  ff_rx'[i].event.n < ff_rx[j + 1].event.n
    <3>1. i \in 1 .. Len(ff_rx') /\ i + 1 \in 1 .. j
      BY <1>2, <2>1
    <3>2. ff_rx'[i] = ff_rx[i + 1]
      BY <1>2, <3>1
    <3> QED
      BY <2>2, <2>4, <3>1, <3>2
  <2> QED
    BY <2>1, <2>3, <2>4
<1>11. ASSUME NEW r \in Visits, ReaderInOrder(r) PROVE ReaderInOrder(r)'
  <2>0. device[r] \in DeviceIds
    BY <1>0 DEF TypeOK
  <2>1. ASSUME phase[r] = "sending" PROVE After(held[r].n, device[r])'
    <3> DEFINE n == held[r].n
    <3>1. After(n, device[r])
      BY <1>11, <2>1 DEF ReaderInOrder
    <3>2. held'[r].n = n /\ device'[r] = device[r]
      BY <1>1
    <3> HIDE DEF n
    <3>3. newest'[device[r]].n < n
          /\ \A i \in 1 .. Len(ff_rx') : ff_rx'[i].device = device[r] => ff_rx'[i].event.n < n
      BY <1>9, <2>0, <3>1 DEF After
    <3> QED
      BY <3>2, <3>3 DEF After
  <2>2. ASSUME NEW i \in 1 .. Len(unread[r]), NEW a \in 1 .. Len(unread[r][i])
        PROVE  After(unread[r][i][a].n, device[r])'
    <3> DEFINE n == unread[r][i][a].n
    <3>1. After(n, device[r])
      BY <1>11 DEF ReaderInOrder
    <3>2. unread'[r][i][a].n = n /\ device'[r] = device[r]
      BY <1>1
    <3> HIDE DEF n
    <3>3. newest'[device[r]].n < n
          /\ \A j \in 1 .. Len(ff_rx') : ff_rx'[j].device = device[r] => ff_rx'[j].event.n < n
      BY <1>9, <2>0, <3>1 DEF After
    <3> QED
      BY <3>2, <3>3 DEF After
  <2> QED
    BY <1>1, <1>11, <2>1, <2>2 DEF ReaderInOrder
<1>12. OneReaderKeepsOrder'
  BY <1>0, <1>1, <1>7, <1>10, <1>11 DEF OneReaderKeepsOrder
<1> QED
  BY <1>6, <1>8, <1>12 DEF Ordered

(* A reader that opens has nothing to tell yet; if another reader of its   *)
(* device is at work, the device counts as doubled.                        *)
LEMMA OpenOrdered ==
    ASSUME OrderInv, NEW r \in Visits, Open(r)
    PROVE  Ordered'
<1>0. TypeOK /\ ReadersStay /\ ClosedAreEmpty /\ WrittenBefore /\ OneActive /\ OneReaderKeepsOrder
  BY DEF OrderInv, Inv, Ordered
<1>1. /\ phase[r] = "closed"
      /\ phase' = [phase EXCEPT ![r] = "reading"]
      /\ fd' = [fd EXCEPT ![r] = node[path[r]]]
      /\ doubled' = IF \E s \in Visits \ {r} : device[s] = device[r] /\ Active(s)
                    THEN doubled \union {device[r]} ELSE doubled
      /\ UNCHANGED <<plugs, device, path, node, known_devices, unread, held, ff_rx, written, newest>>
  BY DEF Open, node_vars
<1>2. /\ phase'[r] = "reading" /\ unread[r] = <<>> /\ Len(unread[r]) = 0
      /\ \A s \in Visits : s # r => phase'[s] = phase[s] /\ fd'[s] = fd[s]
  <2>1. ~HasOpen(r)
    BY <1>1 DEF HasOpen
  <2> QED
    BY <1>0, <1>1, <2>1 DEF ClosedAreEmpty, TypeOK
<1>3. \A s \in Visits : s # r => (Active(s)' <=> Active(s))
  BY <1>1, <1>2 DEF Active, Live, Present
<1>4. ClosedAreEmpty'
  BY <1>0, <1>1, <1>2 DEF ClosedAreEmpty, HasOpen
<1>5. WrittenBefore'
  BY <1>0, <1>1 DEF WrittenBefore
<1>6. ReadersStay'
  <2>1. \A s \in Visits : Spawned(s)' <=> Spawned(s)
    BY <1>1, <1>2 DEF Spawned
  <2> QED
    BY <1>0, <1>1, <2>1 DEF ReadersStay, Present
<1>7. doubled \subseteq doubled'
  BY <1>1
<1>8. OneActive'
  <2> SUFFICES ASSUME NEW s \in Visits, NEW t \in Visits, device[s] = device[t],
                      device[s] \notin doubled', Active(s)', Active(t)'
               PROVE  s = t
    BY <1>1 DEF OneActive
  <2>1. CASE s # r /\ t # r
    BY <1>0, <1>3, <1>7, <2>1 DEF OneActive
  <2>2. CASE s = r /\ t # r
    <3>1. Active(t)
      BY <1>3, <2>2
    <3> QED
      BY <1>1, <2>2, <3>1
  <2>3. CASE s # r /\ t = r
    <3>1. Active(s)
      BY <1>3, <2>3
    <3> QED
      BY <1>1, <2>3, <3>1
  <2> QED
    BY <2>1, <2>2, <2>3
<1>9. OneReaderKeepsOrder'
  <2>1. \A d \in DeviceIds : ChannelInOrder(d)' <=> ChannelInOrder(d)
    BY <1>1 DEF ChannelInOrder
  <2>2. ReaderInOrder(r)'
    BY <1>1, <1>2 DEF ReaderInOrder
  <2>3. ASSUME NEW s \in Visits, s # r, ReaderInOrder(s) PROVE ReaderInOrder(s)'
    BY SMTT(40), <1>1, <1>2, <2>3 DEF ReaderInOrder, After
  <2> QED
    BY <1>0, <1>1, <1>3, <1>7, <2>1, <2>2, <2>3 DEF OneReaderKeepsOrder
<1> QED
  BY <1>4, <1>5, <1>6, <1>8, <1>9 DEF Ordered

(* Of the next block a reader takes the first event to send and lets go of *)
(* the rest.                                                               *)
LEMMA NextFfEventOrdered ==
    ASSUME OrderInv, NEW r \in Visits, NextFfEvent(r)
    PROVE  Ordered'
<1> DEFINE first == Head(Head(unread[r]))
<1>0. TypeOK /\ ReadersStay /\ ClosedAreEmpty /\ WrittenBefore /\ OneActive /\ OneReaderKeepsOrder
  BY DEF OrderInv, Inv, Ordered
<1>1. /\ phase[r] = "reading" /\ Live(r) /\ unread[r] # <<>>
      /\ held' = [held EXCEPT ![r] = first]
      /\ unread' = [unread EXCEPT ![r] = Tail(@)]
      /\ phase' = [phase EXCEPT ![r] = "sending"]
      /\ UNCHANGED <<plugs, device, path, node, known_devices, fd, ff_rx, written, newest, doubled>>
  BY DEF NextFfEvent, node_vars, history
<1>2. /\ Len(unread[r]) \in Nat \ {0}
      /\ Len(unread[r][1]) \in Nat \ {0}
      /\ first = unread[r][1][1]
      /\ Len(unread'[r]) = Len(unread[r]) - 1
      /\ \A i \in 1 .. Len(unread'[r]) : i + 1 \in 1 .. Len(unread[r]) /\ unread'[r][i] = unread[r][i + 1]
  <2>1. unread[r] \in Seq(Seq(Events) \ {<<>>}) /\ unread[r] # <<>> /\ unread'[r] = Tail(unread[r])
    BY <1>0, <1>1 DEF TypeOK
  <2>2. Len(unread[r]) \in Nat \ {0} /\ Head(unread[r]) = unread[r][1]
    BY <2>1
  <2>3. unread[r][1] \in Seq(Events) \ {<<>>}
    BY <2>1, <2>2, ElementOfSeq
  <2> QED
    BY <2>1, <2>2, <2>3
<1> HIDE DEF first
<1>3. /\ phase'[r] = "sending" /\ held'[r] = first
      /\ \A s \in Visits : s # r => phase'[s] = phase[s] /\ held'[s] = held[s] /\ unread'[s] = unread[s]
  BY <1>0, <1>1 DEF TypeOK
<1>4. \A s \in Visits : Active(s)' <=> Active(s)
  BY <1>1, <1>3 DEF Active, Live, Present
<1>5. ClosedAreEmpty'
  BY <1>0, <1>1, <1>3 DEF ClosedAreEmpty, HasOpen
<1>6. WrittenBefore'
  <2>1. 1 \in 1 .. Len(unread[r]) /\ 1 \in 1 .. Len(unread[r][1])
    BY <1>2
  <2>2. first.n <= written
    BY <1>0, <1>2, <2>1 DEF WrittenBefore
  <2>3. \A s \in Visits : held'[s].n <= written
    BY <1>0, <1>3, <2>2 DEF WrittenBefore
  <2>4. ASSUME NEW s \in Visits, NEW i \in 1 .. Len(unread'[s]), NEW a \in 1 .. Len(unread'[s][i])
        PROVE  unread'[s][i][a].n <= written
    <3>1. CASE s = r
      BY <1>0, <1>2, <3>1 DEF WrittenBefore
    <3>2. CASE s # r
      BY <1>0, <1>3, <3>2 DEF WrittenBefore
    <3> QED
      BY <3>1, <3>2
  <2> QED
    BY <1>0, <1>1, <2>3, <2>4 DEF WrittenBefore
<1>7. ReadersStay' /\ OneActive'
  <2>1. \A s \in Visits : Spawned(s)' <=> Spawned(s)
    BY <1>1, <1>3 DEF Spawned
  <2> QED
    BY <1>0, <1>1, <1>4, <2>1 DEF ReadersStay, Present, OneActive
<1>8. ASSUME ReaderInOrder(r) PROVE ReaderInOrder(r)'
  <2>0. /\ 1 \in 1 .. Len(unread[r]) /\ 1 \in 1 .. Len(unread[r][1])
        /\ \A n, d : After(n, d)' <=> After(n, d)
    BY <1>1, <1>2 DEF After
  <2>1. After(first.n, device[r])
    BY <1>2, <1>8, <2>0 DEF ReaderInOrder
  <2>2. ASSUME NEW i \in 1 .. Len(unread'[r]), NEW a \in 1 .. Len(unread'[r][i])
        PROVE  /\ After(unread[r][i + 1][a].n, device[r])
               /\ first.n < unread'[r][i][a].n
               /\ \A j \in 1 .. i : \A b \in 1 .. Len(unread'[r][j]) :
                      j < i \/ b < a => unread'[r][j][b].n < unread'[r][i][a].n
    <3>1. /\ i + 1 \in 1 .. Len(unread[r]) /\ i \in Nat \ {0}
          /\ a \in 1 .. Len(unread[r][i + 1])
          /\ unread'[r][i] = unread[r][i + 1]
      BY SMTT(40), <1>2
    <3>2. /\ After(unread[r][i + 1][a].n, device[r])
          /\ \A j \in 1 .. i + 1 : \A b \in 1 .. Len(unread[r][j]) :
                 j < i + 1 \/ b < a => unread[r][j][b].n < unread[r][i + 1][a].n
      BY <1>8, <3>1 DEF ReaderInOrder
    <3>3. first.n < unread[r][i + 1][a].n
      <4>1. 1 \in 1 .. i + 1 /\ 1 < i + 1
        BY <3>1
      <4> QED
        BY <1>2, <2>0, <3>2, <4>1
    <3>4. ASSUME NEW j \in 1 .. i, NEW b \in 1 .. Len(unread'[r][j]), j < i \/ b < a
          PROVE  unread'[r][j][b].n < unread'[r][i][a].n
      <4>1. j \in 1 .. Len(unread'[r]) /\ j + 1 \in 1 .. i + 1 /\ (j < i => j + 1 < i + 1)
        BY <1>2, <3>1
      <4>2. unread'[r][j] = unread[r][j + 1]
        BY <1>2, <4>1
      <4> QED
        BY <3>1, <3>2, <3>4, <4>1, <4>2
    <3> QED
      BY <3>1, <3>2, <3>3, <3>4
  <2>3. After(held[r].n, device[r])'
    BY <1>1, <1>3, <2>1 DEF After
  <2>4. ASSUME NEW i \in 1 .. Len(unread'[r]), NEW a \in 1 .. Len(unread'[r][i])
        PROVE  After(unread[r][i][a].n, device[r])'
    <3>1. unread'[r][i][a].n = unread[r][i + 1][a].n
      BY <1>2
    <3>2. After(unread[r][i + 1][a].n, device[r])
      BY <2>2
    <3> QED
      BY <1>1, <3>1, <3>2 DEF After
  <2> QED
    BY <1>3, <2>2, <2>3, <2>4 DEF ReaderInOrder
<1>9. OneReaderKeepsOrder'
  <2>1. \A d \in DeviceIds : ChannelInOrder(d)' <=> ChannelInOrder(d)
    BY <1>1 DEF ChannelInOrder
  <2>2. ASSUME NEW s \in Visits, s # r, ReaderInOrder(s) PROVE ReaderInOrder(s)'
    BY <1>1, <1>3, <2>2 DEF ReaderInOrder, After
  <2> QED
    BY <1>0, <1>1, <1>4, <1>8, <2>1, <2>2 DEF OneReaderKeepsOrder
<1> QED
  BY <1>5, <1>6, <1>7, <1>9 DEF Ordered

(* A reader that loses its node loses what it had not read.                *)
LEMMA ReadFailsOrdered ==
    ASSUME OrderInv, NEW r \in Visits, ReadFails(r)
    PROVE  Ordered'
<1>0. TypeOK /\ ReadersStay /\ ClosedAreEmpty /\ WrittenBefore /\ OneActive /\ OneReaderKeepsOrder
  BY DEF OrderInv, Inv, Ordered
<1>1. /\ phase[r] = "reading" /\ ~Live(r)
      /\ phase' = [phase EXCEPT ![r] = "closed"]
      /\ fd' = [fd EXCEPT ![r] = 0]
      /\ unread' = [unread EXCEPT ![r] = <<>>]
      /\ UNCHANGED <<plugs, device, path, node, known_devices, held, ff_rx, written, newest, doubled>>
  BY DEF ReadFails, node_vars, history
<1>2. /\ phase'[r] = "closed" /\ fd'[r] = 0 /\ unread'[r] = <<>> /\ Len(unread'[r]) = 0
      /\ \A s \in Visits : s # r => phase'[s] = phase[s] /\ fd'[s] = fd[s] /\ unread'[s] = unread[s]
  BY <1>0, <1>1 DEF TypeOK
<1>3. ~Active(r)' /\ \A s \in Visits : s # r => (Active(s)' <=> Active(s))
  BY <1>1, <1>2 DEF Active, Live, Present
<1>4. ClosedAreEmpty'
  BY <1>0, <1>2 DEF ClosedAreEmpty, HasOpen
<1>5. WrittenBefore'
  <2>1. ASSUME NEW s \in Visits, NEW i \in 1 .. Len(unread'[s]), NEW a \in 1 .. Len(unread'[s][i])
        PROVE  unread'[s][i][a].n <= written
    BY SMTT(40), <1>0, <1>2, <2>1 DEF WrittenBefore
  <2> QED
    BY <1>0, <1>1, <2>1 DEF WrittenBefore
<1>6. ReadersStay' /\ OneActive'
  <2>1. \A s \in Visits : Spawned(s)' <=> Spawned(s)
    BY <1>1, <1>2 DEF Spawned
  <2> QED
    BY <1>0, <1>1, <1>3, <2>1 DEF ReadersStay, Present, OneActive
<1>7. OneReaderKeepsOrder'
  <2>1. \A d \in DeviceIds : ChannelInOrder(d)' <=> ChannelInOrder(d)
    BY <1>1 DEF ChannelInOrder
  <2>2. ASSUME NEW s \in Visits, s # r, ReaderInOrder(s) PROVE ReaderInOrder(s)'
    BY <1>1, <1>2, <2>2 DEF ReaderInOrder, After
  <2> QED
    BY <1>0, <1>1, <1>3, <2>1, <2>2 DEF OneReaderKeepsOrder
<1> QED
  BY <1>4, <1>5, <1>6, <1>7 DEF Ordered

(* What a reader sends comes after all of its device on its way, and no    *)
(* other reader of that device has anything to tell.                       *)
LEMMA SendOrdered ==
    ASSUME OrderInv, NEW r \in Visits, Send(r)
    PROVE  Ordered'
<1> DEFINE last == [device |-> device[r], event |-> held[r]]
<1>0. TypeOK /\ ReadersStay /\ ClosedAreEmpty /\ WrittenBefore /\ OneActive /\ OneReaderKeepsOrder
  BY DEF OrderInv, Inv, Ordered
<1>1. /\ phase[r] = "sending"
      /\ ff_rx' = Append(ff_rx, last)
      /\ phase' = [phase EXCEPT ![r] = "reading"]
      /\ UNCHANGED <<plugs, device, path, node, known_devices, fd, unread, held, written, newest,
                     doubled>>
  BY DEF Send, node_vars, history
<1>2. /\ Len(ff_rx) \in Nat
      /\ Len(ff_rx') = Len(ff_rx) + 1
      /\ ff_rx'[Len(ff_rx) + 1] = last
      /\ \A i \in 1 .. Len(ff_rx) : ff_rx'[i] = ff_rx[i]
  <2>1. ff_rx \in Seq([device : DeviceIds, event : Events]) /\ last \in [device : DeviceIds, event : Events]
    BY <1>0 DEF TypeOK
  <2> HIDE DEF last
  <2> QED
    BY <1>1, <2>1
<1>3. last.device = device[r] /\ last.event.n = held[r].n /\ held[r].n \in Nat
  BY <1>0, Numbers
<1> HIDE DEF last
<1>4. /\ phase'[r] = "reading"
      /\ \A s \in Visits : s # r => phase'[s] = phase[s]
  BY <1>0, <1>1 DEF TypeOK
<1>5. \A i \in 1 .. Len(ff_rx') : \/ i \in 1 .. Len(ff_rx) /\ ff_rx'[i] = ff_rx[i]
                                  \/ i = Len(ff_rx) + 1 /\ ff_rx'[i] = last
  BY <1>2
<1>6. Active(r) /\ \A s \in Visits : Active(s)' => Active(s)
  <2>1. Active(r)
    BY <1>1 DEF Active
  <2>2. ASSUME NEW s \in Visits, s # r, Active(s)' PROVE Active(s)
    BY <1>1, <1>4, <2>2 DEF Active, Live, Present
  <2> QED
    BY <2>1, <2>2
<1>7. ClosedAreEmpty'
  BY <1>0, <1>1, <1>4 DEF ClosedAreEmpty, HasOpen
<1>8. WrittenBefore'
  <2>1. \A i \in 1 .. Len(ff_rx') : ff_rx'[i].event.n <= written
    BY <1>0, <1>3, <1>5 DEF WrittenBefore
  <2> QED
    BY <1>0, <1>1, <2>1 DEF WrittenBefore
<1>9. ReadersStay' /\ OneActive'
  <2>1. \A s \in Visits : Spawned(s)' <=> Spawned(s)
    BY <1>1, <1>4 DEF Spawned
  <2> QED
    BY <1>0, <1>1, <1>6, <2>1 DEF ReadersStay, Present, OneActive
<1>10. ASSUME NEW n, NEW d, After(n, d), d = device[r] => held[r].n < n PROVE After(n, d)'
  <2>1. \A i \in 1 .. Len(ff_rx') : ff_rx'[i].device = d => ff_rx'[i].event.n < n
    BY <1>3, <1>5, <1>10 DEF After
  <2> QED
    BY <1>1, <1>10, <2>1 DEF After
<1>11. ASSUME NEW d \in DeviceIds \ doubled PROVE ChannelInOrder(d)'
  <2>1. ChannelInOrder(d)
    BY <1>0 DEF OneReaderKeepsOrder
  <2>2. d = device[r] => After(held[r].n, d)
    BY <1>0, <1>1, <1>6 DEF OneReaderKeepsOrder, ReaderInOrder
  <2> SUFFICES ASSUME NEW j \in 1 .. Len(ff_rx'), ff_rx'[j].device = d
               PROVE  /\ newest[d].n < ff_rx'[j].event.n
                      /\ \A i \in 1 .. j - 1 : ff_rx'[i].device = d => ff_rx'[i].event.n < ff_rx'[j].event.n
    BY <1>1 DEF ChannelInOrder
  <2>3. \A i \in 1 .. j - 1 : i \in 1 .. Len(ff_rx) /\ ff_rx'[i] = ff_rx[i]
    BY <1>2
  <2>4. CASE j \in 1 .. Len(ff_rx) /\ ff_rx'[j] = ff_rx[j]
    BY <2>1, <2>3, <2>4 DEF ChannelInOrder
  <2>5. CASE j = Len(ff_rx) + 1 /\ ff_rx'[j] = last
    BY <1>3, <2>2, <2>3, <2>5 DEF After
  <2> QED
    BY <1>5, <2>4, <2>5
<1>12. ASSUME NEW s \in Visits, Active(s)', device[s] \notin doubled PROVE ReaderInOrder(s)'
  <2>0. device[s] \in DeviceIds
    BY <1>0 DEF TypeOK
  <2>1. ReaderInOrder(s)
    BY <1>0, <1>6, <1>12, <2>0 DEF OneReaderKeepsOrder
  <2>2. device[s] = device[r] => s = r
    BY <1>0, <1>6, <1>12 DEF OneActive
  <2>3. ASSUME phase'[s] = "sending" PROVE s # r /\ After(held[s].n, device[s])'
    <3> DEFINE n == held[s].n
    <3>1. s # r /\ phase[s] = "sending" /\ held'[s] = held[s] /\ device'[s] = device[s]
      BY <1>1, <1>4, <2>3
    <3>2. After(n, device[s])
      BY <2>1, <3>1 DEF ReaderInOrder
    <3>3. /\ newest'[device[s]].n < n
          /\ \A i \in 1 .. Len(ff_rx') : ff_rx'[i].device = device[s] => ff_rx'[i].event.n < n
      BY <1>10, <2>2, <3>1, <3>2 DEF After
    <3> QED
      BY <3>1, <3>3 DEF After
  <2>4. ASSUME NEW i \in 1 .. Len(unread[s]), NEW a \in 1 .. Len(unread[s][i])
        PROVE  After(unread[s][i][a].n, device[s])'
    <3> DEFINE n == unread[s][i][a].n
    <3>1. After(n, device[s]) /\ (s = r => held[r].n < n)
      BY <1>1, <2>1 DEF ReaderInOrder
    <3>2. unread'[s][i][a].n = n /\ device'[s] = device[s]
      BY <1>1
    <3> HIDE DEF n
    <3>3. /\ newest'[device[s]].n < n
          /\ \A j \in 1 .. Len(ff_rx') : ff_rx'[j].device = device[s] => ff_rx'[j].event.n < n
      BY <1>10, <2>2, <3>1 DEF After
    <3> QED
      BY <3>2, <3>3 DEF After
  <2>5. phase'[s] = "sending" => phase[s] = "sending"
    BY <1>1, <1>4
  <2> QED
    BY <1>1, <2>1, <2>3, <2>4, <2>5 DEF ReaderInOrder
<1>13. OneReaderKeepsOrder'
  BY <1>1, <1>11, <1>12 DEF OneReaderKeepsOrder
<1> QED
  BY <1>7, <1>8, <1>9, <1>13 DEF Ordered

LEMMA NextOrdered == OrderInv /\ [ReadersNext]_vars => Ordered'
<1> SUFFICES ASSUME OrderInv, [ReadersNext]_vars PROVE Ordered'
  OBVIOUS
<1>1. CASE UNCHANGED vars
  <2>1. /\ \A r \in Visits : /\ Active(r)' <=> Active(r)
                             /\ HasOpen(r)' <=> HasOpen(r)
        /\ ReadersStay' <=> ReadersStay
    BY <1>1 DEF vars, Active, HasOpen, Live, Present, ReadersStay, Spawned
  <2> QED
    BY <1>1, <2>1, NothingMoves DEF vars, Ordered, OrderInv
<1>2. ASSUME NEW r \in Visits, ReaderStep(r) PROVE Ordered'
  BY <1>2, OpenOrdered, NextFfEventOrdered, ReadFailsOrdered, SendOrdered DEF ReaderStep
<1>3. ASSUME NEW d \in DeviceIds, NEW p \in Paths, Plug(d, p) PROVE Ordered'
  BY <1>3, PlugOrdered
<1>4. ASSUME NEW p \in Paths, Unplug(p) PROVE Ordered'
  BY <1>4, UnplugOrdered
<1>5. ASSUME NEW v \in Visits, NEW block \in Blocks, Write(v, block) PROVE Ordered'
  BY <1>5, WriteOrdered
<1>6. ASSUME NEW listed \in SUBSET Plugged, rescan_devices(listed) PROVE Ordered'
  BY <1>6, RescanOrdered
<1>7. CASE Receive
  BY <1>7, ReceiveOrdered
<1> QED
  BY <1>1, <1>2, <1>3, <1>4, <1>5, <1>6, <1>7 DEF ReadersNext

-----------------------------------------------------------------------------
(* Every variable of the readers, the devices and the channel keeps its type; *)
(* in particular the channel never holds more than its size.               *)
THEOREM TypeCorrect == ReadersSpec => []TypeOK
<1>1. ReadersInit => TypeOK
  BY InitType
<1>2. TypeOK /\ [ReadersNext]_vars => TypeOK'
  BY NextType
<1> QED
  BY <1>1, <1>2, PTL DEF ReadersSpec

(* A full rescan leaves no plugged device without a reader for its id at   *)
(* its path (app.rs:56-75), however devices came, went and moved.          *)
THEOREM RescanComplete == ReadersSpec => []RescanFindsAll
<1>1. ReadersInit => Inv
  BY InitType, InitFound DEF Inv
<1>2. Inv /\ [ReadersNext]_vars => Inv'
  BY NextType, NextFound DEF Inv
<1>3. Inv => RescanFindsAll
  <2> SUFFICES ASSUME Inv, fresh, NEW v \in Visits, Present(v)
               PROVE  /\ known_devices[device[v]] = path[v]
                      /\ \E r \in Visits : Spawned(r) /\ device[r] = device[v] /\ path[r] = path[v]
    BY DEF RescanFindsAll
  <2>1. known_devices[device[v]] = path[v]
    BY DEF Inv, Found, FreshAreKnown
  <2>2. path[v] # NONE /\ device[v] \in DeviceIds
    BY ReadersAssumption DEF Inv, TypeOK
  <2> QED
    BY <2>1, <2>2 DEF Inv, Found, KnownHaveReaders
<1> QED
  BY <1>1, <1>2, <1>3, PTL DEF ReadersSpec

(* While a device has had one reader at a time, main gets its events once  *)
(* each and in the order the game wrote them (app.rs:197-236), whatever    *)
(* was plugged, unplugged or reopened meanwhile and however long a full    *)
(* channel made the reader wait.                                           *)
THEOREM OrderKept == ReadersSpec => []OneReaderKeepsOrder
<1>1. ReadersInit => OrderInv
  BY InitType, InitFound, InitOrdered DEF OrderInv, Inv
<1>2. OrderInv /\ [ReadersNext]_vars => OrderInv'
  BY NextType, NextFound, NextOrdered DEF OrderInv, Inv
<1>3. OrderInv => OneReaderKeepsOrder
  BY DEF OrderInv, Ordered
<1> QED
  BY <1>1, <1>2, <1>3, PTL DEF ReadersSpec
=============================================================================
