------------------------------ MODULE Readers ------------------------------
(***************************************************************************)
(* How Play and Stop events reach main: the blocking readers App spawns    *)
(* for the force-feedback devices (app.rs), next_ff_event (device.rs), the *)
(* periodic rescan, and devices that are unplugged and come back.          *)
(*                                                                         *)
(* Each plugging of a device is a visit, numbered; a device node exists    *)
(* for the length of a visit.  A visit makes rescan_devices spawn at most  *)
(* one reader, which gets the visit's number, and keeps the device id and  *)
(* path of that visit for good.                                            *)
(*                                                                         *)
(* A game's writes reach every open file of the node.  The kernel hands    *)
(* them on in blocks (up to a SYN_REPORT); of a block next_ff_event        *)
(* returns the first FF event, and the evdev crate lets go of the rest.    *)
(* Opening a path without a node fails and is retried after a backoff:     *)
(* a reader that waits is "closed" and may wake at any moment.             *)
(*                                                                         *)
(* Start-up lists the devices and spawns their readers as the first rescan *)
(* would.  No two plugged devices have the same id.                        *)
(***************************************************************************)
EXTENDS Naturals, Sequences

CONSTANTS
    DeviceIds, Paths, NONE,
    Blocks,         \* what a game may write before the kernel syncs: sequences of ops
    ChannelSize,
    MaxPlugs,       \* bound: visits in a behaviour
    MaxWrites       \* bound: events written in a behaviour

PlayOps == {"play", "stop"}

ASSUME ReadersAssumption ==
    /\ DeviceIds # {} /\ Paths # {}
    /\ NONE \notin Paths
    /\ Blocks \subseteq Seq(PlayOps) \ {<<>>}
    /\ ChannelSize \in Nat \ {0}
    /\ MaxPlugs \in Nat /\ MaxWrites \in Nat

Visits == 1 .. MaxPlugs

VARIABLES
    plugs,          \* visits so far
    device, path,   \* of each visit, and of the reader spawned in it
    node,           \* path -> the visit whose node is there, or 0
    known_devices,  \* device -> path of its last reader, or NONE
    phase,          \* reader -> what it does
    fd,             \* reader -> the visit whose node it has open, or 0
    unread,         \* reader -> blocks its open file has for it
    held,           \* reader -> the event it is sending
    ff_rx,          \* the channel to main
    fresh,          \* history: nothing was plugged or unplugged since a rescan
                    \* that listed all there was
    written,        \* history: events written so far, which number them
    newest,         \* history: device -> the last written of the events main received for it
    doubled         \* history: devices that had two readers at once

node_vars   == <<plugs, device, path, node>>
reader_vars == <<phase, fd, unread, held>>
history     == <<newest, doubled>>
vars == <<plugs, device, path, node, known_devices, phase, fd, unread, held, ff_rx,
          fresh, written, newest, doubled>>

Events  == [n : 0 .. MaxWrites, op : PlayOps, on : DeviceIds]
NoEvent == [n |-> 0, op |-> "stop", on |-> CHOOSE d \in DeviceIds : TRUE]

Present(v)  == v <= plugs /\ node[path[v]] = v
Plugged     == {v \in Visits : Present(v)}
Live(r)     == fd[r] # 0 /\ Present(fd[r])
Spawned(r)  == phase[r] # "unborn"
HasOpen(r)  == phase[r] \in {"reading", "sending"}

(* The reader still has something to tell main. *)
Active(r)   == phase[r] = "sending" \/ (phase[r] = "reading" /\ Live(r))

ReadersInit ==
    /\ plugs = 0
    /\ device = [v \in Visits |-> CHOOSE d \in DeviceIds : TRUE]
    /\ path = [v \in Visits |-> CHOOSE p \in Paths : TRUE]
    /\ node = [p \in Paths |-> 0]
    /\ known_devices = [d \in DeviceIds |-> NONE]
    /\ phase = [r \in Visits |-> "unborn"]
    /\ fd = [r \in Visits |-> 0]
    /\ unread = [r \in Visits |-> <<>>]
    /\ held = [r \in Visits |-> NoEvent]
    /\ ff_rx = <<>>
    /\ fresh = FALSE
    /\ written = 0
    /\ newest = [d \in DeviceIds |-> NoEvent]
    /\ doubled = {}

-----------------------------------------------------------------------------
(* The devices and the games (external). *)

Plug(d, p) ==
    /\ plugs < MaxPlugs
    /\ node[p] = 0
    /\ \A v \in Visits : Present(v) => device[v] # d
    /\ plugs' = plugs + 1
    /\ device' = [device EXCEPT ![plugs'] = d]
    /\ path' = [path EXCEPT ![plugs'] = p]
    /\ node' = [node EXCEPT ![p] = plugs']
    /\ fresh' = FALSE
    /\ UNCHANGED <<known_devices, reader_vars, ff_rx, written, history>>

Unplug(p) ==
    /\ node[p] # 0
    /\ node' = [node EXCEPT ![p] = 0]
    /\ fresh' = FALSE
    /\ UNCHANGED <<plugs, device, path, known_devices, reader_vars, ff_rx, written, history>>

Write(v, block) ==
    /\ Present(v)
    /\ written + Len(block) <= MaxWrites
    /\ written' = written + Len(block)
    /\ LET events == [i \in 1 .. Len(block) |->
                        [n |-> written + i, op |-> block[i], on |-> device[v]]]
       IN  unread' = [r \in Visits |-> IF fd[r] = v THEN Append(unread[r], events) ELSE unread[r]]
    /\ UNCHANGED <<node_vars, known_devices, phase, fd, held, ff_rx, fresh, history>>

-----------------------------------------------------------------------------
(* main's task. *)

(* Mutant: a device once known is left to its reader, wherever it comes back. *)
RescanUnknownOnly(listed) ==
    LET new == {v \in listed : known_devices[device[v]] = NONE}
    IN  /\ phase' = [r \in Visits |-> IF r \in new THEN "closed" ELSE phase[r]]
        /\ known_devices' = [d \in DeviceIds |->
               IF \E v \in new : device[v] = d
               THEN path[CHOOSE v \in new : device[v] = d] ELSE known_devices[d]]
        /\ fresh' = (fresh \/ listed = Plugged)
        /\ UNCHANGED <<node_vars, fd, unread, held, ff_rx, written, history>>

(* A node that cannot be opened is not listed. *)
rescan_devices(listed) ==
    LET new == {v \in listed : known_devices[device[v]] # path[v]}
    IN  /\ phase' = [r \in Visits |-> IF r \in new THEN "closed" ELSE phase[r]]
        /\ known_devices' = [d \in DeviceIds |->
               IF \E v \in new : device[v] = d
               THEN path[CHOOSE v \in new : device[v] = d] ELSE known_devices[d]]
        /\ fresh' = (fresh \/ listed = Plugged)
        /\ UNCHANGED <<node_vars, fd, unread, held, ff_rx, written, history>>

(* App is called with the id of the reader, whatever the reader read. *)
Receive ==
    /\ ff_rx # <<>>
    /\ ff_rx' = Tail(ff_rx)
    /\ LET d == Head(ff_rx).device
           e == Head(ff_rx).event
       IN  newest' = [newest EXCEPT ![d] = IF e.n > @.n THEN e ELSE @]
    /\ UNCHANGED <<node_vars, known_devices, reader_vars, fresh, written, doubled>>

-----------------------------------------------------------------------------
(* The loop of a reader. *)

Open(r) ==
    /\ phase[r] = "closed"
    /\ node[path[r]] # 0
    /\ phase' = [phase EXCEPT ![r] = "reading"]
    /\ fd' = [fd EXCEPT ![r] = node[path[r]]]
    /\ doubled' = IF \E s \in Visits \ {r} : device[s] = device[r] /\ Active(s)
                  THEN doubled \union {device[r]} ELSE doubled
    /\ UNCHANGED <<node_vars, known_devices, unread, held, ff_rx, fresh, written, newest>>

NextFfEvent(r) ==
    /\ phase[r] = "reading"
    /\ Live(r)
    /\ unread[r] # <<>>
    /\ held' = [held EXCEPT ![r] = Head(Head(unread[r]))]
    /\ unread' = [unread EXCEPT ![r] = Tail(@)]
    /\ phase' = [phase EXCEPT ![r] = "sending"]
    /\ UNCHANGED <<node_vars, known_devices, fd, ff_rx, fresh, written, history>>

(* Mutant: a reader whose device has gone ends. *)
ReadFailsForGood(r) ==
    /\ phase[r] = "reading"
    /\ ~Live(r)
    /\ phase' = [phase EXCEPT ![r] = "unborn"]
    /\ fd' = [fd EXCEPT ![r] = 0]
    /\ unread' = [unread EXCEPT ![r] = <<>>]
    /\ UNCHANGED <<node_vars, known_devices, held, ff_rx, fresh, written, history>>

(* The node is gone, and with it what was not read from it. *)
ReadFails(r) ==
    /\ phase[r] = "reading"
    /\ ~Live(r)
    /\ phase' = [phase EXCEPT ![r] = "closed"]
    /\ fd' = [fd EXCEPT ![r] = 0]
    /\ unread' = [unread EXCEPT ![r] = <<>>]
    /\ UNCHANGED <<node_vars, known_devices, held, ff_rx, fresh, written, history>>

(* Mutant: one event more than the channel holds. *)
SendPastEnd(r) ==
    /\ phase[r] = "sending"
    /\ Len(ff_rx) <= ChannelSize
    /\ ff_rx' = Append(ff_rx, [device |-> device[r], event |-> held[r]])
    /\ phase' = [phase EXCEPT ![r] = "reading"]
    /\ UNCHANGED <<node_vars, known_devices, fd, unread, held, fresh, written, history>>

(* Mutant: with the channel full, the event is put back and tried again    *)
(* after those read since.                                                 *)
SendOrPutBack(r) ==
    /\ phase[r] = "sending"
    /\ phase' = [phase EXCEPT ![r] = "reading"]
    /\ IF Len(ff_rx) < ChannelSize
       THEN /\ ff_rx' = Append(ff_rx, [device |-> device[r], event |-> held[r]])
            /\ UNCHANGED unread
       ELSE /\ unread' = [unread EXCEPT ![r] = Append(@, <<held[r]>>)]
            /\ UNCHANGED ff_rx
    /\ UNCHANGED <<node_vars, known_devices, fd, held, fresh, written, history>>

(* blocking_send waits for room. *)
Send(r) ==
    /\ phase[r] = "sending"
    /\ Len(ff_rx) < ChannelSize
    /\ ff_rx' = Append(ff_rx, [device |-> device[r], event |-> held[r]])
    /\ phase' = [phase EXCEPT ![r] = "reading"]
    /\ UNCHANGED <<node_vars, known_devices, fd, unread, held, fresh, written, history>>

ReaderStep(r) == Open(r) \/ NextFfEvent(r) \/ ReadFails(r) \/ Send(r)

ReadersNext ==
    \/ \E d \in DeviceIds, p \in Paths : Plug(d, p)
    \/ \E p \in Paths : Unplug(p)
    \/ \E v \in Visits, block \in Blocks : Write(v, block)
    \/ \E listed \in SUBSET Plugged : rescan_devices(listed)
    \/ Receive
    \/ \E r \in Visits : ReaderStep(r)

ReadersSpec == ReadersInit /\ [][ReadersNext]_vars

(* Fairness: the interval ticks and lists what is there, main takes what   *)
(* is sent to it, and each reader has a thread of its own, whose backoff   *)
(* ends.                                                                   *)
ReadersFairSpec ==
    /\ ReadersSpec
    /\ WF_vars(rescan_devices(Plugged))
    /\ WF_vars(Receive)
    /\ \A r \in Visits : WF_vars(ReaderStep(r))

-----------------------------------------------------------------------------
(* Properties. *)

TypeOK ==
    /\ plugs \in 0 .. MaxPlugs
    /\ device \in [Visits -> DeviceIds]
    /\ path \in [Visits -> Paths]
    /\ node \in [Paths -> 0 .. plugs]
    /\ known_devices \in [DeviceIds -> Paths \union {NONE}]
    /\ phase \in [Visits -> {"unborn", "closed", "reading", "sending"}]
    /\ fd \in [Visits -> 0 .. plugs]
    /\ unread \in [Visits -> Seq(Seq(Events) \ {<<>>})]
    /\ held \in [Visits -> Events]
    /\ ff_rx \in Seq([device : DeviceIds, event : Events])
    /\ Len(ff_rx) <= ChannelSize
    /\ fresh \in BOOLEAN
    /\ written \in 0 .. MaxWrites
    /\ newest \in [DeviceIds -> Events]
    /\ doubled \subseteq DeviceIds

(* After a rescan each plugged device has a reader for its id at its path, *)
(* whether it is new, moved or came back where it was: the comparison with *)
(* the remembered path (app.rs:61-64) misses none.                         *)
RescanFindsAll ==
    fresh => \A v \in Visits : Present(v) =>
        /\ known_devices[device[v]] = path[v]
        /\ \E r \in Visits : Spawned(r) /\ device[r] = device[v] /\ path[r] = path[v]

(* An event numbered n comes after all that main has had, or is about to   *)
(* get from the channel, for device d.                                     *)
After(n, d) ==
    /\ newest[d].n < n
    /\ \A i \in 1 .. Len(ff_rx) : ff_rx[i].device = d => ff_rx[i].event.n < n

ChannelInOrder(d) ==
    \A j \in 1 .. Len(ff_rx) : ff_rx[j].device = d =>
        /\ newest[d].n < ff_rx[j].event.n
        /\ \A i \in 1 .. j - 1 : ff_rx[i].device = d => ff_rx[i].event.n < ff_rx[j].event.n

(* What reader r carries, the event it is sending before what is unread,   *)
(* is in order and comes after all that is on its way.                     *)
ReaderInOrder(r) ==
    /\ phase[r] = "sending" => After(held[r].n, device[r])
    /\ \A i \in 1 .. Len(unread[r]) : \A a \in 1 .. Len(unread[r][i]) :
           /\ After(unread[r][i][a].n, device[r])
           /\ phase[r] = "sending" => held[r].n < unread[r][i][a].n
           /\ \A j \in 1 .. i : \A b \in 1 .. Len(unread[r][j]) :
                  j < i \/ b < a => unread[r][j][b].n < unread[r][i][a].n

(* While a device has been read by one reader at a time, its events reach  *)
(* main once each and in the order they were written, across lost nodes,   *)
(* a full channel and a reader that reopens.                               *)
OneReaderKeepsOrder ==
    \A d \in DeviceIds \ doubled :
        /\ ChannelInOrder(d)
        /\ \A r \in Visits : device[r] = d /\ Active(r) => ReaderInOrder(r)

(* A device that stays plugged is read under its id in the end, for good.  *)
DevicesAreRead ==
    \A v \in Visits :
        <>[]Present(v) =>
            <>[](\E r \in Visits : device[r] = device[v] /\ HasOpen(r) /\ fd[r] = v)

-----------------------------------------------------------------------------
(* Claims of the repository the code does not keep. *)

(* "any Stop App processes is guaranteed to have been written *after* any  *)
(* Play it already processed for that device"                              *)
(* (docs/superpowers/specs/2026-07-07-ff-play-upload-race-design.md:120-121). *)
StopFollowsItsPlays ==
    [][\A d \in DeviceIds :
            ff_rx # <<>> /\ ff_rx' = Tail(ff_rx)
                /\ Head(ff_rx).device = d /\ Head(ff_rx).event.op = "stop"
            => ~(newest[d].op = "play" /\ newest[d].n > Head(ff_rx).event.n)]_vars

(* "a gesture on device A never produces a command attributed to device    *)
(* B's mapping"                                                            *)
(* (docs/superpowers/specs/2026-07-05-e2e-vm-harness-design.md:110-111).   *)
NoCrossTalk ==
    \A i \in 1 .. Len(ff_rx) : ff_rx[i].event.on = ff_rx[i].device
=============================================================================
