---------------------------- MODULE PlayRequests ----------------------------
(***************************************************************************)
(* What app.rs promises about Play requests, without tgids, handlers,      *)
(* awaits or a throttle clock.                                             *)
(*                                                                         *)
(* A device has at most one open request.  A request is open until it is   *)
(* superseded by a newer Play or a Stop of the device, cleared by an erase *)
(* of its effect, or settled, which closes it for good: by starting the    *)
(* effect known under its id, or by dropping it.  So a Play starts at most *)
(* one sequence, with the effect known at that moment.  A request whose    *)
(* effect is known is due, and no event is handled while one is due.       *)
(***************************************************************************)
CONSTANTS EffectIds, DeviceIds, Bodies, NONE

VARIABLES known,      \* effect id -> the effect known under it, or NONE
          request,    \* device -> the effect id of its open request, or NONE
          starting    \* <<device, effect>> being started, or <<>>

vars == <<known, request, starting>>

Effects == [id : EffectIds, body : Bodies]

Init ==
    /\ known = [id \in EffectIds |-> NONE]
    /\ request = [d \in DeviceIds |-> NONE]
    /\ starting = <<>>

Due(d) == request[d] # NONE /\ known[request[d]] # NONE

Quiet == starting = <<>> /\ \A d \in DeviceIds : ~Due(d)

Upload(e) ==
    /\ Quiet
    /\ known' = [known EXCEPT ![e.id] = e]
    /\ UNCHANGED <<request, starting>>

Erase(id) ==
    /\ Quiet
    /\ known' = [known EXCEPT ![id] = NONE]
    /\ request' = [d \in DeviceIds |-> IF request[d] = id THEN NONE ELSE request[d]]
    /\ UNCHANGED starting

(* A Stop forgets the effect as well. *)
Stop(d, id) ==
    /\ Quiet
    /\ known' = [known EXCEPT ![id] = NONE]
    /\ request' = [request EXCEPT ![d] = NONE]
    /\ UNCHANGED starting

(* A Play of an unknown effect opens a request in place of an older one. *)
Hold(d, id) ==
    /\ Quiet
    /\ known[id] = NONE
    /\ request' = [request EXCEPT ![d] = id]
    /\ UNCHANGED <<known, starting>>

(* A Play of a known effect is settled at once and closes an older one. *)
PlayNow(d, id) ==
    /\ Quiet
    /\ known[id] # NONE
    /\ request' = [request EXCEPT ![d] = NONE]
    /\ starting' \in {<<>>, <<d, known[id]>>}
    /\ UNCHANGED known

Settle(d) ==
    /\ starting = <<>>
    /\ Due(d)
    /\ request' = [request EXCEPT ![d] = NONE]
    /\ starting' \in {<<>>, <<d, known[request[d]]>>}
    /\ UNCHANGED known

Started ==
    /\ starting # <<>>
    /\ starting' = <<>>
    /\ UNCHANGED <<known, request>>

Next ==
    \/ \E e \in Effects : Upload(e)
    \/ \E id \in EffectIds : Erase(id)
    \/ \E d \in DeviceIds, id \in EffectIds : Stop(d, id) \/ Hold(d, id) \/ PlayNow(d, id)
    \/ \E d \in DeviceIds : Settle(d)
    \/ Started

Spec == Init /\ [][Next]_vars
=============================================================================
