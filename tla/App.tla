-------------------------------- MODULE App --------------------------------
(***************************************************************************)
(* app.rs: the event handlers of the daemon.  main's select loop calls one *)
(* handler at a time and awaits it, so between the first and the last      *)
(* await of a handler no other handler runs; time passes, though, and the  *)
(* playback call in flight (`call`) may take as long as it likes.          *)
(*                                                                         *)
(* An FfEffect is its id and a `body` that stands for everything           *)
(* translate() reads; the bodies for which translate() returns no points   *)
(* (an effect kind it does not know) are Silent.                           *)
(*                                                                         *)
(* `wanted` and `latest` are history: what the event streams last said of  *)
(* a device and of an effect id.  No action reads them.                    *)
(***************************************************************************)
EXTENDS Throttle

CONSTANTS Tgids, EffectIds, DeviceIds, Bodies, Silent, NONE

ASSUME AppAssumption ==
    /\ Silent \subseteq Bodies
    /\ NONE \notin EffectIds \union DeviceIds
    /\ NONE \notin [id : EffectIds, body : Bodies]

VARIABLES
    effect_store,    \* (tgid, effect id) -> the effect, NONE where there is no entry
    pending_plays,   \* device -> the effect id its held Play waits for, or NONE
    resolving,       \* <<device, effect>> the upload being handled still has to process
    call,            \* the PlaybackOps call being awaited; of a stop, playback is told
                     \* the device only, `effect` is history: the effect id stopped
    exited,          \* main has returned
    wanted,          \* history: effect id of the device's last Play, NONE after a Stop
                     \* of the device or an erase of the effect
    latest           \* history: last effect uploaded under an id, NONE once erased

store_vars == <<effect_store, pending_plays>>
history    == <<wanted, latest>>
vars == <<elapsed, effect_store, pending_plays, resolving, call, exited,
          wanted, latest>>

FfEffects == [id : EffectIds, body : Bodies]
Keys      == Tgids \X EffectIds

NoCall == [op |-> "none", device |-> NONE, effect |-> NONE]

Calls == {NoCall, [op |-> "stop_all", device |-> NONE, effect |-> NONE]}
            \union [op : {"stop"}, device : DeviceIds, effect : EffectIds]
            \union [op : {"schedule_sequence"}, device : DeviceIds, effect : FfEffects]

(* Mutant: an upload hands its plays to a task and does not wait for it. *)
SelectingWhileResolving == call = NoCall /\ ~exited

(* The select loop is between handlers. *)
Selecting == call = NoCall /\ resolving = {} /\ ~exited

AppInit ==
    /\ ThrottleNew
    /\ effect_store = [k \in Keys |-> NONE]
    /\ pending_plays = [d \in DeviceIds |-> NONE]
    /\ resolving = {}
    /\ call = NoCall
    /\ exited = FALSE
    /\ wanted = [d \in DeviceIds |-> NONE]
    /\ latest = [id \in EffectIds |-> NONE]

-----------------------------------------------------------------------------
(* Helpers on the two maps, named as in the source. *)

purge_effect_id(store, id) ==
    [k \in Keys |-> IF k[2] = id THEN NONE ELSE store[k]]

(* Mutant: another process's entry for the id survives. *)
UpsertWithoutPurge(store, tgid, effect) == [store EXCEPT ![<<tgid, effect.id>>] = effect]

upsert_effect(store, tgid, effect) ==
    [purge_effect_id(store, effect.id) EXCEPT ![<<tgid, effect.id>>] = effect]

insert_pending(pending, device, id) == [pending EXCEPT ![device] = id]

take_pending_for_device(pending, device) == [pending EXCEPT ![device] = NONE]

matching(pending, id) == {d \in DeviceIds : pending[d] = id}

take_all_pending_matching_effect(pending, id) ==
    [d \in DeviceIds |-> IF d \in matching(pending, id) THEN NONE ELSE pending[d]]

(* Every effect the linear search of a Play may come upon. *)
found(store, id) == {store[k] : k \in {j \in Keys : store[j] # NONE /\ store[j].id = id}}

(* Up to its await: the throttle, then the translation, decide whether the *)
(* sequence is handed to playback; a play that fails either is dropped.    *)
process_play(device, effect) ==
    call' = IF should_emit_haptic /\ effect.body \notin Silent
            THEN [op |-> "schedule_sequence", device |-> device, effect |-> effect]
            ELSE NoCall

-----------------------------------------------------------------------------
(* The handlers.  A handler that awaits inside a loop (the resolution of   *)
(* the pending plays of an upload) is one action per iteration.            *)

handle_effect_uploaded(tgid, effect) ==
    /\ Selecting
    /\ effect_store' = upsert_effect(effect_store, tgid, effect)
    /\ resolving' = matching(pending_plays, effect.id) \X {effect}
    /\ pending_plays' = take_all_pending_matching_effect(pending_plays, effect.id)
    /\ latest' = [latest EXCEPT ![effect.id] = effect]
    /\ UNCHANGED <<elapsed, call, exited, wanted>>

(* Mutant: a play is retried until the throttle lets it through. *)
ResolveUntilPlayed ==
    \E play \in resolving :
        /\ call = NoCall
        /\ resolving' = IF should_emit_haptic THEN resolving \ {play} ELSE resolving
        /\ process_play(play[1], play[2])
        /\ UNCHANGED <<elapsed, store_vars, exited, history>>

(* The taken plays are processed in the order of a HashMap's iterator. *)
ResolvePending ==
    \E play \in resolving :
        /\ call = NoCall
        /\ resolving' = resolving \ {play}
        /\ process_play(play[1], play[2])
        /\ UNCHANGED <<elapsed, store_vars, exited, history>>

(* Mutant: the plays that wait for the erased effect go on waiting. *)
EraseKeepsPending(id) ==
    /\ Selecting
    /\ effect_store' = purge_effect_id(effect_store, id)
    /\ latest' = [latest EXCEPT ![id] = NONE]
    /\ wanted' = [d \in DeviceIds |-> IF wanted[d] = id THEN NONE ELSE wanted[d]]
    /\ UNCHANGED <<elapsed, pending_plays, resolving, call, exited>>

handle_effect_erased(id) ==
    /\ Selecting
    /\ effect_store' = purge_effect_id(effect_store, id)
    /\ pending_plays' = take_all_pending_matching_effect(pending_plays, id)
    /\ latest' = [latest EXCEPT ![id] = NONE]
    /\ wanted' = [d \in DeviceIds |-> IF wanted[d] = id THEN NONE ELSE wanted[d]]
    /\ UNCHANGED <<elapsed, resolving, call, exited>>

(* Mutant: the Stop forgets the effect its device was last asked to play,  *)
(* not the one it names.                                                   *)
StopForgetsLastPlayed(device, id) ==
    /\ Selecting
    /\ effect_store' = purge_effect_id(effect_store, wanted[device])
    /\ pending_plays' = take_pending_for_device(pending_plays, device)
    /\ call' = [op |-> "stop", device |-> device, effect |-> id]
    /\ wanted' = [wanted EXCEPT ![device] = NONE]
    /\ UNCHANGED <<elapsed, resolving, exited, latest>>

(* Mutant: the device's held Play survives its Stop. *)
StopKeepsPending(device, id) ==
    /\ Selecting
    /\ effect_store' = purge_effect_id(effect_store, id)
    /\ call' = [op |-> "stop", device |-> device, effect |-> id]
    /\ wanted' = [wanted EXCEPT ![device] = NONE]
    /\ UNCHANGED <<elapsed, pending_plays, resolving, exited, latest>>

handle_ff_event_stop(device, id) ==
    /\ Selecting
    /\ effect_store' = purge_effect_id(effect_store, id)
    /\ pending_plays' = take_pending_for_device(pending_plays, device)
    /\ call' = [op |-> "stop", device |-> device, effect |-> id]
    /\ wanted' = [wanted EXCEPT ![device] = NONE]
    /\ UNCHANGED <<elapsed, resolving, exited, latest>>

(* Mutant: a Play that can be played leaves an older one held. *)
PlayKnownKeepsPending(device, id) ==
    \E effect \in found(effect_store, id) :
        /\ process_play(device, effect)
        /\ UNCHANGED pending_plays

PlayKnown(device, id) ==
    \E effect \in found(effect_store, id) :
        /\ pending_plays' = take_pending_for_device(pending_plays, device)
        /\ process_play(device, effect)

PlayUnknown(device, id) ==
    /\ found(effect_store, id) = {}
    /\ pending_plays' = insert_pending(pending_plays, device, id)
    /\ UNCHANGED call

handle_ff_event_play(device, id) ==
    /\ Selecting
    /\ PlayKnown(device, id) \/ PlayUnknown(device, id)
    /\ wanted' = [wanted EXCEPT ![device] = id]
    /\ UNCHANGED <<elapsed, effect_store, resolving, exited, latest>>

(* SIGTERM or ctrl-c, taken by the select loop. *)
stop_all ==
    /\ Selecting
    /\ call' = [op |-> "stop_all", device |-> NONE, effect |-> NONE]
    /\ UNCHANGED <<elapsed, store_vars, resolving, exited, history>>

-----------------------------------------------------------------------------
(* The returns of the playback calls, and time. *)

ScheduleReturns ==
    /\ call.op = "schedule_sequence"
    /\ record_haptic_emitted
    /\ call' = NoCall
    /\ UNCHANGED <<store_vars, resolving, exited, history>>

StopReturns ==
    /\ call.op = "stop"
    /\ call' = NoCall
    /\ UNCHANGED <<elapsed, store_vars, resolving, exited, history>>

StopAllReturns ==
    /\ call.op = "stop_all"
    /\ call' = NoCall
    /\ exited' = TRUE
    /\ UNCHANGED <<elapsed, store_vars, resolving, history>>

Tick ==
    /\ ~exited
    /\ Elapse
    /\ UNCHANGED <<store_vars, resolving, call, exited, history>>

(* What the daemon does by itself once a handler has begun. *)
Awaiting ==
    \/ ResolvePending
    \/ ScheduleReturns
    \/ StopReturns
    \/ StopAllReturns

Exited == exited /\ UNCHANGED vars

AppNext ==
    \/ \E t \in Tgids, e \in FfEffects : handle_effect_uploaded(t, e)
    \/ \E id \in EffectIds : handle_effect_erased(id)
    \/ \E d \in DeviceIds, id \in EffectIds : handle_ff_event_stop(d, id)
    \/ \E d \in DeviceIds, id \in EffectIds : handle_ff_event_play(d, id)
    \/ stop_all
    \/ Awaiting
    \/ Tick
    \/ Exited

AppSpec == AppInit /\ [][AppNext]_vars

-----------------------------------------------------------------------------
(* Properties. *)

TypeOK ==
    /\ elapsed \in 0 .. MIN_INTERVAL_MS
    /\ effect_store \in [Keys -> FfEffects \union {NONE}]
    /\ pending_plays \in [DeviceIds -> EffectIds \union {NONE}]
    /\ resolving \subseteq DeviceIds \X FfEffects
    /\ call \in Calls
    /\ exited \in BOOLEAN
    /\ wanted \in [DeviceIds -> EffectIds \union {NONE}]
    /\ latest \in [EffectIds -> FfEffects \union {NONE}]

(* effect_store never holds two processes' effects under one id, and what  *)
(* it holds is the last upload the probe reported: the linear search of a  *)
(* Play (app.rs:142-146) has at most one answer, whichever order the       *)
(* HashMap iterates in, and never answers with an effect erased since.     *)
StoreHoldsLatest ==
    \A k \in Keys : effect_store[k] # NONE =>
        /\ effect_store[k].id = k[2]
        /\ latest[k[2]] = effect_store[k]
        /\ \A j \in Keys : effect_store[j] # NONE /\ j[2] = k[2] => j = k

(* A held Play is the last thing asked of its device, and its effect is    *)
(* really missing: a Play superseded by another Play, or voided by a Stop  *)
(* or an erase of its effect, is not kept, and no upload passes a held     *)
(* Play by (app.rs:24-32, 90, 113, 129, 150).                              *)
PendingIsWanted ==
    \A d \in DeviceIds : pending_plays[d] # NONE =>
        /\ wanted[d] = pending_plays[d]
        /\ found(effect_store, pending_plays[d]) = {}

(* A sequence is handed to playback only for a device whose last event was *)
(* a Play of that very effect id, with the effect last uploaded under it:  *)
(* a held Play is never resurrected after a Stop, an erase or a newer Play *)
(* of the device, whatever happened while it waited.                       *)
OnlyWantedPlays ==
    call.op = "schedule_sequence" =>
        /\ wanted[call.device] = call.effect.id
        /\ latest[call.effect.id] = call.effect
        /\ pending_plays[call.device] = NONE
        /\ <<call.device, call.effect>> \notin resolving

(* While an upload resolves the plays it has taken, each is still what its *)
(* device wants and plays the upload's effect.                             *)
ResolvingIsWanted ==
    \A play \in resolving :
        /\ wanted[play[1]] = play[2].id
        /\ latest[play[2].id] = play[2]
        /\ pending_plays[play[1]] = NONE

(* The ids a step takes out of the store for good. *)
Forgotten ==
    {id \in EffectIds : found(effect_store, id) # {} /\ found(effect_store', id) = {}}

(* The step handles a Stop of that id. *)
Stopping(id) == call = NoCall /\ call'.op = "stop" /\ call'.effect = id

(* The daemon can play an effect it has heard of until it hears of the     *)
(* effect's own erase, or some device stops that very id (app.rs:128       *)
(* purges it, though the game still owns it): no upload, of whatever       *)
(* process, and no Stop or erase of another id makes it forget one.  And a *)
(* Stop does forget the id it names, whichever process uploaded it.        *)
KnownUntilStopped ==
    [][\A id \in EffectIds :
            /\ id \in Forgotten =>
                   /\ Forgotten = {id}
                   /\ latest'[id] = NONE \/ Stopping(id)
            /\ Stopping(id) => found(effect_store', id) = {}]_vars

(* The state of the abstract specification a state of the daemon stands    *)
(* for: what the store says of an id, and the requests still held or being *)
(* resolved.                                                               *)
KnownEffects ==
    [id \in EffectIds |->
        IF found(effect_store, id) = {} THEN NONE
        ELSE CHOOSE e \in found(effect_store, id) : TRUE]

OpenRequests ==
    [d \in DeviceIds |->
        IF \E play \in resolving : play[1] = d
        THEN (CHOOSE play \in resolving : play[1] = d)[2].id
        ELSE pending_plays[d]]

Starting ==
    IF call.op = "schedule_sequence" THEN <<call.device, call.effect>> ELSE <<>>

Requests == INSTANCE PlayRequests
                WITH known <- KnownEffects, request <- OpenRequests, starting <- Starting

(* The handlers keep the promise of PlayRequests: each Play is settled at  *)
(* most once, by the effect known when it is settled, and no event is      *)
(* handled between an upload and the settling of the plays it makes due.   *)
ImplementsPlayRequests == Requests!Spec

(* Fairness: the runtime polls main's task again once the call it awaits   *)
(* has returned, and playback calls do return.                             *)
AppFairSpec == AppSpec /\ WF_vars(Awaiting)

(* Every handler gives the select loop its turn back: an upload works off  *)
(* all the plays it took, one playback call after the other, whatever the  *)
(* throttle says of each.                                                  *)
HandlersReturn == ~Selecting ~> (Selecting \/ exited)
=============================================================================
