------------------------------- MODULE Probe -------------------------------
(***************************************************************************)
(* The eBPF probe (linux-game-haptics-router-ebpf/src/main.rs) and the     *)
(* task that forwards what it publishes (ebpf.rs): how the daemon learns   *)
(* which effects the games have uploaded.                                  *)
(*                                                                         *)
(* A game thread enters an ioctl (try_enter runs), the kernel carries it   *)
(* out, the thread leaves it (try_exit runs); other threads run between    *)
(* those steps.  The kernel's side is the effect table of one device, as   *)
(* the probe relies on it: a new effect gets a free id, an effect can be   *)
(* changed and erased by its owner only, and closing the device frees the  *)
(* effects of the process without any ioctl.                               *)
(*                                                                         *)
(* Effects are published to a ring of RingSize events, forwarded to a      *)
(* channel of ChannelSize, and applied by the receiver as App's            *)
(* upsert_effect and purge_effect_id do, a later event of an id replacing  *)
(* an earlier one.  An event that finds no room is dropped silently.       *)
(*                                                                         *)
(* EFFECT_STORE is left out: the probe writes it and nobody reads it.      *)
(***************************************************************************)
EXTENDS Integers, Sequences

CONSTANTS
    Threads, Tgids, TgidOf,
    EffectIds, Bodies, NONE,
    RingSize, ChannelSize,
    Faults          \* which of AllFaults may happen

AllFaults == {"enter_read",     \* bpf_probe_read_user_buf fails in try_enter
              "exit_read",      \* ... or in try_exit (or EFFECT_STORE.insert does)
              "refused_update", \* the kernel refuses to change an owned effect
              "foreign_id"}     \* a game uploads or erases an id that is not its own

S16_END == 32768    \* an effect has an s16 for its id

ASSUME ProbeAssumption ==
    /\ TgidOf \in [Threads -> Tgids]
    /\ EffectIds \subseteq 0 .. (S16_END - 1)
    /\ NONE \notin Bodies /\ NONE \notin [owner : Tgids, body : Bodies]
    /\ RingSize \in Nat \ {0} /\ ChannelSize \in Nat \ {0}
    /\ Faults \subseteq AllFaults

NEW_EFFECT == -1    \* ff_effect.id of an effect the kernel is to give an id

Ids == EffectIds \union {NEW_EFFECT}

(* What EVIOCRMFF is called with: an int, of which the probe keeps 16 bits. *)
Arguments   == EffectIds \union {id + 2 * S16_END : id \in EffectIds}
as_i16(arg) == ((arg + S16_END) % (2 * S16_END)) - S16_END

VARIABLES
    sys,            \* thread -> the ioctl it is in
    mem,            \* thread -> its struct ff_effect in user memory
    effects,        \* the kernel's table: id -> owner and body, or NONE
    ENTER_SCRATCH,  \* thread -> the body captured at enter, or NONE
    EVENTS,         \* the ring buffer
    effect_rx,      \* the channel to main
    view,           \* what the receiver was told: id -> body, or NONE
    unseen,         \* history: ids whose last change was not published, or was dropped,
                    \* or of which something was published that had not happened
    leftover        \* history: threads whose scratch entry has outlived its ioctl

kernel_vars == <<sys, mem, effects>>
event_vars  == <<effect_rx, view>>
vars == <<sys, mem, effects, ENTER_SCRATCH, EVENTS, effect_rx, view, unseen, leftover>>

Calling(cmd, id) == [cmd |-> cmd, id |-> id, ran |-> FALSE, failed |-> FALSE]
User == Calling("user", NEW_EFFECT)
Blank == [id |-> NEW_EFFECT, body |-> NONE]    \* memory nobody points to

Uploaded(id, body) == [kind |-> "uploaded", id |-> id, body |-> body]
Erased(id)         == [kind |-> "erased", id |-> id, body |-> NONE]
Events == {Uploaded(id, body) : id \in Ids, body \in Bodies} \union {Erased(id) : id \in Ids}

ProbeInit ==
    /\ sys = [t \in Threads |-> User]
    /\ mem = [t \in Threads |-> Blank]
    /\ effects = [id \in EffectIds |-> NONE]
    /\ ENTER_SCRATCH = [t \in Threads |-> NONE]
    /\ EVENTS = <<>>
    /\ effect_rx = <<>>
    /\ view = [id \in Ids |-> NONE]
    /\ unseen = {}
    /\ leftover = {}

Owns(t, id) == id \in EffectIds /\ effects[id] # NONE /\ effects[id].owner = TgidOf[t]
Free        == {id \in EffectIds : effects[id] = NONE}

Unseen(id, holds) == IF holds THEN unseen \ {id} ELSE unseen \union {id}

(* Mutant: room for one event more than the ring has. *)
PublishPastEnd(event, happens) ==
    LET room == Len(EVENTS) <= RingSize
    IN  /\ EVENTS' = IF room THEN Append(EVENTS, event) ELSE EVENTS
        /\ unseen' = Unseen(event.id, room /\ happens)

(* EVENTS.reserve and submit: without room the event is gone.  `happens`   *)
(* is for the history: whether the kernel does what the event says.        *)
publish(event, happens) ==
    LET room == Len(EVENTS) < RingSize
    IN  /\ EVENTS' = IF room THEN Append(EVENTS, event) ELSE EVENTS
        /\ unseen' = Unseen(event.id, room /\ happens)

-----------------------------------------------------------------------------
(* sys_enter_ioctl. *)

(* Mutant: an entry the thread already has is kept (BPF_NOEXIST). *)
EnterUploadKeepsOlder(t, id, body) ==
    /\ sys[t] = User
    /\ id = NEW_EFFECT \/ Owns(t, id) \/ "foreign_id" \in Faults
    /\ sys' = [sys EXCEPT ![t] = Calling("EVIOCSFF", id)]
    /\ mem' = [mem EXCEPT ![t] = [id |-> id, body |-> body]]
    /\ ENTER_SCRATCH' = [ENTER_SCRATCH EXCEPT ![t] = IF @ = NONE THEN body ELSE @]
    /\ leftover' = leftover \ {t}
    /\ UNCHANGED <<effects, EVENTS, event_vars, unseen>>

EnterUpload(t, id, body) ==
    /\ sys[t] = User
    /\ id = NEW_EFFECT \/ Owns(t, id) \/ "foreign_id" \in Faults
    /\ sys' = [sys EXCEPT ![t] = Calling("EVIOCSFF", id)]
    /\ mem' = [mem EXCEPT ![t] = [id |-> id, body |-> body]]
    /\ \/ /\ ENTER_SCRATCH' = [ENTER_SCRATCH EXCEPT ![t] = body]
          /\ leftover' = leftover \ {t}
       \/ "enter_read" \in Faults /\ UNCHANGED <<ENTER_SCRATCH, leftover>>
    /\ UNCHANGED <<effects, EVENTS, event_vars, unseen>>

(* The erase is published here, before the kernel has seen it, and of the  *)
(* argument's low 16 bits; the kernel looks at all of it.                  *)
EnterErase(t, arg) ==
    /\ sys[t] = User
    /\ Owns(t, arg) \/ "foreign_id" \in Faults
    /\ sys' = [sys EXCEPT ![t] = Calling("EVIOCRMFF", arg)]
    /\ publish(Erased(as_i16(arg)), Owns(t, arg))
    /\ UNCHANGED <<mem, effects, ENTER_SCRATCH, event_vars, leftover>>

(* Any other ioctl, on any file: try_enter returns at once. *)
EnterOther(t) ==
    /\ sys[t] = User
    /\ sys' = [sys EXCEPT ![t] = Calling("other", NEW_EFFECT)]
    /\ UNCHANGED <<mem, effects, ENTER_SCRATCH, EVENTS, event_vars, unseen, leftover>>

-----------------------------------------------------------------------------
(* The kernel (external). *)

Running(t, cmd) == sys[t].cmd = cmd /\ ~sys[t].ran

Returning(t, failed) == sys' = [sys EXCEPT ![t].ran = TRUE, ![t].failed = failed]

KernelUpload(t, id) ==
    /\ Running(t, "EVIOCSFF")
    /\ IF sys[t].id = NEW_EFFECT THEN id \in Free ELSE id = sys[t].id /\ Owns(t, id)
    /\ effects' = [effects EXCEPT ![id] = [owner |-> TgidOf[t], body |-> mem[t].body]]
    /\ mem' = [mem EXCEPT ![t].id = id]
    /\ Returning(t, FALSE)
    /\ UNCHANGED <<ENTER_SCRATCH, EVENTS, event_vars, unseen, leftover>>

(* ENOSPC for a new effect, EINVAL and the like for a change. *)
KernelRefuses(t) ==
    /\ Running(t, "EVIOCSFF")
    /\ IF sys[t].id = NEW_EFFECT THEN Free = {}
       ELSE "refused_update" \in Faults \/ ~Owns(t, sys[t].id)
    /\ Returning(t, TRUE)
    /\ UNCHANGED <<mem, effects, ENTER_SCRATCH, EVENTS, event_vars, unseen, leftover>>

KernelErase(t) ==
    /\ Running(t, "EVIOCRMFF")
    /\ effects' = IF Owns(t, sys[t].id) THEN [effects EXCEPT ![sys[t].id] = NONE] ELSE effects
    /\ Returning(t, FALSE)
    /\ UNCHANGED <<mem, ENTER_SCRATCH, EVENTS, event_vars, unseen, leftover>>

KernelOther(t) ==
    /\ Running(t, "other")
    /\ Returning(t, FALSE)
    /\ UNCHANGED <<mem, effects, ENTER_SCRATCH, EVENTS, event_vars, unseen, leftover>>

(* The process closes the device, with no ioctl of its in the kernel. *)
Close(tgid) ==
    LET freed == {id \in EffectIds : effects[id] # NONE /\ effects[id].owner = tgid}
    IN  /\ freed # {}
        /\ \A t \in Threads : TgidOf[t] = tgid => sys[t] = User
        /\ effects' = [id \in EffectIds |-> IF id \in freed THEN NONE ELSE effects[id]]
        /\ unseen' = unseen \union freed
        /\ UNCHANGED <<sys, mem, ENTER_SCRATCH, EVENTS, event_vars, leftover>>

-----------------------------------------------------------------------------
(* sys_exit_ioctl: whether this was an upload is told by ENTER_SCRATCH,    *)
(* never by the command or its result.                                     *)

Leave(t) ==
    /\ sys[t].ran
    /\ sys' = [sys EXCEPT ![t] = User]

ExitWithoutScratch(t) ==
    /\ Leave(t)
    /\ ENTER_SCRATCH[t] = NONE
    /\ mem' = [mem EXCEPT ![t] = Blank]
    /\ unseen' = IF sys[t].cmd = "EVIOCSFF" THEN unseen \union {mem[t].id} ELSE unseen
    /\ UNCHANGED <<effects, ENTER_SCRATCH, EVENTS, event_vars, leftover>>

(* A refused upload is published, too, and so is an upload found in a      *)
(* scratch entry that was left over.                                       *)
Uploading(t) == publish(Uploaded(mem[t].id, ENTER_SCRATCH[t]), ~sys[t].failed /\ t \notin leftover)

(* Mutant: the scratch entry outlives its call. *)
ExitUploadKeepsScratch(t) ==
    /\ Leave(t)
    /\ ENTER_SCRATCH[t] # NONE
    /\ Uploading(t)
    /\ mem' = [mem EXCEPT ![t] = Blank]
    /\ UNCHANGED <<effects, ENTER_SCRATCH, event_vars, leftover>>

ExitUpload(t) ==
    /\ Leave(t)
    /\ ENTER_SCRATCH[t] # NONE
    /\ Uploading(t)
    /\ ENTER_SCRATCH' = [ENTER_SCRATCH EXCEPT ![t] = NONE]
    /\ leftover' = leftover \ {t}
    /\ mem' = [mem EXCEPT ![t] = Blank]
    /\ UNCHANGED <<effects, event_vars>>

(* The id cannot be read: the scratch entry stays behind. *)
ExitReadFails(t) ==
    /\ "exit_read" \in Faults
    /\ Leave(t)
    /\ ENTER_SCRATCH[t] # NONE
    /\ leftover' = leftover \union {t}
    /\ unseen' = unseen \union {mem[t].id}
    /\ UNCHANGED <<mem, effects, ENTER_SCRATCH, EVENTS, event_vars>>

-----------------------------------------------------------------------------
(* The daemon: the forwarding task and the receiver. *)

(* try_send drops what does not fit. *)
Forward ==
    /\ EVENTS # <<>>
    /\ EVENTS' = Tail(EVENTS)
    /\ \/ /\ Len(effect_rx) < ChannelSize
          /\ effect_rx' = Append(effect_rx, Head(EVENTS))
          /\ UNCHANGED unseen
       \/ /\ Len(effect_rx) = ChannelSize
          /\ UNCHANGED effect_rx
          /\ unseen' = IF \E i \in 2 .. Len(EVENTS) : EVENTS[i].id = Head(EVENTS).id
                       THEN unseen ELSE unseen \union {Head(EVENTS).id}
    /\ UNCHANGED <<kernel_vars, ENTER_SCRATCH, view, leftover>>

Receive ==
    /\ effect_rx # <<>>
    /\ effect_rx' = Tail(effect_rx)
    /\ view' = [view EXCEPT ![Head(effect_rx).id] = Head(effect_rx).body]
    /\ UNCHANGED <<kernel_vars, ENTER_SCRATCH, EVENTS, unseen, leftover>>

Enter(t) ==
    \/ \E id \in Ids, body \in Bodies : EnterUpload(t, id, body)
    \/ \E arg \in Arguments : EnterErase(t, arg)
    \/ EnterOther(t)

Kernel(t) ==
    \/ \E id \in EffectIds : KernelUpload(t, id)
    \/ KernelRefuses(t)
    \/ KernelErase(t)
    \/ KernelOther(t)

Exit(t) == ExitWithoutScratch(t) \/ ExitUpload(t) \/ ExitReadFails(t)

ProbeNext ==
    \/ \E t \in Threads : Enter(t) \/ Kernel(t) \/ Exit(t)
    \/ \E tgid \in Tgids : Close(tgid)
    \/ Forward
    \/ Receive

ProbeSpec == ProbeInit /\ [][ProbeNext]_vars

-----------------------------------------------------------------------------
(* Properties. *)

TypeOK ==
    /\ sys \in [Threads -> [cmd : {"user", "EVIOCSFF", "EVIOCRMFF", "other"},
                            id : Ids \union Arguments, ran : BOOLEAN, failed : BOOLEAN]]
    /\ mem \in [Threads -> [id : Ids, body : Bodies \union {NONE}]]
    /\ effects \in [EffectIds -> [owner : Tgids, body : Bodies] \union {NONE}]
    /\ ENTER_SCRATCH \in [Threads -> Bodies \union {NONE}]
    /\ EVENTS \in Seq(Events) /\ Len(EVENTS) <= RingSize
    /\ effect_rx \in Seq(Events) /\ Len(effect_rx) <= ChannelSize
    /\ view \in [Ids -> Bodies \union {NONE}]
    /\ unseen \subseteq Ids
    /\ leftover \subseteq Threads

(* What the receiver will believe of an id once all events on their way    *)
(* have reached it.                                                        *)
Believed(id) ==
    LET pending == effect_rx \o EVENTS
        own     == {i \in 1 .. Len(pending) : pending[i].id = id}
    IN  IF own = {} THEN view[id]
        ELSE pending[CHOOSE i \in own : \A j \in own : j <= i].body

InKernel(id) == IF effects[id] = NONE THEN NONE ELSE effects[id].body

(* A thread is between the kernel's change of the effect and its report.   *)
Changing(t, id) ==
    \/ sys[t].cmd = "EVIOCSFF" /\ sys[t].ran /\ mem[t].id = id
    \/ sys[t].cmd = "EVIOCRMFF" /\ ~sys[t].ran /\ sys[t].id = id

(* The receiver's table converges to the kernel's: the report that wins is *)
(* that of the last change, whichever process made it, although uploads    *)
(* are reported after the kernel acts and erases before.  Exceptions are   *)
(* changes being made, changes whose report was never made (a close, an    *)
(* unreadable struct) or dropped for lack of room, and reports of what the *)
(* kernel refuses.  It takes games that do not race one thread's erase of  *)
(* an id with another's upload of it.                                      *)
MirrorsKernel ==
    \A id \in EffectIds :
        \/ Believed(id) = InKernel(id)
        \/ id \in unseen
        \/ \E t \in Threads : Changing(t, id)

(* An upload is published by a thread leaving the EVIOCSFF it was captured *)
(* in, with the effect of that very call, and no call is published twice:  *)
(* unless a scratch entry was left over, because the id could not be read  *)
(* at an exit (main.rs:186), since the thread was last captured.           *)
UploadsReportTheirCall ==
    [][\A i \in 1 .. Len(EVENTS') :
            Len(EVENTS') > Len(EVENTS) /\ i > Len(EVENTS) /\ EVENTS'[i].kind = "uploaded" =>
                \E t \in Threads :
                    /\ sys[t].ran /\ sys'[t] = User
                    /\ \/ /\ sys[t].cmd = "EVIOCSFF"
                          /\ EVENTS'[i] = Uploaded(mem[t].id, mem[t].body)
                       \/ t \in leftover]_vars

-----------------------------------------------------------------------------
(* Claims of the repository the code does not keep. *)

(* "Assigned effect id" (common/src/lib.rs:184): the id of an upload that  *)
(* is published is one the kernel assigned.                                *)
UploadedIdsAreAssigned ==
    \A i \in 1 .. Len(EVENTS) : EVENTS[i].kind = "uploaded" => EVENTS[i].id # NEW_EFFECT
=============================================================================
