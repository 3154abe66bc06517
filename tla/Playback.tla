------------------------------ MODULE Playback ------------------------------
(***************************************************************************)
(* playback.rs: the sequences playing on the toys, and who may end them.   *)
(*                                                                         *)
(* Three kinds of tasks run on tokio's threads: main's task, which calls   *)
(* schedule_sequence, stop and stop_all one at a time; one task per        *)
(* sequence (play_sequence), known by its generation; and the children a   *)
(* send_scalar spawns, one per targeted toy, each of which hands one       *)
(* command to the buttplug connection (`sends`, generation 0 for the zeros *)
(* stop sends).  From there commands reach the server in order.            *)
(*                                                                         *)
(* abort() ends a task where it next suspends.  A task whose poll is under *)
(* way on another thread goes on until then, so the steps of an aborted    *)
(* task stay enabled until Reap; and dropping it aborts its children, all  *)
(* but those being polled themselves, which still send.                    *)
(*                                                                         *)
(* A schedule is a keyframe sequence; its times are left out (a sleeping   *)
(* task may wake at any moment).  Every schedule ends with a zero: each    *)
(* kind translate() knows appends one, and interpolate_points keeps it.    *)
(***************************************************************************)
EXTENDS Integers, Sequences

CONSTANTS
    DeviceIds,      \* evdev device ids
    Toys,           \* buttplug devices
    TargetsOf,      \* device -> the toys resolve_targets gives it
    Schedules,      \* what interpolate_points may return
    FULL,           \* the intensity 1.0; intensities are 0 .. FULL
    Scales,         \* the values of the scale knob
    MaxGen,         \* bound: sequences scheduled in a behaviour
    SendsMayFail    \* whether a command may be lost

Levels == 0 .. FULL

ASSUME PlaybackAssumption ==
    /\ DeviceIds # {}
    /\ TargetsOf \in [DeviceIds -> SUBSET Toys]
    /\ FULL \in Nat \ {0}
    /\ Scales \subseteq Int
    /\ MaxGen \in Nat
    /\ SendsMayFail \in BOOLEAN
    /\ Schedules \subseteq {s \in Seq(Levels) : s # <<>> /\ s[Len(s)] = 0}

Gens == 1 .. MaxGen

VARIABLES
    tasks,          \* device -> generation in its slot, 0 when the slot is empty
    gen_counter,    \* the last generation handed out
    device,         \* generation -> its device
    todo,           \* generation -> keyframes it has not sent yet
    phase,          \* generation -> where its task is
    aborted,        \* generations whose task was aborted
    sends,          \* commands spawned and not handed over yet
    main,           \* what main's task is doing
    scale,          \* scale_bits
    toy,            \* toy -> the last level it was told
    late,           \* history: toys last told something by a superseded or aborted sequence
    missed          \* history: toys that lost a zero since they were last told something

task_vars == <<device, todo, phase>>
slot_vars == <<tasks, gen_counter, aborted>>
toy_vars  == <<toy, late, missed>>
vars == <<tasks, gen_counter, device, todo, phase, aborted, sends, main, scale,
          toy, late, missed>>

Phases == {"unborn", "sleeping", "sending", "locking", "finished"}
Ops    == {"idle", "inserting", "stopping", "stopping_all", "stopped_all", "exited"}

Commands == [gen : {0} \union Gens, toy : Toys, level : Levels]

PlaybackInit ==
    /\ tasks = [d \in DeviceIds |-> 0]
    /\ gen_counter = 0
    /\ device = [g \in Gens |-> CHOOSE d \in DeviceIds : TRUE]    \* set at birth
    /\ todo = [g \in Gens |-> <<>>]
    /\ phase = [g \in Gens |-> "unborn"]
    /\ aborted = {}
    /\ sends = {}
    /\ main = "idle"
    /\ scale \in Scales
    /\ toy = [x \in Toys |-> 0]
    /\ late = {}
    /\ missed = {}

Running  == main # "exited"     \* what is not handed over by then is gone
Live(g)  == phase[g] \notin {"unborn", "finished"}
SendsOf(g) == {s \in sends : s.gen = g}

(* Mutant: scaled levels go out as they are. *)
NoClamp(level) == level

clamp(level) == IF level > FULL THEN FULL ELSE IF level < 0 THEN 0 ELSE level

send_scalar(g, d, level) ==
    {[gen |-> g, toy |-> x, level |-> clamp(level)] : x \in TargetsOf[d]}

Newest(d, g) == \A h \in Gens : phase[h] # "unborn" /\ device[h] = d => h <= g

-----------------------------------------------------------------------------
(* main's task. *)

(* The task is spawned, and may run, before its handle is in the slot. *)
schedule_sequence(d, schedule) ==
    /\ main = "idle"
    /\ gen_counter < MaxGen
    /\ gen_counter' = gen_counter + 1
    /\ device' = [device EXCEPT ![gen_counter'] = d]
    /\ todo' = [todo EXCEPT ![gen_counter'] = schedule]
    /\ phase' = [phase EXCEPT ![gen_counter'] = "sleeping"]
    /\ main' = "inserting"
    /\ UNCHANGED <<tasks, aborted, sends, scale, toy_vars>>

Occupants(ds) == {tasks[d] : d \in ds} \ {0}

(* Mutant: the replaced sequence is not aborted. *)
InsertWithoutAbort ==
    /\ main = "inserting"
    /\ tasks' = [tasks EXCEPT ![device[gen_counter]] = gen_counter]
    /\ main' = "idle"
    /\ UNCHANGED <<gen_counter, aborted, task_vars, sends, scale, toy_vars>>

(* Mutant: schedule_sequence waits for a sign of life of its task. *)
InsertHandleOfLive ==
    /\ main = "inserting"
    /\ Live(gen_counter)
    /\ tasks' = [tasks EXCEPT ![device[gen_counter]] = gen_counter]
    /\ aborted' = aborted \union Occupants({device[gen_counter]})
    /\ main' = "idle"
    /\ UNCHANGED <<gen_counter, task_vars, sends, scale, toy_vars>>

InsertHandle ==
    /\ main = "inserting"
    /\ LET d == device[gen_counter]
       IN  /\ tasks' = [tasks EXCEPT ![d] = gen_counter]
           /\ aborted' = aborted \union Occupants({d})
    /\ main' = "idle"
    /\ UNCHANGED <<gen_counter, task_vars, sends, scale, toy_vars>>

(* Mutant: the aborted handle is looked up, not removed. *)
StopKeepsSlot(d) ==
    /\ main = "idle"
    /\ aborted' = aborted \union Occupants({d})
    /\ sends' = sends \union send_scalar(0, d, 0)
    /\ main' = "stopping"
    /\ UNCHANGED <<tasks, gen_counter, task_vars, scale, toy_vars>>

(* Mutant: the abort is taken to silence the toys. *)
StopSilently(d) ==
    /\ main = "idle"
    /\ tasks' = [tasks EXCEPT ![d] = 0]
    /\ aborted' = aborted \union Occupants({d})
    /\ main' = "stopping"
    /\ UNCHANGED <<gen_counter, task_vars, sends, scale, toy_vars>>

stop(d) ==
    /\ main = "idle"
    /\ tasks' = [tasks EXCEPT ![d] = 0]
    /\ aborted' = aborted \union Occupants({d})
    /\ sends' = sends \union send_scalar(0, d, 0)
    /\ main' = "stopping"
    /\ UNCHANGED <<gen_counter, task_vars, scale, toy_vars>>

StopReturns ==
    /\ main = "stopping"
    /\ SendsOf(0) = {}
    /\ main' = "idle"
    /\ UNCHANGED <<slot_vars, task_vars, sends, scale, toy_vars>>

stop_all ==
    /\ main = "idle"
    /\ tasks' = [d \in DeviceIds |-> 0]
    /\ aborted' = aborted \union Occupants(DeviceIds)
    /\ main' = "stopping_all"
    /\ UNCHANGED <<gen_counter, task_vars, sends, scale, toy_vars>>

StopAllDevices ==
    /\ main = "stopping_all"
    /\ main' = "stopped_all"
    /\ toy' = [x \in Toys |-> 0]
    /\ late' = {}
    /\ missed' = {}
    /\ UNCHANGED <<slot_vars, task_vars, sends, scale>>

StopAllFails ==
    /\ SendsMayFail
    /\ main = "stopping_all"
    /\ main' = "stopped_all"
    /\ missed' = Toys
    /\ UNCHANGED <<slot_vars, task_vars, sends, scale, toy, late>>

Exit ==
    /\ main = "stopped_all"
    /\ main' = "exited"
    /\ UNCHANGED <<slot_vars, task_vars, sends, scale, toy_vars>>

-----------------------------------------------------------------------------
(* play_sequence, one task per generation. *)

(* Mutant: the keyframe is sent over and over. *)
RepeatKeyframe(g) ==
    /\ Running
    /\ phase[g] = "sleeping"
    /\ todo[g] # <<>>
    /\ phase' = [phase EXCEPT ![g] = "sending"]
    /\ sends' = sends \union send_scalar(g, device[g], Head(todo[g]) * scale)
    /\ UNCHANGED <<slot_vars, device, todo, main, scale, toy_vars>>

SendKeyframe(g) ==
    /\ Running
    /\ phase[g] = "sleeping"
    /\ todo[g] # <<>>
    /\ phase' = [phase EXCEPT ![g] = "sending"]
    /\ todo' = [todo EXCEPT ![g] = Tail(@)]
    /\ sends' = sends \union send_scalar(g, device[g], Head(todo[g]) * scale)
    /\ UNCHANGED <<slot_vars, device, main, scale, toy_vars>>

(* send_scalar has joined its children. *)
KeyframeSent(g) ==
    /\ Running
    /\ phase[g] = "sending"
    /\ SendsOf(g) = {}
    /\ phase' = [phase EXCEPT ![g] = IF todo[g] = <<>> THEN "locking" ELSE "sleeping"]
    /\ UNCHANGED <<slot_vars, device, todo, sends, main, scale, toy_vars>>

(* Mutant: whoever ends clears the slot of its device. *)
FinishClearsSlot(g) ==
    /\ Running
    /\ phase[g] = "locking"
    /\ phase' = [phase EXCEPT ![g] = "finished"]
    /\ tasks' = [tasks EXCEPT ![device[g]] = 0]
    /\ UNCHANGED <<gen_counter, aborted, device, todo, sends, main, scale, toy_vars>>

(* The slot is cleared by its occupant only. *)
Finish(g) ==
    /\ Running
    /\ phase[g] = "locking"
    /\ phase' = [phase EXCEPT ![g] = "finished"]
    /\ tasks' = [tasks EXCEPT ![device[g]] = IF @ = g THEN 0 ELSE @]
    /\ UNCHANGED <<gen_counter, aborted, device, todo, sends, main, scale, toy_vars>>

(* The runtime drops an aborted task, and with it the children that are    *)
(* not themselves being polled.                                            *)
Reap(g) ==
    /\ Running
    /\ g \in aborted
    /\ Live(g)
    /\ phase' = [phase EXCEPT ![g] = "finished"]
    /\ todo' = [todo EXCEPT ![g] = <<>>]
    /\ \E polled \in SUBSET SendsOf(g) : sends' = (sends \ SendsOf(g)) \union polled
    /\ UNCHANGED <<slot_vars, device, main, scale, toy_vars>>

-----------------------------------------------------------------------------
(* The children of send_scalar, and the scale knob on stdin. *)

Deliver(s) ==
    /\ Running
    /\ sends' = sends \ {s}
    /\ toy' = [toy EXCEPT ![s.toy] = s.level]
    /\ missed' = missed \ {s.toy}
    /\ late' = IF s.gen # 0 /\ (s.gen \in aborted \/ ~Newest(device[s.gen], s.gen))
               THEN late \union {s.toy} ELSE late \ {s.toy}
    /\ UNCHANGED <<slot_vars, task_vars, main, scale>>

(* run_output fails: logged, and nobody retries. *)
SendFails(s) ==
    /\ Running
    /\ SendsMayFail
    /\ sends' = sends \ {s}
    /\ missed' = IF s.level = 0 THEN missed \union {s.toy} ELSE missed
    /\ UNCHANGED <<slot_vars, task_vars, main, scale, toy, late>>

set_scale(v) ==
    /\ Running
    /\ scale' = v
    /\ UNCHANGED <<slot_vars, task_vars, sends, main, toy_vars>>

TaskStep(g) == SendKeyframe(g) \/ KeyframeSent(g) \/ Finish(g) \/ Reap(g)

Handover(s) == Deliver(s) \/ SendFails(s)

MainReturns ==
    InsertHandle \/ StopReturns \/ StopAllDevices \/ StopAllFails \/ Exit

Exited == main = "exited" /\ UNCHANGED vars

PlaybackNext ==
    \/ \E d \in DeviceIds, schedule \in Schedules : schedule_sequence(d, schedule)
    \/ \E d \in DeviceIds : stop(d)
    \/ stop_all
    \/ MainReturns
    \/ \E g \in Gens : TaskStep(g)
    \/ \E s \in sends : Handover(s)
    \/ \E v \in Scales : set_scale(v)
    \/ Exited

PlaybackSpec == PlaybackInit /\ [][PlaybackNext]_vars

-----------------------------------------------------------------------------
(* Properties. *)

TypeOK ==
    /\ tasks \in [DeviceIds -> {0} \union Gens]
    /\ gen_counter \in 0 .. MaxGen
    /\ device \in [Gens -> DeviceIds]
    /\ todo \in [Gens -> Seq(Levels)]
    /\ phase \in [Gens -> Phases]
    /\ aborted \subseteq Gens
    /\ sends \subseteq Commands
    /\ main \in Ops
    /\ scale \in Scales
    /\ toy \in [Toys -> Levels]
    /\ late \subseteq Toys
    /\ missed \subseteq Toys

(* Every sequence that may still send can be reached by the next stop or   *)
(* schedule of its device: it is aborted already, or in its device's slot, *)
(* or on its way there.  A sequence that escaped this would play on with   *)
(* nobody holding its handle (playback.rs:101-107, 110-114, 236-239).      *)
NoOrphanPlayback ==
    \A g \in Gens : Live(g) =>
        \/ g \in aborted
        \/ tasks[device[g]] = g
        \/ main = "inserting" /\ g = gen_counter

(* A slot holds a sequence of its own device that nobody aborted, and only *)
(* the one about to replace it is younger.                                 *)
SlotHoldsNewest ==
    \A d \in DeviceIds : tasks[d] # 0 =>
        /\ device[tasks[d]] = d
        /\ tasks[d] \notin aborted
        /\ \A g \in Gens : device[g] = d /\ phase[g] # "unborn" /\ g > tasks[d] =>
               main = "inserting" /\ g = gen_counter

(* "A superseding retrigger must never have its bookkeeping deleted by the *)
(* task it replaced" (playback.rs:42-45): unless main's own call changes a *)
(* slot, it changes only with the end of the sequence in it.               *)
SupersededLeavesSlotAlone ==
    [][\A d \in DeviceIds :
            tasks'[d] # tasks[d] /\ main' = main =>
                /\ tasks'[d] = 0
                /\ phase[tasks[d]] = "locking" /\ phase'[tasks[d]] = "finished"]_vars

(* Nothing runs, nothing is on its way. *)
AtRest ==
    /\ main = "idle"
    /\ sends = {}
    /\ \A g \in Gens : ~Live(g)

(* When everything has come to rest, or the process has ended, a toy still *)
(* on was told so last by a sequence that had been aborted or superseded   *)
(* when the command went out, or it lost the zero meant for it, that of    *)
(* stop_all_devices included: no other order of retriggers, stops, ends,   *)
(* shutdowns, scale changes and shared toys leaves a toy on.               *)
OnlyStaleOrLostCommandsStick ==
    AtRest \/ main = "exited" => \A x \in Toys : toy[x] > 0 => x \in late \union missed

(* Fairness: the runtime polls every task that can go on and drops every   *)
(* aborted one; a command is answered, or its failure is.                  *)
PlaybackFairSpec ==
    /\ PlaybackSpec
    /\ WF_vars(MainReturns)
    /\ \A g \in Gens : WF_vars(TaskStep(g))
    /\ \A c \in Commands : WF_vars(c \in sends /\ Handover(c))

(* Every sequence ends, played out or aborted, and so does every call of   *)
(* main: no join_next waits for a child that an abort took away.           *)
SequencesEnd ==
    \A g \in Gens : Live(g) ~> (phase[g] = "finished" \/ ~Running)

CallsReturn == main # "idle" ~> (main = "idle" \/ ~Running)

-----------------------------------------------------------------------------
(* A claim of the repository the code does not keep. *)

(* "final command value was {}, expected 0 (stop)" (timing.rs:49-52): when *)
(* a toy is told nothing more, the last thing it was told is zero.         *)
ToysEndAtZero == AtRest => \A x \in Toys : toy[x] = 0
=============================================================================
