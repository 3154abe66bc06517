--------------------------- MODULE PlaybackProofs ---------------------------
(***************************************************************************)
(* Proofs about Playback, for every set of devices and toys, every device  *)
(* map, every set of schedules that end with a zero, every scale, any      *)
(* number of sequences, with and without lost commands.                    *)
(*                                                                         *)
(* The inductive invariant says where each generation and each command     *)
(* stands, and names for every toy that is on who still owes it a zero.    *)
(***************************************************************************)
EXTENDS Playback, TLAPS

(* The generations handed out so far are the born ones. *)
Births ==
    /\ \A g \in Gens : phase[g] = "unborn" <=> gen_counter < g
    /\ \A g \in aborted : g <= gen_counter
    /\ \A d \in DeviceIds : tasks[d] <= gen_counter

(* The sequence being inserted is nowhere yet. *)
Inserting ==
    main = "inserting" =>
        /\ gen_counter \in Gens
        /\ gen_counter \notin aborted
        /\ \A d \in DeviceIds : tasks[d] # gen_counter

(* What is left of a schedule ends with a zero, and is nothing at the end. *)
Todos ==
    \A g \in Gens :
        /\ todo[g] # <<>> => todo[g][Len(todo[g])] = 0
        /\ phase[g] = "locking" => todo[g] = <<>>

(* A command comes from a stop, which sends zeros, or from a sequence that *)
(* waits for it or was aborted; a sequence not aborted that has sent       *)
(* something else than a zero has more to send.                            *)
Origins ==
    \A s \in sends :
        /\ s.gen = 0 => s.level = 0
        /\ s.gen # 0 => s.toy \in TargetsOf[device[s.gen]]
        /\ s.gen # 0 /\ s.gen \notin aborted =>
               /\ phase[s.gen] = "sending"
               /\ s.level > 0 => todo[s.gen] # <<>>

(* g still has to bring a zero to toy x. *)
Owes(g, x) ==
    /\ Live(g)
    /\ g \notin aborted
    /\ Newest(device[g], g)
    /\ x \in TargetsOf[device[g]]
    /\ todo[g] # <<>> \/ [gen |-> g, toy |-> x, level |-> 0] \in sends

ZeroOwed ==
    \A x \in Toys : toy[x] > 0 =>
        \/ x \in late \union missed
        \/ main \in {"stopping_all", "stopped_all", "exited"}
        \/ [gen |-> 0, toy |-> x, level |-> 0] \in sends
        \/ \E g \in Gens : Owes(g, x)

SlotsOK == Births /\ Inserting /\ NoOrphanPlayback /\ SlotHoldsNewest

SlotInv == TypeOK /\ SlotsOK

(* stop_all leaves no sequence that nobody aborted, and then no toy on but *)
(* for what it lost or an aborted sequence still sends.                    *)
AfterStopAll ==
    main \in {"stopping_all", "stopped_all", "exited"} =>
        /\ \A d \in DeviceIds : tasks[d] = 0
        /\ main # "stopping_all" => \A x \in Toys : toy[x] > 0 => x \in late \union missed

ToyInv == Todos /\ Origins /\ ZeroOwed /\ AfterStopAll

IInv == SlotInv /\ ToyInv

-----------------------------------------------------------------------------
(* Lemmas about the operators. *)

(* Whatever the scale makes of a keyframe is clamped to a level, and a     *)
(* zero stays one.                                                         *)
LEMMA ClampLevel ==
    /\ \A l \in Int : clamp(l) \in Levels
    /\ clamp(0) = 0
BY PlaybackAssumption DEF clamp, Levels

(* One keyframe of a schedule, and what is left of it. *)
LEMMA KeyframeFacts ==
    ASSUME NEW s \in Seq(Levels), s # <<>>, s[Len(s)] = 0
    PROVE  /\ Head(s) \in Levels
           /\ Tail(s) \in Seq(Levels)
           /\ Tail(s) # <<>> => Tail(s)[Len(Tail(s))] = 0
           /\ Tail(s) = <<>> => Head(s) = 0
<1>1. Len(s) \in Nat /\ Len(s) > 0
  OBVIOUS
<1>2. Head(s) \in Levels /\ Tail(s) \in Seq(Levels) /\ Len(Tail(s)) = Len(s) - 1
  BY <1>1
<1>3. CASE Len(s) = 1
  BY SMTT(40), <1>1, <1>2, <1>3
<1>4. CASE Len(s) > 1
  <2>1. Tail(s)[Len(s) - 1] = s[Len(s)]
    BY <1>1, <1>4
  <2> QED
    BY <1>2, <1>4, <2>1
<1> QED
  BY <1>1, <1>3, <1>4

(* send_scalar makes one well-typed command for each targeted toy. *)
LEMMA SendScalarFacts ==
    ASSUME NEW g \in {0} \union Gens, NEW d \in DeviceIds, NEW l \in Int
    PROVE  /\ send_scalar(g, d, l) \subseteq Commands
           /\ \A s \in send_scalar(g, d, l) :
                  s.gen = g /\ s.toy \in TargetsOf[d] /\ s.level = clamp(l)
           /\ \A x \in TargetsOf[d] :
                  [gen |-> g, toy |-> x, level |-> clamp(l)] \in send_scalar(g, d, l)
BY ClampLevel, PlaybackAssumption DEF send_scalar, Commands

(* A schedule is a non-empty sequence of levels that ends with a zero. *)
LEMMA ScheduleFacts ==
    ASSUME NEW schedule \in Schedules
    PROVE  schedule \in Seq(Levels) /\ schedule # <<>> /\ schedule[Len(schedule)] = 0
BY PlaybackAssumption

-----------------------------------------------------------------------------
(* At the start the slots are empty and no sequence is born. *)
LEMMA InitSlotInv == PlaybackInit => SlotInv
<1> SUFFICES ASSUME PlaybackInit PROVE SlotInv
  OBVIOUS
<1> USE DEF PlaybackInit
<1>1. TypeOK
  <2>1. /\ tasks \in [DeviceIds -> {0} \union Gens]
        /\ gen_counter \in 0 .. MaxGen
        /\ todo \in [Gens -> Seq(Levels)]
        /\ phase \in [Gens -> Phases]
        /\ toy \in [Toys -> Levels]
    BY PlaybackAssumption DEF Phases, Levels
  <2>2. device \in [Gens -> DeviceIds]
    BY PlaybackAssumption
  <2> QED
    BY <2>1, <2>2 DEF TypeOK, Ops
<1>2. Births
  BY PlaybackAssumption DEF Births, Gens
<1>3. Inserting /\ NoOrphanPlayback /\ SlotHoldsNewest
  BY DEF Inserting, NoOrphanPlayback, SlotHoldsNewest, Live
<1> QED
  BY <1>1, <1>2, <1>3 DEF SlotInv, SlotsOK

(* At the start no toy is on and no command is on its way. *)
LEMMA InitToyInv == PlaybackInit => ToyInv
BY DEF PlaybackInit, ToyInv, Todos, Origins, ZeroOwed, AfterStopAll

-----------------------------------------------------------------------------
(* Every step of main, a sequence or a command keeps the types. *)
LEMMA TypeStep == SlotInv /\ [PlaybackNext]_vars => TypeOK'
<1> SUFFICES ASSUME TypeOK, Inserting, [PlaybackNext]_vars PROVE TypeOK'
  BY DEF SlotInv, SlotsOK
<1> USE DEF TypeOK
<1>1. ASSUME NEW d \in DeviceIds, NEW schedule \in Schedules, schedule_sequence(d, schedule)
      PROVE  TypeOK'
  <2> USE <1>1, PlaybackAssumption DEF schedule_sequence, toy_vars
  <2>1. gen_counter' \in 0 .. MaxGen
    OBVIOUS
  <2>2. todo' \in [Gens -> Seq(Levels)]
    BY ScheduleFacts
  <2>3. phase' \in [Gens -> Phases] /\ device' \in [Gens -> DeviceIds]
    BY DEF Phases
  <2> QED
    BY <2>1, <2>2, <2>3 DEF Ops
<1>2. CASE InsertHandle
  <2> USE <1>2 DEF InsertHandle, task_vars, toy_vars
  <2>1. gen_counter \in Gens /\ device[gen_counter] \in DeviceIds
    BY DEF Inserting
  <2>2. tasks' \in [DeviceIds -> {0} \union Gens]
    BY <2>1
  <2>3. aborted' \subseteq Gens
    BY <2>1 DEF Occupants
  <2> QED
    BY <2>2, <2>3 DEF Ops
<1>3. ASSUME NEW d \in DeviceIds, stop(d)
      PROVE  TypeOK'
  <2> USE <1>3 DEF stop, task_vars, toy_vars
  <2>1. tasks' \in [DeviceIds -> {0} \union Gens]
    OBVIOUS
  <2>2. aborted' \subseteq Gens
    BY DEF Occupants
  <2>3. sends' \subseteq Commands
    BY SendScalarFacts
  <2> QED
    BY <2>1, <2>2, <2>3 DEF Ops
<1>4. CASE stop_all
  <2> USE <1>4 DEF stop_all, task_vars, toy_vars
  <2>1. aborted' \subseteq Gens
    BY DEF Occupants
  <2> QED
    BY <2>1 DEF Ops
<1>5. CASE StopReturns \/ StopAllDevices \/ StopAllFails \/ Exit
  <2>1. UNCHANGED <<slot_vars, task_vars, sends, scale>> /\ main' \in Ops
    BY <1>5 DEF StopReturns, StopAllDevices, StopAllFails, Exit, Ops
  <2>2. toy' \in [Toys -> Levels] /\ late' \subseteq Toys /\ missed' \subseteq Toys
    BY <1>5, PlaybackAssumption
       DEF StopReturns, StopAllDevices, StopAllFails, Exit, toy_vars, Levels
  <2> QED
    BY <2>1, <2>2 DEF slot_vars, task_vars
<1>6. ASSUME NEW g \in Gens, SendKeyframe(g)
      PROVE  TypeOK'
  <2> USE <1>6 DEF SendKeyframe, slot_vars, toy_vars
  <2>1. Head(todo[g]) \in Levels /\ Tail(todo[g]) \in Seq(Levels)
    OBVIOUS
  <2>2. Head(todo[g]) * scale \in Int
    BY <2>1, PlaybackAssumption DEF Levels
  <2>3. sends' \subseteq Commands
    BY <2>2, SendScalarFacts
  <2>4. todo' \in [Gens -> Seq(Levels)]
    BY <2>1
  <2>5. phase' \in [Gens -> Phases]
    BY DEF Phases
  <2> QED
    BY <2>3, <2>4, <2>5
<1>7. ASSUME NEW g \in Gens, KeyframeSent(g)
      PROVE  TypeOK'
  BY <1>7 DEF KeyframeSent, slot_vars, toy_vars, Phases
<1>8. ASSUME NEW g \in Gens, Finish(g)
      PROVE  TypeOK'
  BY <1>8 DEF Finish, toy_vars, Phases
<1>9. ASSUME NEW g \in Gens, Reap(g)
      PROVE  TypeOK'
  <2> USE <1>9 DEF Reap, slot_vars, toy_vars
  <2>1. sends' \subseteq Commands
    BY DEF SendsOf
  <2>2. phase' \in [Gens -> Phases] /\ todo' \in [Gens -> Seq(Levels)]
    BY DEF Phases
  <2> QED
    BY <2>1, <2>2
<1>10. ASSUME NEW s \in sends, Handover(s)
       PROVE  TypeOK'
  <2>1. s.toy \in Toys /\ s.level \in Levels
    BY DEF Commands
  <2>2. UNCHANGED <<slot_vars, task_vars, main, scale>> /\ sends' = sends \ {s}
    BY <1>10 DEF Handover, Deliver, SendFails
  <2>3. toy' \in [Toys -> Levels] /\ late' \subseteq Toys /\ missed' \subseteq Toys
    BY <1>10, <2>1 DEF Handover, Deliver, SendFails
  <2> QED
    BY <2>2, <2>3 DEF slot_vars, task_vars
<1>11. ASSUME NEW v \in Scales, set_scale(v)
       PROVE  TypeOK'
  BY <1>11 DEF set_scale, slot_vars, task_vars, toy_vars
<1>12. CASE UNCHANGED vars
  BY <1>12 DEF vars
<1> QED
  BY <1>1, <1>2, <1>3, <1>4, <1>5, <1>6, <1>7, <1>8, <1>9, <1>10, <1>11, <1>12
     DEF PlaybackNext, MainReturns, TaskStep, Exited

-----------------------------------------------------------------------------
(* The slots. *)

(* Steps of a task, and of main between its calls, that touch no slot. *)
LEMMA SlotFrame ==
    ASSUME SlotInv,
           UNCHANGED <<slot_vars, device>>,
           main' = main \/ (main # "inserting" /\ main' # "inserting"),
           phase' \in [Gens -> Phases],
           \A g \in Gens : phase'[g] = "unborn" <=> phase[g] = "unborn",
           \A g \in Gens : phase[g] = "finished" => phase'[g] = "finished"
    PROVE  SlotsOK'
<1> USE DEF SlotInv, SlotsOK, slot_vars
<1>1. Births'
  BY DEF Births
<1>2. Inserting'
  BY DEF Inserting
<1>3. NoOrphanPlayback'
  BY DEF NoOrphanPlayback, Live, TypeOK
<1>4. SlotHoldsNewest'
  BY DEF SlotHoldsNewest, TypeOK
<1> QED
  BY <1>1, <1>2, <1>3, <1>4 DEF SlotsOK

(* Every step keeps the slots right: main's inserts and removals, and a    *)
(* sequence that ends while another is being scheduled.                    *)
LEMMA SlotStep == SlotInv /\ [PlaybackNext]_vars => SlotInv'
<1> SUFFICES ASSUME SlotInv, [PlaybackNext]_vars
             PROVE  SlotsOK'
  BY TypeStep DEF SlotInv
<1>t. TypeOK /\ TypeOK'
  BY TypeStep DEF SlotInv, SlotsOK
<1>b. /\ \A g \in Gens : phase[g] = "unborn" <=> gen_counter < g
      /\ \A g \in aborted : g <= gen_counter
      /\ \A d \in DeviceIds : tasks[d] <= gen_counter
  BY DEF SlotInv, SlotsOK, Births
<1>g. gen_counter \in Nat /\ Gens \subseteq Nat
  BY <1>t, PlaybackAssumption DEF TypeOK, Gens
<1>1. ASSUME NEW d \in DeviceIds, NEW schedule \in Schedules, schedule_sequence(d, schedule)
      PROVE  SlotsOK'
  <2> DEFINE n == gen_counter + 1
  <2> USE <1>g
  <2>1. /\ n \in Gens /\ gen_counter' = n /\ phase[n] = "unborn"
        /\ main = "idle" /\ main' = "inserting"
        /\ UNCHANGED <<tasks, aborted>>
        /\ device'[n] = d /\ phase'[n] = "sleeping"
        /\ \A g \in Gens \ {n} : device'[g] = device[g] /\ phase'[g] = phase[g]
    BY <1>1, <1>t, PlaybackAssumption DEF schedule_sequence, Gens, TypeOK, SlotInv, SlotsOK, Births
  <2> HIDE DEF n
  <2>2. n = gen_counter + 1
    BY DEF n
  <2>3. Births'
    <3>1. ASSUME NEW g \in Gens PROVE phase'[g] = "unborn" <=> n < g
      <4>1. CASE g = n
        BY <2>1, <4>1
      <4>2. CASE g # n
        BY <1>b, <2>1, <2>2, <4>2
      <4> QED
        BY <4>1, <4>2
    <3>2. /\ \A g \in aborted : g <= n
          /\ \A o \in DeviceIds : tasks[o] <= n
      <4>1. aborted \subseteq Nat /\ \A o \in DeviceIds : tasks[o] \in Nat
        BY <1>t DEF TypeOK
      <4> QED
        BY <1>b, <2>2, <4>1
    <3> QED
      BY <2>1, <3>1, <3>2 DEF Births
  <2>4. n \notin aborted /\ \A o \in DeviceIds : tasks[o] # n
    BY <1>t, <2>1, <2>2 DEF SlotInv, SlotsOK, Births, TypeOK
  <2>5. Inserting'
    BY <2>1, <2>4 DEF Inserting
  <2>6. NoOrphanPlayback'
    BY <1>t, <2>1, <2>4 DEF SlotInv, SlotsOK, NoOrphanPlayback, Live, TypeOK
  <2>7. SlotHoldsNewest'
    <3> SUFFICES ASSUME NEW o \in DeviceIds, tasks[o] # 0
                 PROVE  /\ device'[tasks[o]] = o
                        /\ tasks[o] \notin aborted
                        /\ \A g \in Gens : device'[g] = o /\ phase'[g] # "unborn" /\ g > tasks[o]
                                           => g = n
      BY <2>1 DEF SlotHoldsNewest
    <3>1. tasks[o] \in Gens \ {n}
      BY <1>t, <2>4 DEF TypeOK
    <3> QED
      BY <2>1, <3>1 DEF SlotInv, SlotsOK, SlotHoldsNewest
  <2> QED
    BY <2>3, <2>5, <2>6, <2>7 DEF SlotsOK
<1>2. CASE InsertHandle
  <2> DEFINE n == gen_counter
             d == device[n]
  <2>1. /\ n \in Gens /\ d \in DeviceIds /\ n \notin aborted
        /\ \A o \in DeviceIds : tasks[o] # n
    BY <1>2, <1>t DEF InsertHandle, SlotInv, SlotsOK, Inserting, TypeOK
  <2>2. /\ UNCHANGED <<gen_counter, device, phase>>
        /\ main = "inserting" /\ main' = "idle"
        /\ tasks'[d] = n
        /\ \A o \in DeviceIds \ {d} : tasks'[o] = tasks[o]
        /\ aborted' = aborted \union ({tasks[d]} \ {0})
    BY <1>2, <1>t, <2>1 DEF InsertHandle, task_vars, Occupants, TypeOK
  <2>3. phase[n] # "unborn" /\ \A g \in Gens : phase[g] # "unborn" => g <= n
    BY <1>g, <2>1 DEF SlotInv, SlotsOK, Births
  <2> HIDE DEF n, d
  <2>4. gen_counter = n /\ device[n] = d
    BY DEF n, d
  <2>5. Births'
    <3>1. \A g \in aborted' : g <= n
      BY <1>b, <2>1, <2>2, <2>4
    <3>2. \A o \in DeviceIds : tasks'[o] <= n
      BY <1>b, <1>g, <2>1, <2>2, <2>4
    <3> QED
      BY <1>b, <2>2, <2>4, <3>1, <3>2 DEF Births
  <2>6. Inserting'
    BY <2>2 DEF Inserting
  <2>7. NoOrphanPlayback'
    <3> SUFFICES ASSUME NEW g \in Gens, Live(g), g \notin aborted'
                 PROVE  tasks'[device[g]] = g
      BY <2>2 DEF NoOrphanPlayback, Live
    <3>1. device[g] \in DeviceIds /\ g # 0
      BY <1>t DEF TypeOK, Gens
    <3>2. tasks[device[g]] = g \/ g = n
      BY <2>2, <2>4 DEF SlotInv, SlotsOK, NoOrphanPlayback
    <3> QED
      BY <2>2, <2>4, <3>1, <3>2
  <2>8. SlotHoldsNewest'
    <3> SUFFICES ASSUME NEW o \in DeviceIds, tasks'[o] # 0
                 PROVE  /\ device[tasks'[o]] = o
                        /\ tasks'[o] \notin aborted'
                        /\ \A g \in Gens : device[g] = o /\ phase[g] # "unborn"
                                           => ~(g > tasks'[o])
      BY <2>2 DEF SlotHoldsNewest
    <3>1. CASE o = d
      <4>1. tasks'[o] = n /\ n \notin aborted'
        BY <2>1, <2>2, <3>1
      <4> QED
        BY <1>g, <2>3, <2>4, <3>1, <4>1
    <3>2. CASE o # d
      <4>1. tasks'[o] = tasks[o] /\ tasks[o] \in Gens
        BY <1>t, <2>2, <3>2 DEF TypeOK
      <4>2. device[tasks[o]] = o /\ tasks[o] \notin aborted
        BY <4>1 DEF SlotInv, SlotsOK, SlotHoldsNewest
      <4>3. tasks[d] # 0 => device[tasks[d]] = d
        BY <2>1 DEF SlotInv, SlotsOK, SlotHoldsNewest
      <4>4. \A g \in Gens : device[g] = o /\ phase[g] # "unborn" => ~(g > tasks[o])
        BY <2>4, <3>2, <4>1 DEF SlotInv, SlotsOK, SlotHoldsNewest, Gens
      <4> QED
        BY <2>2, <3>2, <4>1, <4>2, <4>3, <4>4
    <3> QED
      BY <3>1, <3>2
  <2> QED
    BY <2>5, <2>6, <2>7, <2>8 DEF SlotsOK
<1>3. ASSUME NEW d \in DeviceIds, stop(d)
      PROVE  SlotsOK'
  <2>1. /\ UNCHANGED <<gen_counter, device, phase>>
        /\ main = "idle" /\ main' = "stopping"
        /\ tasks'[d] = 0
        /\ \A o \in DeviceIds \ {d} : tasks'[o] = tasks[o]
        /\ aborted' = aborted \union ({tasks[d]} \ {0})
    BY <1>3, <1>t DEF stop, task_vars, Occupants, TypeOK
  <2>2. Births'
    BY <1>t, <1>g, <2>1 DEF SlotInv, SlotsOK, Births, TypeOK
  <2>3. Inserting'
    BY <2>1 DEF Inserting
  <2>4. NoOrphanPlayback'
    BY <1>t, <2>1 DEF SlotInv, SlotsOK, NoOrphanPlayback, Live, TypeOK, Gens
  <2>5. SlotHoldsNewest'
    <3> SUFFICES ASSUME NEW o \in DeviceIds, tasks'[o] # 0
                 PROVE  /\ device[tasks'[o]] = o
                        /\ tasks'[o] \notin aborted'
                        /\ \A g \in Gens : device[g] = o /\ phase[g] # "unborn"
                                           => ~(g > tasks'[o])
      BY <2>1 DEF SlotHoldsNewest
    <3>1. o # d /\ tasks'[o] = tasks[o] /\ tasks[o] # 0
      BY <2>1
    <3>2. /\ device[tasks[o]] = o
          /\ tasks[o] \notin aborted
          /\ \A g \in Gens : device[g] = o /\ phase[g] # "unborn" => ~(g > tasks[o])
      BY <2>1, <3>1 DEF SlotInv, SlotsOK, SlotHoldsNewest
    <3>3. tasks[d] # 0 => device[tasks[d]] = d
      BY DEF SlotInv, SlotsOK, SlotHoldsNewest
    <3> QED
      BY <2>1, <3>1, <3>2, <3>3
  <2> QED
    BY <2>2, <2>3, <2>4, <2>5 DEF SlotsOK
<1>4. CASE stop_all
  <2>1. /\ UNCHANGED <<gen_counter, device, phase>>
        /\ main = "idle" /\ main' = "stopping_all"
        /\ \A o \in DeviceIds : tasks'[o] = 0
        /\ aborted' = aborted \union ({tasks[o] : o \in DeviceIds} \ {0})
    BY <1>4, <1>t DEF stop_all, task_vars, Occupants, TypeOK
  <2>2. Births'
    BY <1>t, <1>g, <2>1 DEF SlotInv, SlotsOK, Births, TypeOK
  <2>3. Inserting'
    BY <2>1 DEF Inserting
  <2>4. NoOrphanPlayback'
    BY <1>t, <1>g, <2>1, PlaybackAssumption DEF SlotInv, SlotsOK, NoOrphanPlayback, Live, TypeOK, Gens
  <2>5. SlotHoldsNewest'
    BY <2>1 DEF SlotHoldsNewest
  <2> QED
    BY <2>2, <2>3, <2>4, <2>5 DEF SlotsOK
<1>5. CASE StopReturns \/ StopAllDevices \/ StopAllFails \/ Exit
  <2>1. /\ UNCHANGED <<slot_vars, task_vars>>
        /\ main # "inserting" /\ main' # "inserting"
    BY <1>5 DEF StopReturns, StopAllDevices, StopAllFails, Exit
  <2> QED
    BY <1>t, <2>1, SlotFrame DEF task_vars, TypeOK
<1>6. ASSUME NEW g \in Gens, SendKeyframe(g) \/ KeyframeSent(g) \/ Reap(g)
      PROVE  SlotsOK'
  <2>1. /\ UNCHANGED <<slot_vars, device, main>>
        /\ phase[g] \notin {"unborn", "finished"} /\ phase'[g] # "unborn"
        /\ \A h \in Gens \ {g} : phase'[h] = phase[h]
    BY <1>6, <1>t DEF SendKeyframe, KeyframeSent, Reap, Live, TypeOK
  <2>2. phase' \in [Gens -> Phases]
    BY <1>t DEF TypeOK
  <2> QED
    BY <2>1, <2>2, SlotFrame
<1>7. ASSUME NEW g \in Gens, Finish(g)
      PROVE  SlotsOK'
  <2>1. /\ UNCHANGED <<gen_counter, aborted, device, main>>
        /\ phase[g] = "locking" /\ phase'[g] = "finished"
        /\ \A h \in Gens \ {g} : phase'[h] = phase[h]
        /\ \A o \in DeviceIds :
               tasks'[o] = IF o = device[g] /\ tasks[o] = g THEN 0 ELSE tasks[o]
    BY <1>7, <1>t DEF Finish, TypeOK
  <2>2. Births'
    BY <1>t, <1>g, <2>1 DEF SlotInv, SlotsOK, Births, TypeOK
  <2>3. Inserting'
    BY <1>g, <2>1, PlaybackAssumption DEF SlotInv, SlotsOK, Inserting, Gens
  <2>4. NoOrphanPlayback'
    BY <1>t, <2>1 DEF SlotInv, SlotsOK, NoOrphanPlayback, Live, TypeOK
  <2>5. SlotHoldsNewest'
    BY <1>t, <2>1 DEF SlotInv, SlotsOK, SlotHoldsNewest, TypeOK
  <2> QED
    BY <2>2, <2>3, <2>4, <2>5 DEF SlotsOK
<1>8. ASSUME NEW s \in sends, Handover(s)
      PROVE  SlotsOK'
  <2>1. UNCHANGED <<slot_vars, task_vars, main>>
    BY <1>8 DEF Handover, Deliver, SendFails
  <2> QED
    BY <1>t, <2>1, SlotFrame DEF task_vars, TypeOK
<1>9. ASSUME NEW v \in Scales, set_scale(v)
      PROVE  SlotsOK'
  <2>1. UNCHANGED <<slot_vars, task_vars, main>>
    BY <1>9 DEF set_scale
  <2> QED
    BY <1>t, <2>1, SlotFrame DEF task_vars, TypeOK
<1>10. CASE UNCHANGED vars
  <2>1. UNCHANGED <<slot_vars, task_vars, main>>
    BY <1>10 DEF vars, slot_vars, task_vars
  <2> QED
    BY <1>t, <2>1, SlotFrame DEF task_vars, TypeOK
<1> QED
  <2>1. \/ \E d \in DeviceIds, schedule \in Schedules : schedule_sequence(d, schedule)
        \/ InsertHandle
        \/ \E d \in DeviceIds : stop(d)
        \/ stop_all
        \/ StopReturns \/ StopAllDevices \/ StopAllFails \/ Exit
        \/ \E g \in Gens : SendKeyframe(g) \/ KeyframeSent(g) \/ Reap(g)
        \/ \E g \in Gens : Finish(g)
        \/ \E s \in sends : Handover(s)
        \/ \E v \in Scales : set_scale(v)
        \/ UNCHANGED vars
    BY DEF PlaybackNext, MainReturns, TaskStep, Exited
  <2> QED
    BY <1>1, <1>2, <1>3, <1>4, <1>5, <1>6, <1>7, <1>8, <1>9, <1>10, <2>1

-----------------------------------------------------------------------------
(* Every step leaves schedules that end with a zero. *)
LEMMA TodosStep == IInv /\ [PlaybackNext]_vars => Todos'
<1> SUFFICES ASSUME IInv, [PlaybackNext]_vars PROVE Todos'
  OBVIOUS
<1>t. TypeOK /\ Todos
  BY DEF IInv, SlotInv, ToyInv
<1>1. ASSUME NEW d \in DeviceIds, NEW schedule \in Schedules, schedule_sequence(d, schedule)
      PROVE  Todos'
  <2>1. schedule # <<>> /\ schedule[Len(schedule)] = 0
    BY ScheduleFacts
  <2> QED
    BY <1>1, <1>t, <2>1 DEF schedule_sequence, Todos, TypeOK
<1>2. ASSUME NEW g \in Gens, SendKeyframe(g)
      PROVE  Todos'
  <2>1. /\ todo[g] \in Seq(Levels) /\ todo[g] # <<>> /\ todo[g][Len(todo[g])] = 0
        /\ todo' = [todo EXCEPT ![g] = Tail(@)]
        /\ phase' = [phase EXCEPT ![g] = "sending"]
    BY <1>2, <1>t DEF SendKeyframe, TypeOK, Todos
  <2>2. Tail(todo[g]) # <<>> => Tail(todo[g])[Len(Tail(todo[g]))] = 0
    BY <2>1, KeyframeFacts
  <2>3. /\ todo'[g] = Tail(todo[g]) /\ phase'[g] = "sending"
        /\ \A h \in Gens \ {g} : todo'[h] = todo[h] /\ phase'[h] = phase[h]
    BY <1>t, <2>1 DEF TypeOK
  <2> QED
    BY <1>t, <2>2, <2>3 DEF Todos
<1>3. ASSUME NEW g \in Gens, KeyframeSent(g) \/ Finish(g) \/ Reap(g)
      PROVE  Todos'
  BY <1>3, <1>t DEF KeyframeSent, Finish, Reap, Todos, TypeOK
<1>4. CASE UNCHANGED <<todo, phase>>
  BY <1>4, <1>t DEF Todos
<1>5. \/ \E d \in DeviceIds, schedule \in Schedules : schedule_sequence(d, schedule)
      \/ \E g \in Gens : SendKeyframe(g)
      \/ \E g \in Gens : KeyframeSent(g) \/ Finish(g) \/ Reap(g)
      \/ UNCHANGED <<todo, phase>>
  BY DEF PlaybackNext, MainReturns, TaskStep, Exited, InsertHandle, stop, stop_all, StopReturns,
     StopAllDevices, StopAllFails, Exit, Handover, Deliver, SendFails, set_scale, vars, task_vars
<1> QED
  BY <1>1, <1>2, <1>3, <1>4, <1>5

(* What SendKeyframe adds to sends, for a sequence nobody aborted. *)
LEMMA KeyframeCommands ==
    ASSUME IInv, NEW g \in Gens, SendKeyframe(g)
    PROVE  /\ sends \subseteq sends'
           /\ \A s \in sends' \ sends :
                  /\ s.gen = g
                  /\ s.toy \in TargetsOf[device[g]]
                  /\ s.level > 0 => todo'[g] # <<>>
           /\ todo'[g] = <<>> => \A x \in TargetsOf[device[g]] :
                  [gen |-> g, toy |-> x, level |-> 0] \in sends'
<1>1. /\ todo[g] \in Seq(Levels) /\ todo[g] # <<>> /\ todo[g][Len(todo[g])] = 0
      /\ todo'[g] = Tail(todo[g])
      /\ device[g] \in DeviceIds /\ scale \in Int
      /\ sends' = sends \union send_scalar(g, device[g], Head(todo[g]) * scale)
  BY PlaybackAssumption DEF IInv, ToyInv, Todos, SlotInv, TypeOK, SendKeyframe
<1>2. /\ Head(todo[g]) \in Nat
      /\ todo'[g] = <<>> => Head(todo[g]) = 0
  <2>1. Head(todo[g]) \in Levels /\ (Tail(todo[g]) = <<>> => Head(todo[g]) = 0)
    BY <1>1, KeyframeFacts
  <2>2. Levels \subseteq Nat
    BY DEF Levels
  <2> QED
    BY <1>1, <2>1, <2>2
<1> DEFINE l == Head(todo[g]) * scale
<1>3. l \in Int /\ (todo'[g] = <<>> => l = 0)
  BY <1>1, <1>2
<1>4. sends' = sends \union send_scalar(g, device[g], l)
  BY <1>1
<1> HIDE DEF l
<1>5. /\ \A s \in send_scalar(g, device[g], l) :
             s.gen = g /\ s.toy \in TargetsOf[device[g]] /\ s.level = clamp(l)
      /\ \A x \in TargetsOf[device[g]] :
             [gen |-> g, toy |-> x, level |-> clamp(l)] \in send_scalar(g, device[g], l)
  BY <1>1, <1>3, SendScalarFacts
<1> QED
  BY <1>3, <1>4, <1>5, ClampLevel

(* Every step leaves each command with an origin that accounts for it. *)
LEMMA OriginsStep == IInv /\ [PlaybackNext]_vars => Origins'
<1> SUFFICES ASSUME IInv, [PlaybackNext]_vars, NEW s \in sends'
             PROVE  /\ s.gen = 0 => s.level = 0
                    /\ s.gen # 0 => s.toy \in TargetsOf[device'[s.gen]]
                    /\ s.gen # 0 /\ s.gen \notin aborted' =>
                           /\ phase'[s.gen] = "sending"
                           /\ s.level > 0 => todo'[s.gen] # <<>>
  BY DEF Origins
<1> DEFINE Origin == /\ s.gen = 0 => s.level = 0
                     /\ s.gen # 0 => s.toy \in TargetsOf[device[s.gen]]
                     /\ s.gen # 0 /\ s.gen \notin aborted =>
                            /\ phase[s.gen] = "sending"
                            /\ s.level > 0 => todo[s.gen] # <<>>
<1>t. TypeOK /\ (s \in sends => Origin)
  BY DEF IInv, SlotInv, ToyInv, Origins
<1>c. s \in sends => s.gen \in {0} \union Gens
  BY <1>t DEF TypeOK, Commands
<1>0. 0 \notin Gens
  BY DEF Gens
<1> DEFINE Goal == /\ s.gen = 0 => s.level = 0
                   /\ s.gen # 0 => s.toy \in TargetsOf[device'[s.gen]]
                   /\ s.gen # 0 /\ s.gen \notin aborted' =>
                          /\ phase'[s.gen] = "sending"
                          /\ s.level > 0 => todo'[s.gen] # <<>>
<1>1. ASSUME NEW d \in DeviceIds, NEW schedule \in Schedules, schedule_sequence(d, schedule)
      PROVE  Goal
  <2> DEFINE n == gen_counter + 1
  <2>1. /\ n \in Gens /\ s \in sends /\ aborted' = aborted
        /\ \A g \in Gens \ {n} :
               device'[g] = device[g] /\ phase'[g] = phase[g] /\ todo'[g] = todo[g]
    BY <1>1, <1>t, PlaybackAssumption DEF schedule_sequence, Gens, TypeOK
  <2>2. phase[n] = "unborn" /\ n \notin aborted
    BY <1>t, <2>1, PlaybackAssumption DEF IInv, SlotInv, SlotsOK, Births, TypeOK, Gens
  <2> HIDE DEF n
  <2>3. s.gen # n
    BY <1>0, <1>t, <2>1, <2>2
  <2> QED
    BY <1>c, <1>t, <2>1, <2>3
<1>2. ASSUME NEW d \in DeviceIds, stop(d)
      PROVE  Goal
  <2>1. UNCHANGED <<device, phase, todo>> /\ aborted \subseteq aborted'
    BY <1>2 DEF stop, task_vars
  <2>2. s \in sends \/ (s.gen = 0 /\ s.level = 0)
    <3>1. s \in sends \union send_scalar(0, d, 0)
      BY <1>2 DEF stop
    <3>2. \A c \in send_scalar(0, d, 0) : c.gen = 0 /\ c.level = clamp(0)
      BY SendScalarFacts
    <3>3. clamp(0) = 0
      BY ClampLevel
    <3> QED
      BY <3>1, <3>2, <3>3
  <2> QED
    BY <1>t, <2>1, <2>2
<1>3. CASE InsertHandle \/ stop_all
  <2>1. UNCHANGED <<device, phase, todo, sends>> /\ aborted \subseteq aborted'
    BY <1>3 DEF InsertHandle, stop_all, task_vars
  <2> QED
    BY <1>t, <2>1
<1>4. ASSUME NEW g \in Gens, SendKeyframe(g)
      PROVE  Goal
  <2>1. /\ UNCHANGED <<device, aborted>> /\ phase[g] = "sleeping" /\ phase'[g] = "sending"
        /\ \A h \in Gens \ {g} : phase'[h] = phase[h] /\ todo'[h] = todo[h]
    BY <1>4, <1>t DEF SendKeyframe, slot_vars, TypeOK
  <2>2. CASE s \in sends
    <3>1. s.gen = g => g \in aborted
      BY <1>0, <1>t, <2>1, <2>2
    <3> QED
      BY <1>c, <1>t, <2>1, <2>2, <3>1
  <2>3. CASE s \notin sends
    BY <1>0, <1>4, <2>1, <2>3, KeyframeCommands
  <2> QED
    BY <2>2, <2>3
<1>5. ASSUME NEW g \in Gens, KeyframeSent(g)
      PROVE  Goal
  <2>1. /\ UNCHANGED <<device, aborted, todo, sends>>
        /\ \A h \in Gens \ {g} : phase'[h] = phase[h]
        /\ s.gen # g
    BY <1>5, <1>t DEF KeyframeSent, slot_vars, SendsOf, TypeOK
  <2> QED
    BY <1>c, <1>t, <2>1
<1>6. ASSUME NEW g \in Gens, Finish(g)
      PROVE  Goal
  <2>1. /\ UNCHANGED <<device, aborted, todo, sends>> /\ phase[g] = "locking"
        /\ \A h \in Gens \ {g} : phase'[h] = phase[h]
    BY <1>6, <1>t DEF Finish, TypeOK
  <2>2. s.gen = g => g \in aborted
    BY <1>0, <1>t, <2>1
  <2> QED
    BY <1>c, <1>t, <2>1, <2>2
<1>7. ASSUME NEW g \in Gens, Reap(g)
      PROVE  Goal
  <2>1. /\ UNCHANGED <<device, aborted>> /\ g \in aborted /\ s \in sends
        /\ \A h \in Gens \ {g} : phase'[h] = phase[h] /\ todo'[h] = todo[h]
    BY <1>7, <1>t DEF Reap, slot_vars, SendsOf, TypeOK
  <2> QED
    BY <1>c, <1>t, <2>1
<1>8. CASE UNCHANGED <<device, phase, todo, aborted>> /\ sends' \subseteq sends
  BY <1>8, <1>t
<1>9. \/ \E d \in DeviceIds, schedule \in Schedules : schedule_sequence(d, schedule)
      \/ \E d \in DeviceIds : stop(d)
      \/ InsertHandle \/ stop_all
      \/ \E g \in Gens : SendKeyframe(g)
      \/ \E g \in Gens : KeyframeSent(g)
      \/ \E g \in Gens : Finish(g)
      \/ \E g \in Gens : Reap(g)
      \/ UNCHANGED <<device, phase, todo, aborted>> /\ sends' \subseteq sends
  BY DEF PlaybackNext, MainReturns, TaskStep, Exited, StopReturns, StopAllDevices, StopAllFails,
     Exit, Handover, Deliver, SendFails, set_scale, vars, task_vars, slot_vars
<1> QED
  BY <1>1, <1>2, <1>3, <1>4, <1>5, <1>6, <1>7, <1>8, <1>9

(* Every step leaves somebody to owe a zero to each toy that is on. *)
LEMMA ZeroOwedStep == IInv /\ [PlaybackNext]_vars => ZeroOwed'
<1> DEFINE Zero(g, x) == [gen |-> g, toy |-> x, level |-> 0]
           Excused(x) == \/ x \in late \union missed
                         \/ main \in {"stopping_all", "stopped_all", "exited"}
                         \/ Zero(0, x) \in sends
                         \/ \E g \in Gens : Owes(g, x)
<1> SUFFICES ASSUME IInv, [PlaybackNext]_vars, NEW x \in Toys, toy'[x] > 0
             PROVE  Excused(x)'
  BY DEF ZeroOwed
<1>t. TypeOK /\ TypeOK'
  BY TypeStep DEF IInv, SlotInv
<1>o. toy[x] > 0 => Excused(x)
  BY DEF IInv, ToyInv, ZeroOwed
<1>b. /\ \A g \in Gens : phase[g] = "unborn" <=> gen_counter < g
      /\ \A g \in aborted : g <= gen_counter
  BY DEF IInv, SlotInv, SlotsOK, Births
<1>g. gen_counter \in Nat /\ Gens \subseteq Nat /\ 0 \notin Gens
  BY <1>t, PlaybackAssumption DEF TypeOK, Gens
(* Frame: what keeps an excuse, when neither toys nor history change. *)
<1>f. ASSUME UNCHANGED <<toy, late, missed>>,
             main' = main \/ main' \in {"stopping_all", "stopped_all", "exited"}
                 \/ main \notin {"stopping_all", "stopped_all", "exited"},
             Zero(0, x) \in sends => Zero(0, x) \in sends',
             \A g \in Gens : Owes(g, x) => Excused(x)'
      PROVE  Excused(x)'
  BY <1>f, <1>o
<1>1. ASSUME NEW d \in DeviceIds, NEW schedule \in Schedules, schedule_sequence(d, schedule)
      PROVE  Excused(x)'
  <2>0. gen_counter + 1 \in Gens
    BY <1>1, <1>t, PlaybackAssumption DEF schedule_sequence, Gens, TypeOK
  <2> PICK n \in Gens : n = gen_counter + 1
    BY <2>0
  <2>1. /\ phase[n] = "unborn" /\ n \notin aborted
        /\ UNCHANGED <<toy, late, missed, aborted, sends>> /\ main = "idle"
        /\ device'[n] = d /\ phase'[n] = "sleeping" /\ todo'[n] = schedule
        /\ \A g \in Gens \ {n} :
               device'[g] = device[g] /\ phase'[g] = phase[g] /\ todo'[g] = todo[g]
    BY <1>1, <1>t, <1>b, <1>g, PlaybackAssumption
       DEF schedule_sequence, toy_vars, Gens, TypeOK
  <2>2. \A g \in Gens : phase[g] # "unborn" => g < n
    BY <1>b, <1>g
  <2>3. ASSUME NEW g \in Gens, Owes(g, x)
        PROVE  Excused(x)'
    <3>1. g # n
      BY <2>1, <2>3 DEF Owes, Live
    <3>2. CASE device[g] = d
      <4>1. (Live(n))' /\ x \in TargetsOf[device'[n]]
        <5>1. (Live(n))'
          BY <2>1 DEF Live
        <5>2. x \in TargetsOf[d]
          BY <2>3, <3>2 DEF Owes
        <5> QED
          BY <2>1, <5>1, <5>2
      <4>2. Newest(device[n], n)'
        <5> SUFFICES ASSUME NEW h \in Gens, phase'[h] # "unborn"
                     PROVE  h <= n
          BY DEF Newest
        <5>1. h = n \/ h < n
          BY <2>1, <2>2
        <5> QED
          BY <1>g, <2>1, <5>1
      <4>3. schedule # <<>>
        BY ScheduleFacts
      <4>4. Owes(n, x)'
        BY <2>1, <4>1, <4>2, <4>3 DEF Owes
      <4> QED
        BY <2>1, <4>4
    <3>3. CASE device[g] # d
      <4>1. Newest(device[g], g)'
        BY <2>1, <2>3, <3>1, <3>3 DEF Owes, Newest
      <4> QED
        BY <2>1, <2>3, <3>1, <4>1 DEF Owes, Live
    <3> QED
      BY <3>2, <3>3
  <2> QED
    BY <1>f, <2>1, <2>3
<1>2. CASE InsertHandle
  <2> DEFINE n == gen_counter
             d == device[n]
  <2>1. /\ n \in Gens /\ d \in DeviceIds /\ phase[n] # "unborn"
        /\ UNCHANGED <<toy, late, missed, sends, device, phase, todo>>
        /\ main = "inserting"
        /\ aborted' = aborted \union ({tasks[d]} \ {0})
    BY <1>2, <1>t, <1>b, <1>g DEF InsertHandle, Occupants, task_vars, toy_vars, IInv, SlotInv,
       SlotsOK, Inserting, TypeOK
  <2>2. tasks[d] # 0 => tasks[d] \in Gens /\ device[tasks[d]] = d /\ tasks[d] < n
    <3>1. tasks[d] # 0 => tasks[d] \in Gens /\ tasks[d] # n /\ tasks[d] <= n
      BY <1>2, <1>t, <2>1
         DEF InsertHandle, IInv, SlotInv, SlotsOK, Inserting, Births, TypeOK
    <3>2. tasks[d] # 0 => device[tasks[d]] = d
      BY <2>1 DEF IInv, SlotInv, SlotsOK, SlotHoldsNewest
    <3>3. n \in Nat /\ (tasks[d] # 0 => tasks[d] \in Nat)
      BY <1>g, <3>1
    <3> QED
      BY <3>1, <3>2, <3>3
  <2> HIDE DEF n
  <2>3. ASSUME NEW g \in Gens, Owes(g, x)
        PROVE  Excused(x)'
    <3>1. g # tasks[d]
      BY <1>g, <2>1, <2>2, <2>3 DEF Owes, Newest
    <3> QED
      BY <2>1, <2>3, <3>1 DEF Owes, Live, Newest
  <2> QED
    BY <1>f, <2>1, <2>3
<1>3. ASSUME NEW d \in DeviceIds, stop(d)
      PROVE  Excused(x)'
  <2>1. /\ UNCHANGED <<toy, late, missed, device, phase, todo>> /\ main = "idle"
        /\ aborted' = aborted \union ({tasks[d]} \ {0})
        /\ sends' = sends \union send_scalar(0, d, 0)
    BY <1>3, <1>t DEF stop, Occupants, task_vars, toy_vars, TypeOK
  <2>2. ASSUME NEW g \in Gens, Owes(g, x)
        PROVE  Excused(x)'
    <3>1. CASE g = tasks[d]
      <4>1. device[g] = d
        BY <1>g, <3>1 DEF IInv, SlotInv, SlotsOK, SlotHoldsNewest
      <4>2. x \in TargetsOf[d]
        BY <2>2, <4>1 DEF Owes
      <4>3. Zero(0, x) \in sends'
        BY <2>1, <4>2, SendScalarFacts, ClampLevel
      <4> QED
        BY <4>3
    <3>2. CASE g # tasks[d]
      BY <2>1, <2>2, <3>2 DEF Owes, Live, Newest
    <3> QED
      BY <3>1, <3>2
  <2> QED
    BY <1>f, <2>1, <2>2
<1>4. CASE stop_all
  BY <1>4 DEF stop_all
<1>5. CASE StopAllDevices \/ StopAllFails \/ Exit
  BY <1>5 DEF StopAllDevices, StopAllFails, Exit
<1>6. ASSUME NEW g \in Gens, SendKeyframe(g)
      PROVE  Excused(x)'
  <2>1. /\ UNCHANGED <<toy, late, missed, main, device, aborted>>
        /\ phase[g] = "sleeping" /\ phase'[g] = "sending" /\ sends \subseteq sends'
        /\ \A h \in Gens \ {g} : phase'[h] = phase[h] /\ todo'[h] = todo[h]
    BY <1>6, <1>t, KeyframeCommands DEF SendKeyframe, slot_vars, toy_vars, TypeOK
  <2>2. ASSUME NEW h \in Gens, Owes(h, x)
        PROVE  Excused(x)'
    <3>1. Newest(device[h], h)'
      BY <2>1, <2>2 DEF Owes, Newest
    <3>2. CASE h # g
      BY <2>1, <2>2, <3>1, <3>2 DEF Owes, Live
    <3>3. CASE h = g
      <4>1. todo'[g] # <<>> \/ Zero(g, x) \in sends'
        BY <1>6, <2>2, <3>3, KeyframeCommands DEF Owes
      <4> QED
        BY <2>1, <2>2, <3>1, <3>3, <4>1 DEF Owes, Live
    <3> QED
      BY <3>2, <3>3
  <2> QED
    BY <1>f, <2>1, <2>2
<1>7. ASSUME NEW g \in Gens, KeyframeSent(g)
      PROVE  Excused(x)'
  <2>1. /\ UNCHANGED <<toy, late, missed, main, device, aborted, todo, sends>>
        /\ phase[g] = "sending" /\ Zero(g, x) \notin sends
        /\ phase'[g] = IF todo[g] = <<>> THEN "locking" ELSE "sleeping"
        /\ \A h \in Gens \ {g} : phase'[h] = phase[h]
    BY <1>7, <1>t DEF KeyframeSent, slot_vars, toy_vars, SendsOf, TypeOK
  <2>2. ASSUME NEW h \in Gens, Owes(h, x)
        PROVE  Excused(x)'
    <3>1. Newest(device[h], h)'
      BY <2>1, <2>2 DEF Owes, Newest
    <3> QED
      BY <2>1, <2>2, <3>1 DEF Owes, Live
  <2> QED
    BY <1>f, <2>1, <2>2
<1>8. ASSUME NEW g \in Gens, Finish(g) \/ Reap(g)
      PROVE  Excused(x)'
  <2>1. /\ UNCHANGED <<toy, late, missed, main, device, aborted>>
        /\ phase[g] # "unborn" /\ phase'[g] = "finished"
        /\ \A h \in Gens \ {g} : phase'[h] = phase[h] /\ todo'[h] = todo[h]
        /\ \A s \in sends : s.gen # g => s \in sends'
    BY <1>8, <1>t DEF Finish, Reap, Live, slot_vars, toy_vars, SendsOf, TypeOK
  <2>2. ~Owes(g, x)
    <3>1. CASE g \in aborted
      BY <3>1 DEF Owes
    <3>2. CASE g \notin aborted
      <4>1. phase[g] = "locking" /\ todo[g] = <<>>
        BY <1>8, <3>2 DEF Finish, Reap, IInv, ToyInv, Todos
      <4>2. Zero(g, x) \notin sends
        BY <1>g, <3>2, <4>1 DEF IInv, ToyInv, Origins
      <4> QED
        BY <4>1, <4>2 DEF Owes
    <3> QED
      BY <3>1, <3>2
  <2>3. ASSUME NEW h \in Gens, Owes(h, x)
        PROVE  Excused(x)'
    <3>1. Newest(device[h], h)'
      BY <2>1, <2>3 DEF Owes, Newest
    <3>2. h # g
      BY <2>2, <2>3
    <3>3. Zero(h, x) \in sends => Zero(h, x) \in sends'
      BY <2>1, <3>2
    <3> QED
      BY <2>1, <2>3, <3>1, <3>2, <3>3 DEF Owes, Live
  <2>4. Zero(0, x) \in sends => Zero(0, x) \in sends'
    BY <1>g, <2>1
  <2> QED
    BY <1>f, <2>1, <2>3, <2>4
<1>9. ASSUME NEW s \in sends, Deliver(s)
      PROVE  Excused(x)'
  <2>1. /\ UNCHANGED <<main, device, phase, todo, aborted>> /\ sends' = sends \ {s}
        /\ s.toy \in Toys /\ s.gen \in {0} \union Gens
        /\ toy' = [toy EXCEPT ![s.toy] = s.level]
        /\ missed' = missed \ {s.toy}
        /\ late' = IF s.gen # 0 /\ (s.gen \in aborted \/ ~Newest(device[s.gen], s.gen))
                   THEN late \union {s.toy} ELSE late \ {s.toy}
    BY <1>9, <1>t DEF Deliver, slot_vars, task_vars, TypeOK, Commands
  <2>2. CASE x = s.toy /\ x \notin late'
    <3>1. s.level > 0
      BY <1>t, <2>1, <2>2 DEF TypeOK
    <3>2. s.gen # 0
      BY <3>1 DEF IInv, ToyInv, Origins
    <3>3. s.gen \notin aborted /\ Newest(device[s.gen], s.gen)
      BY <2>1, <2>2, <3>2
    <3>4. /\ x \in TargetsOf[device[s.gen]]
          /\ phase[s.gen] = "sending" /\ todo[s.gen] # <<>>
      BY <2>2, <3>1, <3>2, <3>3 DEF IInv, ToyInv, Origins
    <3>5. Owes(s.gen, x)'
      BY <2>1, <3>3, <3>4 DEF Owes, Live, Newest
    <3> QED
      BY <2>1, <3>2, <3>5
  <2>3. CASE x # s.toy
    <3>1. toy[x] > 0
      BY <1>t, <2>1, <2>3 DEF TypeOK
    <3>2. \A g : Zero(g, x) \in sends => Zero(g, x) \in sends'
      BY <2>1, <2>3
    <3>3. \A g \in Gens : Owes(g, x) => Owes(g, x)'
      BY <2>1, <3>2 DEF Owes, Live, Newest
    <3>4. x \in late \union missed => x \in late' \union missed'
      BY <2>1, <2>3
    <3> QED
      BY <1>o, <2>1, <3>1, <3>2, <3>3, <3>4
  <2> QED
    BY <2>2, <2>3
<1>10. ASSUME NEW s \in sends, SendFails(s)
       PROVE  Excused(x)'
  <2>1. /\ UNCHANGED <<main, device, phase, todo, aborted, toy, late>> /\ sends' = sends \ {s}
        /\ missed \subseteq missed'
        /\ s.level = 0 => s.toy \in missed'
    BY <1>10 DEF SendFails, slot_vars, task_vars
  <2>2. CASE x = s.toy /\ s.level = 0
    BY <2>1, <2>2
  <2>3. CASE ~(x = s.toy /\ s.level = 0)
    <3>1. \A g : Zero(g, x) \in sends => Zero(g, x) \in sends'
      BY <2>1, <2>3
    <3>2. \A g \in Gens : Owes(g, x) => Owes(g, x)'
      BY <2>1, <3>1 DEF Owes, Live, Newest
    <3> QED
      BY <1>o, <2>1, <3>1, <3>2
  <2> QED
    BY <2>2, <2>3
<1>11. CASE /\ UNCHANGED <<device, phase, todo, aborted, sends, toy, late, missed>>
            /\ main' = main \/ main = "stopping"
  <2>1. \A g \in Gens : Owes(g, x) => Owes(g, x)'
    BY <1>11 DEF Owes, Live, Newest
  <2> QED
    BY <1>f, <1>11, <2>1
<1>12. \/ \E d \in DeviceIds, schedule \in Schedules : schedule_sequence(d, schedule)
       \/ InsertHandle
       \/ \E d \in DeviceIds : stop(d)
       \/ stop_all
       \/ StopAllDevices \/ StopAllFails \/ Exit
       \/ \E g \in Gens : SendKeyframe(g)
       \/ \E g \in Gens : KeyframeSent(g)
       \/ \E g \in Gens : Finish(g) \/ Reap(g)
       \/ \E s \in sends : Deliver(s)
       \/ \E s \in sends : SendFails(s)
       \/ /\ UNCHANGED <<device, phase, todo, aborted, sends, toy, late, missed>>
          /\ main' = main \/ main = "stopping"
  BY DEF PlaybackNext, MainReturns, TaskStep, Exited, StopReturns, Handover, set_scale, vars,
     task_vars, slot_vars, toy_vars
<1> QED
  BY <1>1, <1>2, <1>3, <1>4, <1>5, <1>6, <1>7, <1>8, <1>9, <1>10, <1>11, <1>12

(* Once main has called stop_all it calls nothing else, and a command of a *)
(* sequence is that of an aborted one.                                     *)
LEMMA AfterStopAllStep == IInv /\ [PlaybackNext]_vars => AfterStopAll'
<1> DEFINE Ending == {"stopping_all", "stopped_all", "exited"}
<1> SUFFICES ASSUME IInv, [PlaybackNext]_vars, main' \in Ending PROVE AfterStopAll'
  BY DEF AfterStopAll
<1>t. TypeOK /\ TypeOK'
  BY TypeStep DEF IInv, SlotInv
<1>1. CASE stop_all
  BY <1>1 DEF stop_all, AfterStopAll
<1>2. CASE main \in Ending
  <2>1. /\ \A d \in DeviceIds : tasks[d] = 0
        /\ main # "stopping_all" => \A x \in Toys : toy[x] > 0 => x \in late \union missed
    BY <1>2 DEF IInv, ToyInv, AfterStopAll
  <2>2. CASE StopAllDevices \/ StopAllFails \/ Exit
    BY <2>1, <2>2 DEF StopAllDevices, StopAllFails, Exit, AfterStopAll, slot_vars, toy_vars
  <2>3. ASSUME NEW g \in Gens, Finish(g) PROVE AfterStopAll'
    <3>1. /\ UNCHANGED <<main, toy, late, missed>>
          /\ \A d \in DeviceIds : tasks'[d] \in {tasks[d], 0}
      BY <1>t, <2>3 DEF Finish, toy_vars, TypeOK
    <3> QED
      BY <2>1, <3>1 DEF AfterStopAll
  <2>4. ASSUME NEW s \in sends, Deliver(s) PROVE AfterStopAll'
    <3>1. /\ UNCHANGED <<main, tasks>> /\ s.toy \in Toys /\ s.gen \in {0} \union Gens
          /\ toy' = [toy EXCEPT ![s.toy] = s.level]
          /\ missed' = missed \ {s.toy}
          /\ late' = IF s.gen # 0 /\ (s.gen \in aborted \/ ~Newest(device[s.gen], s.gen))
                     THEN late \union {s.toy} ELSE late \ {s.toy}
      BY <1>t, <2>4 DEF Deliver, slot_vars, TypeOK, Commands
    <3>2. CASE s.gen = 0
      <4>1. s.level = 0
        BY <3>2 DEF IInv, ToyInv, Origins
      <4> QED
        BY <1>t, <2>1, <3>1, <4>1 DEF AfterStopAll, TypeOK
    <3>3. CASE s.gen # 0
      <4>1. s.gen \in aborted
        <5> SUFFICES ASSUME s.gen \notin aborted PROVE FALSE
          OBVIOUS
        <5>1. phase[s.gen] = "sending" /\ s.gen \in Gens
          BY <3>1, <3>3 DEF IInv, ToyInv, Origins
        <5>2. tasks[device[s.gen]] = s.gen
          BY <1>2, <5>1 DEF IInv, SlotInv, SlotsOK, NoOrphanPlayback, Live
        <5>3. device[s.gen] \in DeviceIds
          BY <1>t, <5>1 DEF TypeOK
        <5> QED
          BY <2>1, <3>3, <5>2, <5>3
      <4> QED
        BY <1>t, <2>1, <3>1, <3>3, <4>1 DEF AfterStopAll, TypeOK
    <3> QED
      BY <3>2, <3>3
  <2>5. ASSUME NEW s \in sends, SendFails(s) PROVE AfterStopAll'
    <3>1. UNCHANGED <<main, tasks, toy, late>> /\ missed \subseteq missed'
      BY <2>5 DEF SendFails, slot_vars
    <3> QED
      BY <2>1, <3>1 DEF AfterStopAll
  <2>6. CASE UNCHANGED <<main, tasks, toy, late, missed>>
    BY <2>1, <2>6 DEF AfterStopAll
  <2> QED
    BY <1>2, <2>2, <2>3, <2>4, <2>5, <2>6
    DEF PlaybackNext, MainReturns, TaskStep, Exited, schedule_sequence, InsertHandle, stop, stop_all,
        StopReturns, SendKeyframe, KeyframeSent, Reap, Handover, set_scale, vars, slot_vars, toy_vars
<1>3. CASE main \notin Ending /\ ~stop_all
  BY <1>3
  DEF PlaybackNext, MainReturns, TaskStep, Exited, schedule_sequence, InsertHandle, stop, StopReturns,
      StopAllDevices, StopAllFails, Exit, SendKeyframe, KeyframeSent, Finish, Reap, Handover, Deliver,
      SendFails, set_scale, vars
<1> QED
  BY <1>1, <1>2, <1>3

-----------------------------------------------------------------------------
(* What playback.rs keeps true of its slots, tasks, commands and toys,     *)
(* together: the invariant the theorems below follow from.                 *)
THEOREM InductiveInvariant == PlaybackSpec => []IInv
<1>1. PlaybackInit => IInv
  BY InitSlotInv, InitToyInv DEF IInv
<1>2. IInv /\ [PlaybackNext]_vars => IInv'
  BY SlotStep, TodosStep, OriginsStep, ZeroOwedStep, AfterStopAllStep DEF IInv, ToyInv
<1> QED
  BY <1>1, <1>2, PTL DEF PlaybackSpec

(* Every variable of the player keeps its type. *)
THEOREM TypeCorrect == PlaybackSpec => []TypeOK
<1>1. IInv => TypeOK
  BY DEF IInv, SlotInv
<1> QED
  BY <1>1, InductiveInvariant, PTL

(* No sequence that may still send escapes the next stop or schedule of    *)
(* its device.                                                             *)
THEOREM NothingOrphaned == PlaybackSpec => []NoOrphanPlayback
<1>1. IInv => NoOrphanPlayback
  BY DEF IInv, SlotInv, SlotsOK
<1> QED
  BY <1>1, InductiveInvariant, PTL

(* A slot holds the youngest sequence of its device, not aborted. *)
THEOREM SlotsCorrect == PlaybackSpec => []SlotHoldsNewest
<1>1. IInv => SlotHoldsNewest
  BY DEF IInv, SlotInv, SlotsOK
<1> QED
  BY <1>1, InductiveInvariant, PTL

(* The comment at playback.rs:42-45: a task that was replaced never        *)
(* deletes the bookkeeping of the one that replaced it.                    *)
THEOREM BookkeepingSafe == PlaybackSpec => SupersededLeavesSlotAlone
<1> DEFINE Step == \A d \in DeviceIds :
                      tasks'[d] # tasks[d] /\ main' = main =>
                          /\ tasks'[d] = 0
                          /\ phase[tasks[d]] = "locking" /\ phase'[tasks[d]] = "finished"
<1>1. TypeOK /\ [PlaybackNext]_vars => [Step]_vars
  <2> SUFFICES ASSUME TypeOK, [PlaybackNext]_vars, NEW d \in DeviceIds,
                      tasks'[d] # tasks[d], main' = main
               PROVE  /\ tasks'[d] = 0
                      /\ phase[tasks[d]] = "locking" /\ phase'[tasks[d]] = "finished"
    OBVIOUS
  <2>1. PICK g \in Gens : Finish(g)
    BY DEF PlaybackNext, MainReturns, TaskStep, Exited, schedule_sequence, InsertHandle, stop,
       stop_all, StopReturns, StopAllDevices, StopAllFails, Exit, SendKeyframe, KeyframeSent,
       Reap, Handover, Deliver, SendFails, set_scale, vars, slot_vars
  <2> QED
    BY <2>1 DEF Finish, TypeOK
<1> QED
  BY <1>1, TypeCorrect, PTL DEF SupersededLeavesSlotAlone, PlaybackSpec

(* At rest, and when the process has ended, a toy still on lost its zero   *)
(* or was told so last by a sequence already aborted or superseded.        *)
THEOREM QuietAtRest == PlaybackSpec => []OnlyStaleOrLostCommandsStick
<1>1. IInv => OnlyStaleOrLostCommandsStick
  BY DEF IInv, ToyInv, ZeroOwed, AfterStopAll, OnlyStaleOrLostCommandsStick, AtRest, Owes
<1> QED
  BY <1>1, InductiveInvariant, PTL
=============================================================================
