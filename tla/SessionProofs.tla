--------------------------- MODULE SessionProofs ---------------------------
(***************************************************************************)
(* Proofs about Session, for any pads, toys, delays, jitter and gestures:  *)
(* the daemon connects in time and never ends with toys set going that     *)
(* were not told to stop; a gesture becomes a sequence Playback can play,  *)
(* with the strength its effect says; and its commands come in time.       *)
(***************************************************************************)
EXTENDS Session, InterpolationProofs

(* While the daemon sleeps between attempts, the time the server has been  *)
(* there and the time left to sleep make up at most one capped delay.      *)
SleepBounded ==
    /\ stage = "connecting" /\ ~server => waited = 0
    /\ waited + sleep <= MAX_DELAY
    /\ stage = "connecting" => sleep >= -late

(* Toys are set going in the running stage only, and the stages after it   *)
(* are reached through stop_all.                                           *)
ToldInv ==
    /\ first # NONE => stage \in {"running", "stopping", "returned", "gone"}
    /\ stage \in {"returned", "gone"} /\ first # NONE => told \/ ~server

Inv == DaemonTypeOK /\ SleepBounded /\ ToldInv

LEMMA InitInv == SessionInit => Inv
<1> SUFFICES ASSUME SessionInit PROVE Inv
  OBVIOUS
<1> USE DEF SessionInit, DaemonInit
<1>1. /\ delay \in INITIAL_DELAY .. MAX_DELAY
      /\ sleep \in -JITTER .. MAX_DELAY
      /\ waited \in Nat
      /\ late \in 0 .. JITTER
  BY DaemonAssumption
<1>2. DaemonTypeOK
  BY <1>1 DEF DaemonTypeOK, Stages
<1>3. SleepBounded
  BY DaemonAssumption DEF SleepBounded
<1>4. ToldInv
  BY DEF ToldInv
<1> QED
  BY <1>2, <1>3, <1>4 DEF Inv

(* The delay stays between its two ends. *)
LEMMA RetryFacts ==
    ASSUME delay \in INITIAL_DELAY .. MAX_DELAY, Retry
    PROVE  delay' \in INITIAL_DELAY .. MAX_DELAY
BY DaemonAssumption DEF Retry

LEMMA NextInv == Inv /\ [SessionNext]_vars => Inv'
<1> SUFFICES ASSUME Inv, [SessionNext]_vars PROVE Inv'
  OBVIOUS
<1> USE DEF Inv
<1>1. CASE connect_with_retry /\ late' = 0 /\ UNCHANGED session_vars
  <2> USE <1>1 DEF connect_with_retry, session_vars
  <2>1. CASE server
    BY <2>1, DaemonAssumption DEF DaemonTypeOK, SleepBounded, ToldInv, Stages
  <2>2. CASE ~server
    <3>1. delay' \in INITIAL_DELAY .. MAX_DELAY
      BY <2>2, RetryFacts DEF DaemonTypeOK
    <3> QED
      BY <2>2, <3>1, DaemonAssumption DEF DaemonTypeOK, SleepBounded, ToldInv
  <2> QED
    BY <2>1, <2>2
<1>2. CASE load_probe /\ late' = 0 /\ UNCHANGED session_vars
  BY <1>2, DaemonAssumption DEF load_probe, session_vars, DaemonTypeOK, SleepBounded, ToldInv, Stages
<1>3. ASSUME NEW listed \in SUBSET Pads, spawn_readers(listed), late' = 0, UNCHANGED session_vars
      PROVE  Inv'
  BY <1>3, DaemonAssumption DEF spawn_readers, session_vars, DaemonTypeOK, SleepBounded, ToldInv, Stages
<1>4. CASE StopAllReturns /\ late' = 0 /\ UNCHANGED session_vars
  BY <1>4, DaemonAssumption DEF StopAllReturns, session_vars, DaemonTypeOK, SleepBounded, ToldInv, Stages
<1>5. CASE DropRuntime /\ late' = 0 /\ UNCHANGED session_vars
  BY <1>5, DaemonAssumption DEF DropRuntime, session_vars, DaemonTypeOK, SleepBounded, ToldInv, Stages
<1>6. CASE StopAll
  BY <1>6, DaemonAssumption DEF StopAll, stop_all, DaemonTypeOK, SleepBounded, ToldInv, Stages
<1>7. CASE handle_effect_uploaded \/ handle_ff_event \/ Answered
  BY <1>7, DaemonAssumption DEF handle_effect_uploaded, handle_ff_event, Answered, Playing, daemon_vars,
     DaemonTypeOK, SleepBounded, ToldInv, Stages
<1>8. CASE SendKeyframe
  <2>1. stage = "running" /\ late' = 0 /\ UNCHANGED daemon_vars
    BY <1>8 DEF SendKeyframe, Due, Playing
  <2> QED
    BY <2>1, DaemonAssumption DEF daemon_vars, DaemonTypeOK, SleepBounded, ToldInv, Stages
<1>9. CASE Gesture
  <2>1. UNCHANGED <<daemon_vars, late, first>>
    BY <1>9 DEF Gesture, UploadAndPlay
  <2> QED
    BY <2>1 DEF daemon_vars, DaemonTypeOK, SleepBounded, ToldInv
<1>10. CASE Outside
  <2>0. UNCHANGED <<late, first>>
    BY <1>10 DEF Outside, session_vars
  <2>1. CASE Signal
    BY <2>0, <2>1, DaemonAssumption DEF Signal, Unguarded, DaemonTypeOK, SleepBounded, ToldInv, Stages
  <2>2. CASE ServerChanges
    BY <2>0, <2>2, DaemonAssumption DEF ServerChanges, DaemonTypeOK, SleepBounded, ToldInv, Stages
  <2>3. CASE StdinEnds \/ rescan_devices
    BY <2>0, <2>3 DEF StdinEnds, rescan_devices, DaemonTypeOK, SleepBounded, ToldInv
  <2> QED
    BY <1>10, <2>1, <2>2, <2>3 DEF Outside
<1>11. CASE Tick
  <2>1. /\ UNCHANGED <<stage, server, delay, stdin, readers, signalled, told, first>>
        /\ sleep' = IF stage = "connecting" THEN sleep - 1 ELSE sleep
        /\ waited' = IF stage = "connecting" /\ server THEN waited + 1 ELSE waited
        /\ Waiting => late < JITTER
        /\ late' = IF Waiting THEN late + 1 ELSE 0
    BY <1>11 DEF Tick, DaemonTick
  <2>2. stage = "connecting" /\ sleep <= 0 => Waiting
    BY DEF Waiting, DaemonDue
  <2>3. late' \in 0 .. JITTER
    BY <2>1, DaemonAssumption DEF DaemonTypeOK
  <2>4. stage = "connecting" => sleep' >= -late'
    BY <2>1, <2>2, <2>3, DaemonAssumption DEF DaemonTypeOK, SleepBounded
  <2> QED
    BY <2>1, <2>3, <2>4, DaemonAssumption DEF DaemonTypeOK, SleepBounded, ToldInv
<1>12. CASE UNCHANGED vars
  BY <1>12 DEF vars, daemon_vars, session_vars, DaemonTypeOK, SleepBounded, ToldInv
<1> QED
  BY <1>1, <1>2, <1>3, <1>4, <1>5, <1>6, <1>7, <1>8, <1>9, <1>10, <1>11, <1>12
     DEF SessionNext, MainStep, Lifecycle, DaemonStep, SequenceStep

(* What the daemon's life keeps true, whatever the world outside does. *)
THEOREM LifeInvariant == SessionSpec => []Inv
<1>1. SessionInit => Inv
  BY InitInv
<1>2. Inv /\ [SessionNext]_vars => Inv'
  BY NextInv
<1> QED
  BY <1>1, <1>2, PTL DEF SessionSpec

(* The daemon connects within one capped delay and one late step of the    *)
(* server's being there, for any delays (playback.rs:59-80).               *)
THEOREM ConnectsSoon == SessionSpec => []ConnectsInTime
<1>1. Inv => ConnectsInTime
  <2> SUFFICES ASSUME Inv PROVE ConnectsInTime
    OBVIOUS
  <2>1. CASE stage = "connecting"
    BY <2>1, DaemonAssumption DEF Inv, DaemonTypeOK, SleepBounded, ConnectsInTime
  <2>2. CASE stage # "connecting"
    BY <2>2, DaemonAssumption DEF Inv, DaemonTypeOK, SleepBounded, ConnectsInTime
  <2> QED
    BY <2>1, <2>2
<1> QED
  BY <1>1, LifeInvariant, PTL

(* Toys that were set going are told to stop before main returns and       *)
(* before the process ends, unless the server has gone (main.rs:96-105).   *)
THEOREM ToldBeforeExit == SessionSpec => []ToysAreToldBeforeExit
<1>1. Inv => ToysAreToldBeforeExit
  BY DEF Inv, ToldInv, ToysAreToldBeforeExit
<1> QED
  BY <1>1, LifeInvariant, PTL

-----------------------------------------------------------------------------
(* The gesture on its way, and its sequence. *)

Keyframes(g) == interpolate_points(translate(capture(g)))

Frames == Seq([dt_ms : U16, intensity : 0 .. FULL])

(* Readers are spawned last before the loop: a Play is taken from then on. *)
(* Upload and Play of one gesture come together, and the second of them to *)
(* be handled begins the sequence.                                         *)
OnItsWay ==
    /\ stage \in {"connecting", "loading", "spawning"} => readers = {} /\ play \in {"none", "lost"}
    /\ upload \in {"queued", "handled"} => gesture \in Gestures /\ pad \in Pads
    /\ play \in {"queued", "held", "done"} => upload \in {"queued", "handled"}
    /\ play = "held" => upload = "queued"
    /\ play = "done" => upload = "handled"
    /\ play = "none" => upload = "none" /\ age = 0

(* The sequence is the gesture's, until a signal ends it, and what reaches *)
(* the toy comes from it.                                                  *)
Sequenced ==
    /\ play = "done" /\ stage = "running" => keyframes = Keyframes(gesture)
    /\ keyframes # <<>> => play = "done" /\ keyframes = Keyframes(gesture)
    /\ keyframes = <<>> => next = 1 /\ ~sending
    /\ sending => next <= Len(keyframes)
    /\ first # NONE => play = "done" /\ Reached(pad) # {} /\ Keyframes(gesture) # <<>>
    /\ last # NONE <=> first # NONE
    /\ keyframes # <<>> /\ next = 1 /\ ~sending => first = NONE

SessionInv == Inv /\ TypeOK /\ OnItsWay /\ Sequenced

(* At most one late step lies before each of: the first event handled, the *)
(* second, and the first keyframe.                                         *)
FirstTimed ==
    Undisturbed =>
        /\ upload = "queued" /\ play = "queued" => age <= late
        /\ play = "held" \/ (upload = "handled" /\ play = "queued") => age <= JITTER + late
        /\ play = "done" => start <= 2 * JITTER /\ start <= age
        /\ keyframes # <<>> /\ next = 1 /\ ~sending => age <= start + late
        /\ keyframes # <<>> /\ (next > 1 \/ sending) /\ Reached(pad) # {} =>
               first # NONE /\ first <= start + JITTER

(* How late keyframe i of n may be sent.  A keyframe is answered before    *)
(* the next is due, except for the last two, which may come close together.*)
Allowed(i, n) ==
    CASE i = 1 \/ i <= n - 2    -> JITTER
      [] i # 1 /\ i = n - 1     -> 3 * JITTER
      [] i # 1 /\ i > n - 1     -> 5 * JITTER

DueAt(i) == start + keyframes[i].dt_ms

(* The keyframe sent last. *)
Sent == IF sending THEN next ELSE next - 1

SequenceTimed ==
    Undisturbed /\ keyframes # <<>> =>
        /\ next <= Len(keyframes) /\ ~sending =>
               \/ age < DueAt(next)
               \/ age <= DueAt(next) + Allowed(next, Len(keyframes)) - JITTER + late
        /\ sending => age <= DueAt(next) + Allowed(next, Len(keyframes)) + late
        /\ last # NONE =>
               /\ Sent >= 1
               /\ last.value = keyframes[Sent].intensity
               /\ last.at \in DueAt(Sent) .. DueAt(Sent) + Allowed(Sent, Len(keyframes))

-----------------------------------------------------------------------------
(* What a gesture becomes. *)

(* The words of the union that translate looks at. *)
LEMMA Captured ==
    ASSUME NEW g \in Gestures
    PROVE  /\ capture(g) \in FfEffect
           /\ capture(g).kind = g.kind /\ capture(g).replay_length = g.length
           /\ g.length \in U16
           /\ g.kind = FF_CONSTANT =>
                  /\ capture(g).u[1] = g.params[1]
                  /\ Envelope(capture(g).u[2], capture(g).u[3], capture(g).u[4], capture(g).u[5])
                         = g.envelope
           /\ g.kind = FF_RAMP => capture(g).u[1] = g.params[1] /\ capture(g).u[2] = g.params[2]
<1> DEFINE e     == g.envelope
           rest  == <<e.attack_length, e.attack_level, e.fade_length, e.fade_level, 0, 0, 0>>
           words == g.params \o rest
<1>1. /\ g.kind \in U16 /\ g.length \in U16 /\ g.params \in Seq(U16) /\ e \in Envelopes
      /\ g.kind = FF_CONSTANT => Len(g.params) = 1
      /\ g.kind = FF_RAMP => Len(g.params) = 2
  BY GestureAssumption
<1>2. /\ rest \in Seq(U16) /\ Len(rest) = 7
      /\ rest[1] = e.attack_length /\ rest[2] = e.attack_level
      /\ rest[3] = e.fade_length /\ rest[4] = e.fade_level
  <2>1. /\ e.attack_length \in U16 /\ e.attack_level \in U16
        /\ e.fade_length \in U16 /\ e.fade_level \in U16
    BY <1>1 DEF Envelopes
  <2>2. 0 \in U16
    BY DEF U16
  <2> QED
    BY <2>1, <2>2
<1> DEFINE params == g.params
           n      == Len(params)
<1>3. n \in Nat
  BY <1>1
<1> HIDE DEF rest
<1>4. /\ words \in Seq(U16) /\ Len(words) = n + 7
      /\ \A i \in 1 .. n : words[i] = params[i]
      /\ \A i \in 1 .. 7 : words[n + i] = rest[i]
  <2> HIDE DEF params, n
  <2>1. params \in Seq(U16) /\ n = Len(params)
    BY <1>1 DEF params, n
  <2>2. /\ params \o rest \in Seq(U16) /\ Len(params \o rest) = Len(params) + Len(rest)
        /\ \A i \in 1 .. Len(params) + Len(rest) :
               (params \o rest)[i] = IF i <= Len(params) THEN params[i] ELSE rest[i - Len(params)]
    BY <1>2, <2>1, ConcatProperties
  <2>3. words = params \o rest
    BY DEF params
  <2>4. \A i \in 1 .. n : i \in 1 .. n + 7 /\ i <= n
    BY <1>3
  <2>5. \A i \in 1 .. 7 : n + i \in 1 .. n + 7 /\ ~(n + i <= n) /\ (n + i) - n = i
    BY <1>3
  <2> QED
    BY <1>2, <2>1, <2>2, <2>3, <2>4, <2>5
<1> DEFINE u == SubSeq(words, 1, 7)
<1>5. u \in [1 .. 7 -> U16] /\ \A i \in 1 .. 7 : u[i] = words[i]
  <2> HIDE DEF words
  <2>1. 7 <= Len(words) /\ Len(words) \in Nat
    BY <1>3, <1>4
  <2>2. \A i \in 1 .. 7 : i \in 1 .. Len(words)
    BY <2>1
  <2>3. \A i \in 1 .. 7 : words[i] \in U16
    BY <1>4, <2>2, ElementOfSeq
  <2>4. u = [i \in 1 .. 7 |-> words[i]]
    BY <1>4, <2>1
  <2> QED
    BY <2>3, <2>4
<1>6. capture(g) = [kind |-> g.kind, replay_length |-> g.length, u |-> u]
  BY DEF capture, rest
<1>7. /\ capture(g) \in FfEffect
      /\ capture(g).kind = g.kind /\ capture(g).replay_length = g.length
      /\ capture(g).u = u
  <2> HIDE DEF u
  <2> QED
    BY <1>1, <1>5, <1>6 DEF FfEffect
<1> HIDE DEF u, words
<1>8. ASSUME g.kind = FF_CONSTANT
      PROVE  u[1] = params[1] /\ Envelope(u[2], u[3], u[4], u[5]) = e
  <2>1. n = 1
    BY <1>1, <1>8
  <2>2. 1 \in 1 .. n /\ n + 1 = 2 /\ n + 2 = 3 /\ n + 3 = 4 /\ n + 4 = 5
    BY <2>1
  <2> HIDE DEF params, n, e
  <2>3. words[1] = params[1] /\ words[2] = rest[1] /\ words[3] = rest[2]
        /\ words[4] = rest[3] /\ words[5] = rest[4]
    BY <1>4, <2>2
  <2>4. u[1] = words[1] /\ u[2] = words[2] /\ u[3] = words[3] /\ u[4] = words[4] /\ u[5] = words[5]
    BY <1>5
  <2> QED
    BY <1>1, <1>2, <2>3, <2>4 DEF Envelope, Envelopes
<1>9. ASSUME g.kind = FF_RAMP
      PROVE  u[1] = params[1] /\ u[2] = params[2]
  <2>1. n = 2
    BY <1>1, <1>9
  <2>2. 1 \in 1 .. n /\ 2 \in 1 .. n
    BY <2>1
  <2> HIDE DEF params, n
  <2>3. words[1] = params[1] /\ words[2] = params[2]
    BY <1>4, <2>2
  <2>4. u[1] = words[1] /\ u[2] = words[2]
    BY <1>5
  <2> QED
    BY <2>3, <2>4
<1>10. g.kind = FF_CONSTANT =>
          /\ capture(g).u[1] = g.params[1]
          /\ Envelope(capture(g).u[2], capture(g).u[3], capture(g).u[4], capture(g).u[5]) = g.envelope
  BY <1>7, <1>8 DEF e, params
<1>11. g.kind = FF_RAMP => capture(g).u[1] = g.params[1] /\ capture(g).u[2] = g.params[2]
  BY <1>7, <1>9 DEF params
<1> QED
  BY <1>1, <1>7, <1>10, <1>11

LEMMA KindsAreKnown == Kinds = Known
BY DEF Kinds, Known

(* The schedule of any gesture, as Playback takes it. *)
LEMMA GesturePlays ==
    ASSUME NEW g \in Gestures
    PROVE  IF g.kind \in Kinds THEN Playable(Keyframes(g), g.length) ELSE Keyframes(g) = <<>>
BY Captured, EveryEffectPlays, KindsAreKnown DEF Keyframes

LEMMA GestureFrames ==
    ASSUME NEW g \in Gestures
    PROVE  /\ Keyframes(g) \in Frames
           /\ Keyframes(g) # <<>> =>
                  /\ g.kind \in Kinds /\ Playable(Keyframes(g), g.length)
                  /\ Len(Keyframes(g)) \in Nat \ {0}
<1>1. Keyframes(g) \in Frames
  <2>1. CASE g.kind \in Kinds
    BY <2>1, GesturePlays DEF Playable, Frames
  <2>2. CASE g.kind \notin Kinds
    <3>1. <<>> \in Frames
      BY DEF Frames
    <3> QED
      BY <2>2, <3>1, GesturePlays
  <2> QED
    BY <2>1, <2>2
<1>2. ASSUME Keyframes(g) # <<>> PROVE Len(Keyframes(g)) \in Nat \ {0}
  <2> DEFINE frames == Keyframes(g)
  <2> HIDE DEF frames
  <2>1. frames \in Frames /\ frames # <<>>
    BY <1>1, <1>2 DEF frames
  <2>2. Len(frames) \in Nat \ {0}
    BY <2>1, EmptySeq DEF Frames
  <2> QED
    BY <2>2 DEF frames
<1> QED
  BY <1>1, <1>2, GesturePlays

-----------------------------------------------------------------------------
(* The sequence is its gesture's. *)

LEMMA SessionInitInv == SessionInit => SessionInv
<1> SUFFICES ASSUME SessionInit PROVE SessionInv
  OBVIOUS
<1> USE DEF SessionInit, DaemonInit
<1>1. Inv
  BY InitInv
<1>2. TypeOK
  <2>1. age \in 0 .. AgeLimit /\ start \in 0 .. AgeLimit
    BY SessionAssumption
  <2>2. keyframes \in Seq([dt_ms : U16, intensity : 0 .. FULL]) /\ next \in 1 .. Len(keyframes) + 1
    OBVIOUS
  <2> QED
    BY <1>1, <2>1, <2>2 DEF TypeOK, Inv
<1>3. OnItsWay
  BY DEF OnItsWay
<1>4. Sequenced
  BY DEF Sequenced
<1> QED
  BY <1>1, <1>2, <1>3, <1>4 DEF SessionInv

(* The handler that comes second begins the sequence. *)
LEMMA BeginStep ==
    ASSUME SessionInv, Begin, play \in {"queued", "held"}
    PROVE  /\ gesture \in Gestures /\ pad \in Pads
           /\ keyframes = <<>> /\ next = 1 /\ ~sending /\ first = NONE /\ last = NONE
           /\ keyframes' = Keyframes(gesture) /\ keyframes' \in Frames
           /\ next' = 1 /\ start' = age /\ ~sending' /\ play' = "done"
<1>1. gesture \in Gestures /\ pad \in Pads
  BY DEF SessionInv, OnItsWay
<1>2. keyframes = <<>> /\ next = 1 /\ ~sending /\ first = NONE /\ last = NONE
  BY DEF SessionInv, Sequenced
<1>3. keyframes' = Keyframes(gesture)
  BY DEF Begin, Keyframes, Points
<1> QED
  BY <1>1, <1>2, <1>3, GestureFrames DEF Begin

LEMMA FrameFields ==
    ASSUME NEW f \in Frames, NEW i \in 1 .. Len(f)
    PROVE  /\ f # <<>> /\ Len(f) \in Nat
           /\ f[i].dt_ms \in Nat /\ f[i].intensity \in 0 .. FULL
<1>1. f # <<>> /\ Len(f) \in Nat
  BY DEF Frames
<1>2. f[i] \in [dt_ms : U16, intensity : 0 .. FULL]
  BY ElementOfSeq DEF Frames
<1> QED
  BY <1>1, <1>2, U16IsNat

(* Where a sequence of its own is begun or stepped, the types are kept. *)
LEMMA SequenceTypes ==
    ASSUME NEW f \in Frames
    PROVE  1 \in 1 .. Len(f) + 1 /\ Len(f) \in Nat
BY DEF Frames

LEMMA SessionNextInv == SessionInv /\ [SessionNext]_vars => SessionInv'
<1> SUFFICES ASSUME SessionInv, [SessionNext]_vars PROVE SessionInv'
  OBVIOUS
<1>0. Inv' /\ DaemonTypeOK'
  BY NextInv DEF SessionInv, Inv
<1>types. TypeOK /\ OnItsWay /\ Sequenced /\ AgeLimit \in Nat /\ NONE \notin Nat
  BY SessionAssumption DEF SessionInv
<1>1. CASE Lifecycle
  <2>1. UNCHANGED session_vars
    BY <1>1 DEF Lifecycle
  <2>2. TypeOK'
    BY <1>0, <1>types, <2>1 DEF TypeOK, session_vars
  <2>3. /\ stage' \in {"connecting", "loading", "spawning"} =>
               stage \in {"connecting", "loading", "spawning"} /\ readers' = readers
        /\ stage' = "running" => stage \in {"connecting", "loading", "spawning"}
    BY <1>1 DEF Lifecycle, DaemonStep, connect_with_retry, load_probe, spawn_readers, StopAllReturns,
       DropRuntime
  <2>4. OnItsWay'
    BY <1>types, <2>1, <2>3 DEF OnItsWay, session_vars
  <2>5. Sequenced'
    <3>1. stage' = "running" => play # "done"
      BY <1>types, <2>3 DEF OnItsWay
    <3> QED
      BY <1>types, <2>1, <3>1 DEF Sequenced, session_vars, Reached
  <2> QED
    BY <1>0, <2>2, <2>4, <2>5 DEF SessionInv
<1>2. CASE StopAll
  <2>1. /\ stage = "running" /\ stage' = "stopping" /\ readers' = readers
        /\ keyframes' = <<>> /\ next' = 1 /\ start' = 0 /\ sending' = FALSE
        /\ UNCHANGED <<gesture, pad, event_vars, age, first, last>>
    BY <1>2 DEF StopAll, stop_all
  <2>2. TypeOK'
    <3>1. keyframes' \in Seq([dt_ms : U16, intensity : 0 .. FULL]) /\ next' \in 1 .. Len(keyframes') + 1
      BY <2>1
    <3>2. start' \in 0 .. AgeLimit
      <4>1. 0 \in 0 .. AgeLimit
        BY SessionAssumption
      <4> QED
        BY <2>1, <4>1
    <3>3. sending' \in BOOLEAN
      BY <2>1
    <3>4. UNCHANGED <<gesture, pad, event_vars, age, first, last>>
      BY <2>1
    <3> QED
      BY <1>0, <1>types, <3>1, <3>2, <3>3, <3>4 DEF TypeOK, event_vars
  <2>3. OnItsWay'
    BY <1>types, <2>1 DEF OnItsWay, event_vars
  <2>4. Sequenced'
    BY <1>types, <2>1 DEF Sequenced, event_vars, Reached
  <2> QED
    BY <1>0, <2>2, <2>3, <2>4 DEF SessionInv
<1>3. CASE handle_effect_uploaded
  <2>1. /\ stage = "running" /\ upload = "queued" /\ upload' = "handled"
        /\ UNCHANGED <<daemon_vars, gesture, pad, age, first, last>>
    BY <1>3 DEF handle_effect_uploaded
  <2>2. CASE play = "held"
    <3>1. Begin
      BY <1>3, <2>2 DEF handle_effect_uploaded
    <3>2. /\ gesture \in Gestures /\ pad \in Pads /\ first = NONE /\ last = NONE
          /\ keyframes' = Keyframes(gesture) /\ keyframes' \in Frames
          /\ next' = 1 /\ start' = age /\ ~sending' /\ play' = "done"
      BY <2>2, <3>1, BeginStep
    <3>3. 1 \in 1 .. Len(keyframes') + 1
      BY <3>2, SequenceTypes
    <3>4. TypeOK'
      BY <1>0, <1>types, <2>1, <3>1, <3>2, <3>3 DEF TypeOK, Frames, Begin
    <3>5. OnItsWay'
      BY <1>types, <2>1, <3>2 DEF OnItsWay, daemon_vars
    <3>6. Sequenced'
      BY <2>1, <3>2 DEF Sequenced, daemon_vars, Reached
    <3> QED
      BY <1>0, <3>4, <3>5, <3>6 DEF SessionInv
  <2>3. CASE play # "held"
    <3>1. UNCHANGED <<play, sequence_vars>>
      BY <1>3, <2>3 DEF handle_effect_uploaded
    <3>2. TypeOK'
      BY <1>0, <1>types, <2>1, <3>1 DEF TypeOK, sequence_vars
    <3>3. OnItsWay'
      BY <1>types, <2>1, <2>3, <3>1 DEF OnItsWay, daemon_vars
    <3>4. Sequenced'
      BY <1>types, <2>1, <3>1 DEF Sequenced, daemon_vars, sequence_vars, Reached
    <3> QED
      BY <1>0, <3>2, <3>3, <3>4 DEF SessionInv
  <2> QED
    BY <2>2, <2>3
<1>4. CASE handle_ff_event
  <2>1. /\ stage = "running" /\ play = "queued" /\ upload' = upload
        /\ UNCHANGED <<daemon_vars, gesture, pad, age, first, last>>
    BY <1>4 DEF handle_ff_event
  <2>2. CASE upload = "handled"
    <3>1. Begin
      BY <1>4, <2>2 DEF handle_ff_event
    <3>2. /\ gesture \in Gestures /\ pad \in Pads /\ first = NONE /\ last = NONE
          /\ keyframes' = Keyframes(gesture) /\ keyframes' \in Frames
          /\ next' = 1 /\ start' = age /\ ~sending' /\ play' = "done"
      BY <2>1, <3>1, BeginStep
    <3>3. 1 \in 1 .. Len(keyframes') + 1
      BY <3>2, SequenceTypes
    <3>4. TypeOK'
      BY <1>0, <1>types, <2>1, <3>1, <3>2, <3>3 DEF TypeOK, Frames, Begin
    <3>5. OnItsWay'
      BY <1>types, <2>1, <2>2, <3>2 DEF OnItsWay, daemon_vars
    <3>6. Sequenced'
      BY <2>1, <3>2 DEF Sequenced, daemon_vars, Reached
    <3> QED
      BY <1>0, <3>4, <3>5, <3>6 DEF SessionInv
  <2>3. CASE upload # "handled"
    <3>1. play' = "held" /\ UNCHANGED sequence_vars
      BY <1>4, <2>3 DEF handle_ff_event
    <3>2. TypeOK'
      BY <1>0, <1>types, <2>1, <3>1 DEF TypeOK, sequence_vars
    <3>3. OnItsWay'
      BY <1>types, <2>1, <2>3, <3>1 DEF OnItsWay, daemon_vars
    <3>4. Sequenced'
      BY <1>types, <2>1, <3>1 DEF Sequenced, daemon_vars, sequence_vars, Reached
    <3> QED
      BY <1>0, <3>2, <3>3, <3>4 DEF SessionInv
  <2> QED
    BY <2>2, <2>3
<1>5. CASE Gesture
  <2>1. /\ play = "none" /\ UNCHANGED <<daemon_vars, late, age, sequence_vars, first, last>>
        /\ \/ \E p \in Pads, g \in Gestures : UploadAndPlay(p, g)
           \/ upload' = "lost" /\ play' = "lost" /\ UNCHANGED <<gesture, pad>>
    BY <1>5 DEF Gesture, UploadAndPlay
  <2>2. /\ gesture' \in Gestures \union {NONE} /\ pad' \in Pads \union {NONE}
        /\ play' \in {"queued", "lost"} /\ upload' \in {"queued", "lost"}
        /\ upload' = "queued" => gesture' \in Gestures /\ pad' \in Pads
        /\ play' = "queued" => upload' = "queued" /\ readers # {}
    BY <1>types, <2>1 DEF UploadAndPlay, TypeOK
  <2>3. keyframes = <<>> /\ first = NONE /\ last = NONE
    BY <1>types, <2>1 DEF Sequenced
  <2>4. TypeOK'
    BY <1>0, <1>types, <2>1, <2>2 DEF TypeOK, sequence_vars
  <2>5. OnItsWay'
    BY <1>types, <2>1, <2>2 DEF OnItsWay, daemon_vars
  <2>6. Sequenced'
    <3>1. play' # "done"
      BY <2>2
    <3> QED
      BY <1>types, <2>1, <2>3, <3>1 DEF Sequenced, sequence_vars
  <2> QED
    BY <1>0, <2>4, <2>5, <2>6 DEF SessionInv
<1>6. CASE SendKeyframe
  <2>1. /\ stage = "running" /\ next <= Len(keyframes) /\ ~sending /\ sending' = TRUE
        /\ UNCHANGED <<daemon_vars, gesture, pad, event_vars, age, keyframes, next, start>>
    BY <1>6 DEF SendKeyframe, Due, Playing
  <2>2. keyframes \in Frames /\ next \in 1 .. Len(keyframes)
    BY <1>types, <2>1 DEF TypeOK, Frames
  <2>3. keyframes # <<>> /\ keyframes[next].intensity \in 0 .. FULL
    BY <2>2, FrameFields
  <2>4. \/ UNCHANGED <<first, last>>
        \/ /\ Reached(pad) # {}
           /\ last' = [at |-> age, value |-> keyframes[next].intensity]
           /\ first' = IF first = NONE THEN age ELSE first
    BY <1>6 DEF SendKeyframe, OutputCmd
  <2>5. age \in 0 .. AgeLimit /\ age # NONE
    BY <1>types DEF TypeOK
  <2>6. last' # NONE <=> first' # NONE
    <3>1. last' = [at |-> age, value |-> keyframes[next].intensity] => last' # NONE
      BY <2>3, <2>5, SessionAssumption
    <3> QED
      BY <1>types, <2>4, <2>5, <3>1 DEF Sequenced
  <2>7. TypeOK'
    <3>1. first' \in 0 .. AgeLimit \union {NONE}
      BY <1>types, <2>4, <2>5 DEF TypeOK
    <3>2. last' \in [at : 0 .. AgeLimit, value : 0 .. FULL] \union {NONE}
      BY <1>types, <2>3, <2>4, <2>5 DEF TypeOK
    <3> QED
      BY <1>0, <1>types, <2>1, <3>1, <3>2 DEF TypeOK, event_vars
  <2>8. OnItsWay'
    BY <1>types, <2>1 DEF OnItsWay, daemon_vars, event_vars
  <2>9. Sequenced'
    <3>1. play = "done" /\ keyframes = Keyframes(gesture)
      BY <1>types, <2>3 DEF Sequenced
    <3>2. first' # NONE => Reached(pad) # {}
      BY <1>types, <2>4 DEF Sequenced
    <3> QED
      BY <2>1, <2>3, <2>6, <3>1, <3>2 DEF Sequenced, event_vars, Reached
  <2> QED
    BY <1>0, <2>7, <2>8, <2>9 DEF SessionInv
<1>7. CASE Answered
  <2>1. /\ stage = "running" /\ next <= Len(keyframes) /\ sending /\ sending' = FALSE
        /\ next' = next + 1
        /\ UNCHANGED <<daemon_vars, gesture, pad, event_vars, age, keyframes, start, first, last>>
    BY <1>7 DEF Answered, Playing
  <2>2. keyframes \in Frames /\ Len(keyframes) \in Nat /\ next \in 1 .. Len(keyframes)
    BY <1>types, <2>1 DEF TypeOK, Frames
  <2>3. keyframes # <<>> /\ next' \in 2 .. Len(keyframes) + 1
    BY <2>1, <2>2
  <2>4. TypeOK'
    <3>1. next' \in 1 .. Len(keyframes) + 1
      BY <2>2, <2>3
    <3> QED
      BY <1>0, <1>types, <2>1, <3>1 DEF TypeOK, event_vars
  <2>5. OnItsWay'
    BY <1>types, <2>1 DEF OnItsWay, daemon_vars, event_vars
  <2>6. Sequenced'
    <3>1. next' # 1
      BY <2>2, <2>3
    <3> QED
      BY <1>types, <2>1, <2>3, <3>1 DEF Sequenced, daemon_vars, event_vars, Reached
  <2> QED
    BY <1>0, <2>4, <2>5, <2>6 DEF SessionInv
<1>8. CASE Outside
  <2>1. UNCHANGED session_vars
    BY <1>8 DEF Outside
  <2>2. /\ stage' \in {"connecting", "loading", "spawning"} => stage' = stage /\ readers' = readers
        /\ stage' = "running" => stage = "running"
    BY <1>8 DEF Outside, Signal, ServerChanges, StdinEnds, rescan_devices
  <2>3. TypeOK'
    BY <1>0, <1>types, <2>1 DEF TypeOK, session_vars
  <2>4. OnItsWay'
    BY <1>types, <2>1, <2>2 DEF OnItsWay, session_vars
  <2>5. Sequenced'
    BY <1>types, <2>1, <2>2 DEF Sequenced, session_vars, Reached
  <2> QED
    BY <1>0, <2>3, <2>4, <2>5 DEF SessionInv
<1>9. CASE Tick
  <2>1. /\ UNCHANGED <<stage, readers, gesture, pad, event_vars, sequence_vars, first, last>>
        /\ age' = IF Observed /\ age < AgeLimit THEN age + 1 ELSE age
    BY <1>9 DEF Tick, DaemonTick
  <2>2. age' \in 0 .. AgeLimit /\ (upload = "none" => age' = age)
    BY <1>types, <2>1 DEF TypeOK, Observed
  <2>3. TypeOK'
    BY <1>0, <1>types, <2>1, <2>2 DEF TypeOK, event_vars, sequence_vars
  <2>4. OnItsWay'
    BY <1>types, <2>1, <2>2 DEF OnItsWay, event_vars
  <2>5. Sequenced'
    BY <1>types, <2>1 DEF Sequenced, event_vars, sequence_vars, Reached
  <2> QED
    BY <1>0, <2>3, <2>4, <2>5 DEF SessionInv
<1>10. CASE UNCHANGED vars
  <2>1. UNCHANGED session_vars /\ UNCHANGED daemon_vars
    BY <1>10 DEF vars
  <2> QED
    BY <1>0, <1>types, <2>1 DEF TypeOK, OnItsWay, Sequenced, session_vars, daemon_vars, Reached, SessionInv
<1> QED
  BY <1>1, <1>2, <1>3, <1>4, <1>5, <1>6, <1>7, <1>8, <1>9, <1>10
     DEF SessionNext, MainStep, SequenceStep

(* From the upload to the last keyframe a gesture's state hangs together:  *)
(* what is stored, what is sent and what the toy has had belong to it.     *)
THEOREM GestureInvariant == SessionSpec => []SessionInv
<1>1. SessionInit => SessionInv
  BY SessionInitInv
<1>2. SessionInv /\ [SessionNext]_vars => SessionInv'
  BY SessionNextInv
<1> QED
  BY <1>1, <1>2, PTL DEF SessionSpec

(* Every value a gesture's handling stores is of its kind: a keyframe's    *)
(* time fits 16 bits and its intensity the range of a motor.               *)
THEOREM SessionTyped == SessionSpec => []TypeOK
<1>1. SessionInv => TypeOK
  BY DEF SessionInv
<1> QED
  BY <1>1, GestureInvariant, PTL

(* When a sequence begins its gesture is known, and so are its keyframes.  *)
LEMMA BegunFacts ==
    ASSUME SessionInv, play = "done"
    PROVE  /\ gesture \in Gestures /\ pad \in Pads
           /\ keyframes # <<>> => keyframes = Keyframes(gesture)
BY DEF SessionInv, OnItsWay, Sequenced

(* Whatever effect is uploaded, if of a kind the daemon knows, Playback is *)
(* handed a schedule it can play (translate.rs, playback.rs:153-173).      *)
THEOREM SchedulesPlay == SessionSpec => []SchedulePlayable
<1>1. SessionInv => SchedulePlayable
  <2> SUFFICES ASSUME SessionInv, Begun, keyframes # <<>>
               PROVE  /\ keyframes[1].dt_ms = 0
                      /\ keyframes[Len(keyframes)] = HapticPoint(gesture.length, 0)
                      /\ \A i \in 2 .. Len(keyframes) :
                             keyframes[i].dt_ms - keyframes[i - 1].dt_ms \in 0 .. STEP_MS
    BY DEF SchedulePlayable
  <2>1. gesture \in Gestures /\ keyframes = Keyframes(gesture)
    BY BegunFacts DEF Begun
  <2>2. Playable(keyframes, gesture.length)
    BY <2>1, GestureFrames
  <2> QED
    BY <2>2 DEF Playable, GapsWithin
<1> QED
  BY <1>1, GestureInvariant, PTL

(* A sampled effect is sent as it was sampled, as long as the constant of  *)
(* translate.rs is not above its namesake in playback.rs.                  *)
THEOREM SamplesAreSent ==
    ASSUME SAMPLE_INTERVAL_MS <= STEP_MS
    PROVE  SessionSpec => []SamplesAreTheKeyframes
<1>1. SessionInv => SamplesAreTheKeyframes
  <2> SUFFICES ASSUME SessionInv, Begun, keyframes # <<>>, gesture.kind # FF_RUMBLE
               PROVE  keyframes = Points
    BY DEF SamplesAreTheKeyframes
  <2>1. gesture \in Gestures /\ keyframes = Keyframes(gesture)
    BY BegunFacts DEF Begun
  <2> QED
    BY <2>1, Captured, SamplesKept DEF Keyframes, Points
<1> QED
  BY <1>1, GestureInvariant, PTL

-----------------------------------------------------------------------------
(* How late commands are. *)

LEMMA UndisturbedFacts ==
    ASSUME SessionInv, Undisturbed
    PROVE  /\ gesture \in Gestures /\ pad \in Pads /\ stage = "running" /\ Connected
           /\ play \in {"queued", "held", "done"} /\ upload \in {"queued", "handled"}
           /\ play = "held" => upload = "queued"
           /\ play = "done" => upload = "handled" /\ keyframes = Keyframes(gesture)
           /\ play # "done" => keyframes = <<>>
           /\ late \in 0 .. JITTER /\ JITTER \in Nat
           /\ age \in Nat /\ start \in Nat
BY DaemonAssumption DEF SessionInv, OnItsWay, Sequenced, Undisturbed, TypeOK, DaemonTypeOK

(* Nothing that comes between a gesture and its toy goes away again.       *)
LEMMA UndisturbedBefore ==
    ASSUME SessionInv, [SessionNext]_vars, Undisturbed'
    PROVE  \/ Undisturbed
           \/ play = "none" /\ Gesture
<1>1. CASE Lifecycle
  <2>1. stage' = "running" => stage \in {"connecting", "loading", "spawning"}
    BY <1>1 DEF Lifecycle, DaemonStep, connect_with_retry, load_probe, spawn_readers, StopAllReturns,
       DropRuntime
  <2>2. play' = play
    BY <1>1 DEF Lifecycle, session_vars
  <2> QED
    BY <2>1, <2>2 DEF Undisturbed, SessionInv, OnItsWay
<1>2. CASE StopAll
  BY <1>2 DEF StopAll, stop_all, Undisturbed
<1>3. CASE handle_effect_uploaded \/ handle_ff_event \/ SequenceStep
  <2>1. UNCHANGED <<stage, server, signalled>>
    BY <1>3 DEF handle_effect_uploaded, handle_ff_event, SequenceStep, SendKeyframe, Answered, daemon_vars
  <2>2. /\ upload' # "lost" => upload # "lost"
        /\ play' \notin {"none", "lost"} => play \notin {"none", "lost"}
    <3>1. CASE handle_effect_uploaded
      BY <3>1 DEF handle_effect_uploaded, Begin, sequence_vars
    <3>2. CASE handle_ff_event
      BY <3>2 DEF handle_ff_event
    <3>3. CASE SequenceStep
      BY <3>3 DEF SequenceStep, SendKeyframe, Answered, event_vars
    <3> QED
      BY <1>3, <3>1, <3>2, <3>3
  <2> QED
    BY <2>1, <2>2 DEF Undisturbed, Connected
<1>4. CASE Gesture
  BY <1>4 DEF Gesture, UploadAndPlay
<1>5. CASE Outside
  <2>1. UNCHANGED <<upload, play>>
    BY <1>5 DEF Outside, session_vars
  <2>2. stage' = "running" /\ server' /\ ~signalled' => stage = "running" /\ server /\ ~signalled
    <3>1. CASE Signal
      BY <3>1 DEF Signal
    <3>2. CASE ServerChanges
      BY <3>2 DEF ServerChanges
    <3>3. CASE StdinEnds \/ rescan_devices
      BY <3>3 DEF StdinEnds, rescan_devices
    <3> QED
      BY <1>5, <3>1, <3>2, <3>3 DEF Outside
  <2> QED
    BY <2>1, <2>2 DEF Undisturbed, Connected
<1>6. CASE Tick
  BY <1>6 DEF Tick, DaemonTick, event_vars, Undisturbed, Connected
<1>7. CASE UNCHANGED vars
  BY <1>7 DEF vars, daemon_vars, session_vars, Undisturbed, Connected
<1> QED
  BY <1>1, <1>2, <1>3, <1>4, <1>5, <1>6, <1>7 DEF SessionNext, MainStep, SequenceStep

(* The sequence begins with its first keyframe due at once. *)
LEMMA FirstDueAtOnce ==
    ASSUME SessionInv, keyframes # <<>>
    PROVE  keyframes[1].dt_ms = 0 /\ Len(keyframes) \in Nat \ {0} /\ next \in 1 .. Len(keyframes) + 1
<1>1. gesture \in Gestures /\ keyframes = Keyframes(gesture)
  BY DEF SessionInv, Sequenced, OnItsWay
<1> QED
  BY <1>1, GestureFrames DEF Playable, SessionInv, TypeOK

LEMMA TickFacts ==
    ASSUME SessionInv, Tick
    PROVE  /\ UNCHANGED <<stage, server, signalled, gesture, pad, upload, play, keyframes, next, start,
                          sending, first, last>>
           /\ age' \in {age, age + 1}
           /\ Waiting => late' = late + 1 /\ late < JITTER
           /\ late' \in Nat /\ age \in Nat /\ late \in Nat
<1>1. age \in Nat /\ late \in Nat
  BY DEF SessionInv, TypeOK, DaemonTypeOK
<1> QED
  BY <1>1 DEF Tick, DaemonTick, event_vars, sequence_vars

LEMMA FirstTimedInit == SessionInit => FirstTimed /\ SequenceTimed
BY DEF SessionInit, FirstTimed, SequenceTimed, Undisturbed

LEMMA FirstTimedStep == SessionInv /\ FirstTimed /\ [SessionNext]_vars => FirstTimed'
<1> SUFFICES ASSUME SessionInv, FirstTimed, [SessionNext]_vars, Undisturbed'
             PROVE  /\ upload' = "queued" /\ play' = "queued" => age' <= late'
                    /\ play' = "held" \/ (upload' = "handled" /\ play' = "queued") => age' <= JITTER + late'
                    /\ play' = "done" => start' <= 2 * JITTER /\ start' <= age'
                    /\ keyframes' # <<>> /\ next' = 1 /\ ~sending' => age' <= start' + late'
                    /\ keyframes' # <<>> /\ (next' > 1 \/ sending') /\ Reached(pad') # {} =>
                           first' # NONE /\ first' <= start' + JITTER
  BY DEF FirstTimed, Reached
<1>1. CASE ~Undisturbed
  <2>1. play = "none" /\ Gesture
    BY <1>1, UndisturbedBefore
  <2>2. age' = 0 /\ keyframes' = <<>> /\ play' \in {"queued", "lost"} /\ upload' \in {"queued", "lost"}
        /\ late' = late
    BY <2>1 DEF SessionInv, OnItsWay, Sequenced, Gesture, UploadAndPlay, sequence_vars
  <2>3. 0 <= late'
    BY <2>2 DEF SessionInv, TypeOK, DaemonTypeOK
  <2>4. upload' # "lost"
    BY DEF Undisturbed
  <2> QED
    BY <2>2, <2>3, <2>4
<1>2. CASE Undisturbed
  <2>0. /\ gesture \in Gestures /\ pad \in Pads /\ stage = "running" /\ Connected
        /\ play \in {"queued", "held", "done"} /\ upload \in {"queued", "handled"}
        /\ play = "held" => upload = "queued"
        /\ play = "done" => upload = "handled"
        /\ play # "done" => keyframes = <<>>
        /\ late \in 0 .. JITTER /\ JITTER \in Nat
        /\ age \in Nat /\ start \in Nat
    BY <1>2, UndisturbedFacts
  <2>timed. /\ upload = "queued" /\ play = "queued" => age <= late
            /\ play = "held" \/ (upload = "handled" /\ play = "queued") => age <= JITTER + late
            /\ play = "done" => start <= 2 * JITTER /\ start <= age
            /\ keyframes # <<>> /\ next = 1 /\ ~sending => age <= start + late
            /\ keyframes # <<>> /\ (next > 1 \/ sending) /\ Reached(pad) # {} =>
                   first # NONE /\ first <= start + JITTER
    BY <1>2 DEF FirstTimed
  <2>1. CASE Lifecycle \/ StopAll
    <3>1. stage' # "running"
      BY <2>0, <2>1 DEF Lifecycle, DaemonStep, connect_with_retry, load_probe, spawn_readers, StopAllReturns,
         DropRuntime, StopAll, stop_all
    <3> QED
      BY <3>1 DEF Undisturbed
  <2>2. CASE handle_effect_uploaded
    <3>1. upload = "queued" /\ upload' = "handled" /\ late' = 0 /\ age' = age /\ play # "done"
      BY <2>0, <2>2 DEF handle_effect_uploaded
    <3>2. CASE play = "held"
      <4>1. Begin
        BY <2>2, <3>2 DEF handle_effect_uploaded
      <4>2. next' = 1 /\ start' = age /\ ~sending' /\ play' = "done"
        BY <3>2, <4>1, BeginStep
      <4> QED
        BY <2>0, <2>timed, <3>1, <3>2, <4>2
    <3>3. CASE play # "held"
      <4>1. UNCHANGED <<play, sequence_vars>>
        BY <2>2, <3>3 DEF handle_effect_uploaded
      <4>2. play' = "queued" /\ keyframes' = <<>> /\ play = "queued"
        BY <2>0, <3>1, <3>3, <4>1 DEF sequence_vars
      <4> QED
        BY <2>0, <2>timed, <3>1, <4>2
    <3> QED
      BY <3>2, <3>3
  <2>3. CASE handle_ff_event
    <3>1. play = "queued" /\ upload' = upload /\ late' = 0 /\ age' = age
      BY <2>3 DEF handle_ff_event
    <3>2. CASE upload = "handled"
      <4>1. Begin
        BY <2>3, <3>2 DEF handle_ff_event
      <4>2. next' = 1 /\ start' = age /\ ~sending' /\ play' = "done"
        BY <3>1, <4>1, BeginStep
      <4> QED
        BY <2>0, <2>timed, <3>1, <3>2, <4>2
    <3>3. CASE upload # "handled"
      <4>1. play' = "held" /\ keyframes' = <<>> /\ upload = "queued"
        BY <2>0, <2>3, <3>1, <3>3 DEF handle_ff_event, sequence_vars
      <4> QED
        BY <2>0, <2>timed, <3>1, <4>1
    <3> QED
      BY <3>2, <3>3
  <2>4. CASE Gesture
    <3>1. play = "none"
      BY <2>4 DEF Gesture, UploadAndPlay
    <3> QED
      BY <2>0, <3>1
  <2>5. CASE SendKeyframe
    <3>1. /\ sending' = TRUE /\ ~sending /\ next <= Len(keyframes)
          /\ UNCHANGED <<pad, upload, play, age, keyframes, next, start>>
          /\ Reached(pad) # {} => first' = IF first = NONE THEN age ELSE first
      BY <2>0, <2>5 DEF SendKeyframe, Due, Playing, OutputCmd, event_vars
    <3>2. keyframes # <<>>
      BY <3>1 DEF SessionInv, TypeOK
    <3>3. play = "done" /\ next \in Nat \ {0}
      BY <2>0, <3>2 DEF SessionInv, TypeOK
    <3>4. age # NONE
      BY <2>0, SessionAssumption
    <3>5. ASSUME Reached(pad) # {} PROVE first' # NONE /\ first' <= start + JITTER
      <4>1. CASE next = 1
        <5>1. first = NONE
          BY <3>1, <3>2, <4>1 DEF SessionInv, Sequenced
        <5> QED
          BY <2>0, <2>timed, <3>1, <3>2, <3>4, <3>5, <4>1, <5>1
      <4>2. CASE next # 1
        <5>1. next > 1
          BY <3>3, <4>2
        <5> QED
          BY <2>timed, <3>1, <3>2, <3>5, <5>1
      <4> QED
        BY <4>1, <4>2
    <3> QED
      BY <2>timed, <3>1, <3>3, <3>5
  <2>6. CASE Answered
    <3>1. /\ sending /\ sending' = FALSE /\ next <= Len(keyframes) /\ next' = next + 1
          /\ UNCHANGED <<pad, upload, play, age, keyframes, start, first>>
      BY <2>6 DEF Answered, Playing, event_vars
    <3>2. keyframes # <<>>
      BY <3>1 DEF SessionInv, TypeOK
    <3>3. play = "done" /\ next \in Nat \ {0}
      BY <2>0, <3>2 DEF SessionInv, TypeOK
    <3>4. next' # 1
      BY <3>1, <3>3
    <3> QED
      BY <2>timed, <3>1, <3>2, <3>3, <3>4
  <2>7. CASE Outside
    <3>1. UNCHANGED <<late, pad, upload, play, age, keyframes, next, start, sending, first>>
      BY <2>7 DEF Outside, session_vars
    <3> QED
      BY <2>timed, <3>1
  <2>8. CASE Tick
    <3>1. /\ UNCHANGED <<stage, pad, upload, play, keyframes, next, start, sending, first>>
          /\ age' \in {age, age + 1}
          /\ Waiting => late' = late + 1
      BY <2>8, TickFacts
    <3>2. play = "queued" \/ play = "held" => Waiting
      BY <2>0 DEF Waiting
    <3>3. ASSUME keyframes # <<>>, next = 1, ~sending PROVE Waiting
      <4>1. play = "done" /\ keyframes[1].dt_ms = 0 /\ next <= Len(keyframes)
        BY <2>0, <3>3, FirstDueAtOnce
      <4>2. age >= start + keyframes[next].dt_ms
        BY <2>0, <2>timed, <3>3, <4>1
      <4> QED
        BY <2>0, <3>3, <4>1, <4>2 DEF Waiting, Due, Playing
    <3> QED
      BY <2>0, <2>timed, <3>1, <3>2, <3>3
  <2>9. CASE UNCHANGED vars
    <3>1. UNCHANGED <<late, pad, upload, play, age, keyframes, next, start, sending, first>>
      BY <2>9 DEF vars, session_vars
    <3> QED
      BY <2>timed, <3>1
  <2> QED
    BY <2>1, <2>2, <2>3, <2>4, <2>5, <2>6, <2>7, <2>8, <2>9 DEF SessionNext, MainStep, SequenceStep
<1> QED
  BY <1>1, <1>2

(* The keyframes of a sequence under way, in numbers. *)
LEMMA SequenceFacts ==
    ASSUME SAMPLE_INTERVAL_MS <= STEP_MS, SessionInv, keyframes # <<>>
    PROVE  /\ gesture \in Gestures /\ play = "done" /\ gesture.length \in Nat
           /\ Len(keyframes) \in Nat \ {0} /\ next \in 1 .. Len(keyframes) + 1
           /\ \A i \in 1 .. Len(keyframes) : DueAt(i) \in Nat /\ DueAt(i) <= start + gesture.length
           /\ DueAt(1) = start
           /\ keyframes[Len(keyframes)] = HapticPoint(gesture.length, 0)
           /\ \A i \in 2 .. Len(keyframes) : DueAt(i - 1) <= DueAt(i)
           /\ \A i \in 2 .. Len(keyframes) - 2 : DueAt(i - 1) + SAMPLE_INTERVAL_MS <= DueAt(i)
<1>1. gesture \in Gestures /\ keyframes = Keyframes(gesture) /\ play = "done" /\ start \in Nat
      /\ keyframes \in Frames
  BY DEF SessionInv, Sequenced, OnItsWay, TypeOK, Frames
<1>2. gesture.length \in Nat
  BY <1>1, Captured, U16IsNat
<1>3. /\ Playable(keyframes, gesture.length) /\ gesture.kind \in Kinds
      /\ Len(keyframes) \in Nat \ {0}
  BY <1>1, GestureFrames
<1>4. Spaced(keyframes, SAMPLE_INTERVAL_MS)
  BY <1>1, <1>3, Captured, KeyframesSpaced, KindsAreKnown DEF Keyframes
<1>5. \A i \in 1 .. Len(keyframes) :
          keyframes[i].dt_ms \in Nat /\ keyframes[i].dt_ms <= gesture.length
  BY <1>1, <1>3, FrameFields DEF Playable
<1>6. \A i \in 2 .. Len(keyframes) :
          keyframes[i].dt_ms - keyframes[i - 1].dt_ms \in 0 .. STEP_MS
  BY <1>3 DEF Playable, GapsWithin
<1>7. \A i \in 2 .. Len(keyframes) - 2 :
          keyframes[i].dt_ms - keyframes[i - 1].dt_ms >= SAMPLE_INTERVAL_MS
  BY <1>4 DEF Spaced
<1>8. \A i \in 2 .. Len(keyframes) :
          i \in 1 .. Len(keyframes) /\ i - 1 \in 1 .. Len(keyframes)
  BY <1>3
<1>9. \A i \in 2 .. Len(keyframes) - 2 : i \in 2 .. Len(keyframes)
  BY <1>3
<1>10. \A i \in 2 .. Len(keyframes) : DueAt(i - 1) <= DueAt(i)
  BY SMTT(40), <1>1, <1>5, <1>6, <1>8 DEF DueAt
<1>11. \A i \in 2 .. Len(keyframes) - 2 : DueAt(i - 1) + SAMPLE_INTERVAL_MS <= DueAt(i)
  <2> TAKE i \in 2 .. Len(keyframes) - 2
  <2>1. i \in 1 .. Len(keyframes) /\ i - 1 \in 1 .. Len(keyframes)
    BY <1>8, <1>9
  <2>2. keyframes[i].dt_ms \in Nat /\ keyframes[i - 1].dt_ms \in Nat
    BY <1>5, <2>1
  <2>3. keyframes[i].dt_ms - keyframes[i - 1].dt_ms >= SAMPLE_INTERVAL_MS
    BY <1>7
  <2> QED
    BY SMTT(40), <1>1, <2>2, <2>3, TranslateAssumption DEF DueAt
<1>12. \A i \in 1 .. Len(keyframes) : DueAt(i) \in Nat /\ DueAt(i) <= start + gesture.length
  BY <1>1, <1>2, <1>5 DEF DueAt
<1>13. DueAt(1) = start
  BY <1>1, <1>3 DEF DueAt, Playable
<1> QED
  BY <1>1, <1>2, <1>3, <1>10, <1>11, <1>12, <1>13 DEF Playable, SessionInv, TypeOK

LEMMA AllowedValues ==
    \A n \in Nat \ {0} : \A i \in 1 .. n :
        /\ Allowed(i, n) \in {JITTER, 3 * JITTER, 5 * JITTER}
        /\ i = 1 \/ i <= n - 2 => Allowed(i, n) = JITTER
        /\ i # 1 /\ i = n - 1 => Allowed(i, n) = 3 * JITTER
        /\ i # 1 /\ i = n => Allowed(i, n) = 5 * JITTER
<1> TAKE n \in Nat \ {0}
<1> TAKE i \in 1 .. n
<1>1. CASE i = 1 \/ i <= n - 2
  BY <1>1 DEF Allowed
<1>2. CASE i # 1 /\ i = n - 1
  BY <1>2 DEF Allowed
<1>3. CASE i # 1 /\ i = n
  BY <1>3 DEF Allowed
<1> QED
  BY <1>1, <1>2, <1>3

LEMMA SequenceTimedStep ==
    ASSUME SAMPLE_INTERVAL_MS <= STEP_MS, 2 * JITTER <= SAMPLE_INTERVAL_MS
    PROVE  SessionInv /\ SequenceTimed /\ [SessionNext]_vars => SequenceTimed'
<1> SUFFICES ASSUME SessionInv, SequenceTimed, [SessionNext]_vars, Undisturbed', keyframes' # <<>>
             PROVE  /\ next' <= Len(keyframes') /\ ~sending' =>
                           \/ age' < DueAt(next)'
                           \/ age' <= DueAt(next)' + Allowed(next, Len(keyframes))' - JITTER + late'
                    /\ sending' => age' <= DueAt(next)' + Allowed(next, Len(keyframes))' + late'
                    /\ last' # NONE =>
                           /\ Sent' >= 1
                           /\ last'.value = keyframes'[Sent'].intensity
                           /\ last'.at \in DueAt(Sent)' .. DueAt(Sent)' + Allowed(Sent, Len(keyframes))'
  BY DEF SequenceTimed
<1>1. CASE ~Undisturbed
  <2>1. play = "none" /\ Gesture
    BY <1>1, UndisturbedBefore
  <2>2. keyframes' = <<>>
    BY <2>1 DEF SessionInv, Sequenced, Gesture, UploadAndPlay, sequence_vars
  <2> QED
    BY <2>2
<1>2. CASE Undisturbed
  <2>0. /\ gesture \in Gestures /\ pad \in Pads /\ stage = "running" /\ Connected
        /\ play \in {"queued", "held", "done"} /\ upload \in {"queued", "handled"}
        /\ play # "done" => keyframes = <<>>
        /\ late \in 0 .. JITTER /\ JITTER \in Nat
        /\ age \in Nat /\ start \in Nat
    BY <1>2, UndisturbedFacts
  <2>1. CASE Lifecycle \/ StopAll
    <3>1. stage' # "running"
      BY <2>0, <2>1 DEF Lifecycle, DaemonStep, connect_with_retry, load_probe, spawn_readers, StopAllReturns,
         DropRuntime, StopAll, stop_all
    <3> QED
      BY <3>1 DEF Undisturbed
  <2>2. CASE Gesture
    <3>1. play = "none"
      BY <2>2 DEF Gesture, UploadAndPlay
    <3> QED
      BY <2>0, <3>1
  <2>3. ASSUME handle_effect_uploaded \/ handle_ff_event
        PROVE  /\ age' <= DueAt(next)' + Allowed(next, Len(keyframes))' - JITTER + late'
               /\ ~sending' /\ last' = NONE
    <3>1. play # "done" /\ late' = 0 /\ age' = age /\ last' = last
      BY <2>0, <2>3 DEF handle_effect_uploaded, handle_ff_event, SessionInv, OnItsWay
    <3>2. Begin /\ play \in {"queued", "held"}
      <4>1. keyframes = <<>>
        BY <2>0, <3>1
      <4> QED
        BY <2>0, <2>3, <3>1, <4>1 DEF handle_effect_uploaded, handle_ff_event, sequence_vars
    <3>3. /\ next' = 1 /\ start' = age /\ ~sending' /\ last = NONE
          /\ keyframes' = Keyframes(gesture)
      BY <3>2, BeginStep
    <3>4. keyframes'[1].dt_ms = 0
      BY <2>0, <3>3, GestureFrames DEF Playable
    <3>5. DueAt(next)' = age /\ Allowed(next, Len(keyframes))' = JITTER
      BY <2>0, <3>3, <3>4 DEF DueAt, Allowed
    <3> QED
      BY <2>0, <3>1, <3>3, <3>5
  <2>4. CASE ~(handle_effect_uploaded \/ handle_ff_event \/ Lifecycle \/ StopAll \/ Gesture)
    <3>0. keyframes' = keyframes /\ start' = start /\ keyframes # <<>>
      BY <2>4 DEF SessionNext, MainStep, SequenceStep, SendKeyframe, Answered, Outside, Tick, vars, session_vars,
         sequence_vars
    <3> DEFINE n == Len(keyframes)
    <3>1. /\ n \in Nat \ {0} /\ next \in 1 .. n + 1 /\ play = "done"
          /\ \A i \in 1 .. n : DueAt(i) \in Nat
          /\ \A i \in 2 .. n : DueAt(i - 1) <= DueAt(i)
          /\ \A i \in 2 .. n - 2 : DueAt(i - 1) + SAMPLE_INTERVAL_MS <= DueAt(i)
      BY <3>0, SequenceFacts
    <3>2. /\ next <= n /\ ~sending =>
                 age < DueAt(next) \/ age <= DueAt(next) + Allowed(next, n) - JITTER + late
          /\ sending => age <= DueAt(next) + Allowed(next, n) + late
          /\ last # NONE =>
                 /\ Sent >= 1
                 /\ last.value = keyframes[Sent].intensity
                 /\ last.at \in DueAt(Sent) .. DueAt(Sent) + Allowed(Sent, n)
      BY <1>2, <3>0 DEF SequenceTimed
    <3>3. CASE SendKeyframe
      <4>1. /\ sending' = TRUE /\ ~sending /\ next <= n /\ next' = next /\ late' = 0 /\ age' = age
            /\ age >= DueAt(next)
            /\ pad' = pad
            /\ IF Reached(pad) # {} THEN last' = [at |-> age, value |-> keyframes[next].intensity]
               ELSE last' = last
        BY <2>0, <3>3 DEF SendKeyframe, Due, Playing, OutputCmd, DueAt
      <4>2. next \in 1 .. n /\ DueAt(next) \in Nat
        BY <3>1, <4>1
      <4>3. DueAt(next)' = DueAt(next) /\ Allowed(next, Len(keyframes))' = Allowed(next, n)
        BY <3>0, <4>1 DEF DueAt, Allowed
      <4>4. Allowed(next, n) \in {JITTER, 3 * JITTER, 5 * JITTER}
        BY <3>1, <4>2, AllowedValues
      <4>5. age <= DueAt(next) + Allowed(next, n)
        BY <2>0, <3>2, <4>1, <4>2, <4>4
      <4>6. Sent' = next /\ DueAt(Sent)' = DueAt(next) /\ Allowed(Sent, Len(keyframes))' = Allowed(next, n)
        BY <3>0, <4>1 DEF Sent, DueAt, Allowed
      <4>7. last' # NONE => last' = [at |-> age, value |-> keyframes[next].intensity]
        <5>1. Reached(pad) = {} => last = NONE
          BY DEF SessionInv, Sequenced
        <5> QED
          BY <4>1, <5>1
      <4>8. last' # NONE => /\ Sent' >= 1 /\ last'.value = keyframes'[Sent'].intensity
                            /\ last'.at \in DueAt(next) .. DueAt(next) + Allowed(next, n)
        <5>1. Allowed(next, n) \in Nat
          BY <2>0, <4>4
        <5> HIDE DEF n
        <5> QED
          BY <2>0, <3>0, <4>1, <4>2, <4>5, <4>6, <4>7, <5>1
      <4> QED
        BY <2>0, <4>1, <4>2, <4>3, <4>4, <4>5, <4>6, <4>8
    <3>4. CASE Answered
      <4>1. /\ sending /\ sending' = FALSE /\ next <= n /\ next' = next + 1 /\ late' = 0 /\ age' = age
            /\ last' = last
        BY <3>4 DEF Answered, Playing
      <4>2. next \in 1 .. n /\ DueAt(next) \in Nat
        BY <3>1, <4>1
      <4>3. /\ Sent' = next /\ Sent = next
            /\ DueAt(Sent)' = DueAt(next) /\ Allowed(Sent, Len(keyframes))' = Allowed(next, n)
        BY <3>0, <4>1, <4>2 DEF Sent, DueAt, Allowed
      <4>4. ASSUME next + 1 <= n
            PROVE  age <= DueAt(next + 1) + Allowed(next + 1, n) - JITTER
        <5> DEFINE i == next + 1
        <5>1. i \in 2 .. n /\ i \in 1 .. n /\ i - 1 = next /\ DueAt(i) \in Nat /\ DueAt(next) <= DueAt(i)
          BY <3>1, <4>2, <4>4
        <5>2. age <= DueAt(next) + Allowed(next, n) + JITTER
          <6>1. Allowed(next, n) \in {JITTER, 3 * JITTER, 5 * JITTER}
            BY <3>1, <4>2, AllowedValues
          <6> QED
            BY <2>0, <3>2, <4>1, <4>2, <6>1
        <5>3. CASE i <= n - 2
          <6>1. i \in 2 .. n - 2 /\ next <= n - 2
            BY <3>1, <4>2, <5>1, <5>3
          <6>2. DueAt(next) + SAMPLE_INTERVAL_MS <= DueAt(i)
            BY <3>1, <5>1, <6>1
          <6>3. Allowed(next, n) = JITTER /\ Allowed(i, n) = JITTER
            BY <3>1, <4>2, <5>1, <5>3, <6>1, AllowedValues
          <6> QED
            BY <2>0, <4>2, <5>1, <5>2, <6>2, <6>3, TranslateAssumption
        <5>4. CASE i = n - 1
          <6>1. next <= n - 2
            BY <3>1, <4>2, <5>1, <5>4
          <6>2. Allowed(next, n) = JITTER /\ Allowed(i, n) = 3 * JITTER
            BY <3>1, <4>2, <5>1, <5>4, <6>1, AllowedValues
          <6> QED
            BY <2>0, <4>2, <5>1, <5>2, <6>2
        <5>5. CASE i = n
          <6>1. next = n - 1
            BY <3>1, <4>2, <5>1, <5>5
          <6>2. Allowed(next, n) \in {JITTER, 3 * JITTER} /\ Allowed(i, n) = 5 * JITTER
            BY <3>1, <4>2, <5>1, <5>5, <6>1, AllowedValues
          <6> QED
            BY <2>0, <4>2, <5>1, <5>2, <6>2
        <5>6. i <= n - 2 \/ i = n - 1 \/ i = n
          BY <3>1, <5>1
        <5> QED
          BY <5>3, <5>4, <5>5, <5>6
      <4>5. DueAt(next)' = DueAt(next + 1) /\ Allowed(next, Len(keyframes))' = Allowed(next + 1, n)
        BY <3>0, <4>1 DEF DueAt, Allowed
      <4>6. next + 1 <= n => DueAt(next + 1) \in Nat /\ Allowed(next + 1, n) \in Nat
        <5>1. ASSUME next + 1 <= n PROVE next + 1 \in 1 .. n
          BY <3>1, <4>2, <5>1
        <5> QED
          BY <2>0, <3>1, <5>1, AllowedValues
      <4>7. next' <= Len(keyframes') =>
                age' <= DueAt(next)' + Allowed(next, Len(keyframes))' - JITTER + late'
        BY <2>0, <3>0, <4>1, <4>4, <4>5, <4>6
      <4> QED
        BY <3>0, <3>2, <4>1, <4>3, <4>7
    <3>5. CASE Tick
      <4>1. /\ UNCHANGED <<stage, keyframes, next, start, sending, last>>
            /\ age' \in {age, age + 1}
            /\ Waiting => late' = late + 1
            /\ late' \in Nat /\ late \in Nat
        BY <3>5, TickFacts
      <4>2. /\ DueAt(next)' = DueAt(next) /\ Allowed(next, Len(keyframes))' = Allowed(next, n)
            /\ Sent' = Sent /\ DueAt(Sent)' = DueAt(Sent) /\ Allowed(Sent, Len(keyframes))' = Allowed(Sent, n)
        BY <3>0, <4>1 DEF DueAt, Allowed, Sent
      <4>3. sending => next <= n
        BY DEF SessionInv, Sequenced
      <4>4. next <= n => DueAt(next) \in Nat /\ Allowed(next, n) \in {JITTER, 3 * JITTER, 5 * JITTER}
        <5>1. next <= n => next \in 1 .. n
          BY <3>1
        <5> QED
          BY <3>1, <5>1, AllowedValues
      <4>5. next <= n /\ (sending \/ age >= DueAt(next)) => Waiting
        BY <2>0 DEF Waiting, Due, Playing, DueAt
      <4>6. ASSUME next <= n, ~sending
            PROVE  age' < DueAt(next) \/ age' <= DueAt(next) + Allowed(next, n) - JITTER + late'
        <5>1. DueAt(next) \in Nat /\ Allowed(next, n) \in Nat /\ Allowed(next, n) >= JITTER
          BY <2>0, <4>4, <4>6
        <5>2. CASE age < DueAt(next)
          BY <2>0, <4>1, <5>1, <5>2
        <5>3. CASE ~(age < DueAt(next))
          <6>1. age >= DueAt(next)
            BY <2>0, <5>1, <5>3
          <6>2. late' = late + 1
            BY <4>1, <4>5, <4>6, <6>1
          <6>3. age <= DueAt(next) + Allowed(next, n) - JITTER + late
            BY <3>2, <4>6, <5>3
          <6> QED
            BY <2>0, <4>1, <5>1, <6>2, <6>3
        <5> QED
          BY <5>2, <5>3
      <4>7. ASSUME sending PROVE age' <= DueAt(next) + Allowed(next, n) + late'
        <5>1. DueAt(next) \in Nat /\ Allowed(next, n) \in Nat
          BY <2>0, <4>3, <4>4, <4>7
        <5>2. late' = late + 1 /\ age <= DueAt(next) + Allowed(next, n) + late
          BY <3>2, <4>1, <4>3, <4>5, <4>7
        <5> QED
          BY <2>0, <4>1, <5>1, <5>2
      <4> QED
        BY <3>0, <3>2, <4>1, <4>2, <4>6, <4>7
    <3>6. CASE Outside \/ UNCHANGED vars
      <4>1. UNCHANGED <<late, age, next, sending, last>>
        BY <3>6 DEF Outside, vars, session_vars
      <4>2. /\ DueAt(next)' = DueAt(next) /\ Allowed(next, Len(keyframes))' = Allowed(next, n)
            /\ Sent' = Sent /\ DueAt(Sent)' = DueAt(Sent) /\ Allowed(Sent, Len(keyframes))' = Allowed(Sent, n)
        BY <3>0, <4>1 DEF DueAt, Allowed, Sent
      <4> QED
        BY <3>0, <3>2, <4>1, <4>2
    <3> QED
      BY <2>4, <3>3, <3>4, <3>5, <3>6 DEF SessionNext, MainStep, SequenceStep
  <2> QED
    BY <2>1, <2>2, <2>3, <2>4
<1> QED
  BY <1>1, <1>2
(* How late the events and the keyframes of an undisturbed gesture are:    *)
(* keyframes are due at times counted from the start (playback.rs:233), so *)
(* that one has caught up before the next when answers are quick enough.   *)
THEOREM GestureTimed ==
    ASSUME SAMPLE_INTERVAL_MS <= STEP_MS, 2 * JITTER <= SAMPLE_INTERVAL_MS
    PROVE  SessionSpec => [](FirstTimed /\ SequenceTimed)
<1>1. SessionInit => FirstTimed /\ SequenceTimed
  BY FirstTimedInit
<1>2. SessionInv /\ FirstTimed /\ SequenceTimed /\ [SessionNext]_vars => (FirstTimed /\ SequenceTimed)'
  BY FirstTimedStep, SequenceTimedStep
<1> QED
  BY <1>1, <1>2, GestureInvariant, PTL DEF SessionSpec

(* Upload, Play and first keyframe are each at most one late step behind   *)
(* the one before (app.rs:77-168, playback.rs:225-234), whatever the jitter.*)
THEOREM FirstEventsTimed == SessionSpec => []FirstTimed
<1>1. SessionInit => FirstTimed
  BY FirstTimedInit
<1>2. SessionInv /\ FirstTimed /\ [SessionNext]_vars => FirstTimed'
  BY FirstTimedStep
<1> QED
  BY <1>1, <1>2, GestureInvariant, PTL DEF SessionSpec

(* A mapped toy gets its first command within three late steps of the Play,*)
(* whichever of upload and Play was handled first; no other toy gets any.  *)
THEOREM CommandsInTime ==
    ASSUME 3 * JITTER <= LATENCY_BOUND
    PROVE  SessionSpec => []CommandsReachTheirToy
<1>1. SessionInv /\ FirstTimed => CommandsReachTheirToy
  <2> SUFFICES ASSUME SessionInv, FirstTimed, Undisturbed
               PROVE  /\ Reached(pad) = {} => first = NONE
                      /\ Reached(pad) # {} /\ age > LATENCY_BOUND /\ gesture.kind \in Kinds =>
                             first # NONE /\ first <= LATENCY_BOUND
    BY DEF CommandsReachTheirToy, assert_command_within_bound
  <2>1. Reached(pad) = {} => first = NONE
    BY DEF SessionInv, Sequenced
  <2>2. ASSUME Reached(pad) # {}, age > LATENCY_BOUND, gesture.kind \in Kinds
        PROVE  first # NONE /\ first <= LATENCY_BOUND
    <3>1. /\ gesture \in Gestures
          /\ play \in {"queued", "held", "done"} /\ upload \in {"queued", "handled"}
          /\ play = "done" => keyframes = Keyframes(gesture)
          /\ late \in 0 .. JITTER /\ JITTER \in Nat
          /\ age \in Nat /\ start \in Nat /\ LATENCY_BOUND \in Nat
      BY UndisturbedFacts, SessionAssumption
    <3>2. /\ upload = "queued" /\ play = "queued" => age <= late
          /\ play = "held" \/ (upload = "handled" /\ play = "queued") => age <= JITTER + late
          /\ play = "done" => start <= 2 * JITTER /\ start <= age
          /\ keyframes # <<>> /\ next = 1 /\ ~sending => age <= start + late
          /\ keyframes # <<>> /\ (next > 1 \/ sending) => first # NONE /\ first <= start + JITTER
      BY <2>2 DEF FirstTimed
    <3>3. play = "done"
      BY <2>2, <3>1, <3>2
    <3>4. keyframes # <<>> /\ start <= 2 * JITTER
      <4>1. Playable(Keyframes(gesture), gesture.length)
        BY <2>2, <3>1, GesturePlays
      <4> QED
        BY <3>1, <3>2, <3>3, <4>1 DEF Playable
    <3>5. next > 1 \/ sending
      <4>1. next \in Nat \ {0}
        BY DEF SessionInv, TypeOK
      <4>2. ~(next = 1 /\ ~sending)
        BY <2>2, <3>1, <3>2, <3>4
      <4> QED
        BY <4>1, <4>2
    <3>6. first # NONE /\ first <= start + JITTER
      BY <3>2, <3>4, <3>5
    <3>7. first \in Nat
      BY <3>6 DEF SessionInv, TypeOK
    <3> QED
      BY <3>1, <3>4, <3>6, <3>7
  <2> QED
    BY <2>1, <2>2
<1> QED
  BY <1>1, FirstEventsTimed, GestureInvariant, PTL

(* The last command comes when the effect ends, not before and at most     *)
(* seven late steps after, and it is a zero: late keyframes do not add up. *)
THEOREM ZeroInTime ==
    ASSUME SAMPLE_INTERVAL_MS <= STEP_MS, 2 * JITTER <= SAMPLE_INTERVAL_MS,
           7 * JITTER <= LATENCY_BOUND
    PROVE  SessionSpec => []FinalZeroInTime
<1>1. SessionInv /\ FirstTimed /\ SequenceTimed => FinalZeroInTime
  <2> SUFFICES ASSUME SessionInv, FirstTimed, SequenceTimed, Undisturbed, last # NONE,
                      age > gesture.length + LATENCY_BOUND
               PROVE  /\ last.value = 0
                      /\ Abs(last.at - gesture.length) <= LATENCY_BOUND
                      /\ last.at >= gesture.length
    BY DEF FinalZeroInTime, assert_final_zero_within_bound, expected_end_time
  <2>1. play = "done" /\ keyframes # <<>>
    BY UndisturbedFacts DEF SessionInv, Sequenced
  <2> DEFINE n      == Len(keyframes)
             length == gesture.length
  <2>2. /\ n \in Nat \ {0} /\ next \in 1 .. n + 1 /\ length \in Nat
        /\ \A i \in 1 .. n : DueAt(i) \in Nat /\ DueAt(i) <= start + length
        /\ keyframes[n] = HapticPoint(length, 0)
    BY <2>1, SequenceFacts
  <2>3. /\ late \in 0 .. JITTER /\ JITTER \in Nat /\ age \in Nat /\ start \in Nat /\ LATENCY_BOUND \in Nat
        /\ start <= 2 * JITTER
    BY <2>1, UndisturbedFacts, SessionAssumption DEF FirstTimed
  <2>4. /\ next <= n /\ ~sending =>
               age < DueAt(next) \/ age <= DueAt(next) + Allowed(next, n) - JITTER + late
        /\ sending => age <= DueAt(next) + Allowed(next, n) + late
        /\ last.value = keyframes[Sent].intensity
        /\ last.at \in DueAt(Sent) .. DueAt(Sent) + Allowed(Sent, n)
    BY <2>1 DEF SequenceTimed
  <2>5. sending => next <= n
    BY DEF SessionInv, Sequenced
  <2> HIDE DEF length
  <2>6. Sent = n
    <3>1. CASE next = n + 1
      <4>1. ~sending
        BY <2>2, <2>5, <3>1
      <4> QED
        BY <2>2, <3>1, <4>1 DEF Sent
    <3>2. CASE next <= n
      <4>1. /\ next \in 1 .. n /\ DueAt(next) \in Nat /\ DueAt(next) <= start + length
            /\ Allowed(next, n) \in {JITTER, 3 * JITTER, 5 * JITTER}
        BY <2>2, <3>2, AllowedValues
      <4> DEFINE due     == DueAt(next)
                 allowed == Allowed(next, n)
      <4>2. CASE ~sending
        <5>1. age < due \/ age <= due + allowed - JITTER + late
          BY <2>4, <3>2, <4>2
        <5>2. /\ due \in Nat /\ due <= start + length
              /\ allowed \in Nat /\ allowed <= 5 * JITTER
          BY <2>3, <4>1
        <5> HIDE DEF due, allowed
        <5>3. age <= due + 5 * JITTER
          BY <2>3, <5>1, <5>2
        <5>4. age <= length + 7 * JITTER
          BY <2>2, <2>3, <5>2, <5>3
        <5> QED
          BY <2>2, <2>3, <5>4 DEF length
      <4>3. CASE sending /\ next # n
        <5>1. Allowed(next, n) \in {JITTER, 3 * JITTER}
          <6>1. next = 1 \/ next <= n - 2 \/ (next # 1 /\ next = n - 1)
            BY <2>2, <4>1, <4>3
          <6> QED
            BY <2>2, <4>1, <6>1, AllowedValues
        <5>2. age <= due + allowed + late
          BY <2>4, <4>3
        <5>3. /\ due \in Nat /\ due <= start + length
              /\ allowed \in Nat /\ allowed <= 3 * JITTER
          BY <2>3, <4>1, <5>1
        <5> HIDE DEF due, allowed
        <5>4. age <= due + 4 * JITTER
          BY <2>3, <5>2, <5>3
        <5>5. age <= length + 6 * JITTER
          BY <2>2, <2>3, <5>3, <5>4
        <5> QED
          BY <2>2, <2>3, <5>5 DEF length
      <4>4. CASE sending /\ next = n
        BY <4>4 DEF Sent
      <4> QED
        BY <4>2, <4>3, <4>4
    <3> QED
      BY <2>2, <3>1, <3>2
  <2>7. n \in 1 .. n /\ Allowed(n, n) \in {JITTER, 3 * JITTER, 5 * JITTER}
    BY <2>2, AllowedValues
  <2>8. DueAt(n) = start + length /\ keyframes[n].intensity = 0
    BY <2>2 DEF DueAt, HapticPoint
  <2>9. last.value = 0 /\ last.at \in start + length .. start + length + Allowed(n, n)
    BY <2>4, <2>6, <2>8
  <2>10. last.at >= length /\ last.at - length <= 7 * JITTER /\ last.at \in Int
    BY SMTT(40), <2>2, <2>3, <2>7, <2>9
  <2> QED
    BY <2>2, <2>3, <2>9, <2>10 DEF Abs, length
<1> QED
  BY <1>1, GestureTimed, GestureInvariant, PTL

-----------------------------------------------------------------------------
(* Envelopes and ramps. *)

(* Where the envelope fits, its scale as the code reckons it, from where   *)
(* attack and fade begin, is the envelope reckoned from the ends.          *)
LEMMA ScaleIsEnvelope ==
    ASSUME NEW env \in Envelopes, NEW length \in Nat, NEW t \in Nat, t < length,
           EnvelopeFits(env, length)
    PROVE  /\ EnvelopeScale(t, length, env) \in Int /\ EnvelopeAt(env, t, length) \in Int
           /\ EnvelopeScale(t, length, env) - EnvelopeAt(env, t, length) \in 0 .. 1
<1> DEFINE al == env.attack_length
           fl == env.fade_length
           rise == Level(env.attack_level)
           fall == Level(env.fade_level)
           scale == EnvelopeScale(t, length, env)
           level == EnvelopeAt(env, t, length)
<1>1. /\ al \in Nat /\ fl \in Nat /\ rise \in Int /\ fall \in Int
      /\ FULL \in Nat \ {0}
  <2>1. env.attack_length \in U16 /\ env.fade_length \in U16 /\ env.attack_level \in U16 /\ env.fade_level \in U16
    BY DEF Envelopes
  <2> QED
    BY <2>1, U16IsNat, LevelIsInt, TranslateAssumption
<1>2. al + fl <= length
  BY DEF EnvelopeFits
<1>3. FadeStart(length, env) = length - fl
  BY <1>1, <1>2 DEF FadeStart
<1>4. CASE t < al
  <2>1. scale = rise + ((FULL - rise) * t) \div al
    <3>1. ~(t >= al)
      BY <1>1, <1>4
    <3> QED
      BY <1>4, <3>1 DEF EnvelopeScale, Attack
  <2>2. level = (t * FULL + (al - t) * rise) \div al
    <3>1. ~(t > length - fl)
      BY <1>1, <1>2, <1>4
    <3> QED
      BY <1>4, <3>1 DEF EnvelopeAt
  <2> HIDE DEF al, fl, rise, fall, scale, level
  <2>3. al \in Nat \ {0}
    BY <1>1, <1>4
  <2> DEFINE x == (FULL - rise) * t
  <2>4. x \in Int /\ t * FULL + (al - t) * rise = rise * al + x
    BY <1>1, <2>3
  <2> HIDE DEF x
  <2>5. (rise * al + x) \div al = rise + x \div al
    BY <1>1, <2>3, <2>4, WholesTakenOut
  <2>6. x \div al \in Int
    BY <2>3, <2>4, DivIsInt
  <2>7. scale = rise + x \div al /\ level = rise + x \div al
    BY <2>1, <2>2, <2>4, <2>5 DEF x
  <2>8. scale \in Int /\ level \in Int /\ scale - level = 0
    BY <1>1, <2>6, <2>7
  <2> QED
    BY <2>8 DEF scale, level
<1>5. CASE ~(t < al) /\ t > length - fl
  <2>1. fl > 0 /\ length > 0 /\ t >= al /\ t >= length - fl
    BY <1>1, <1>5
  <2>2. scale = FULL - ((FULL - fall) * (t - (length - fl))) \div fl
    <3>1. scale = Fade(t, length, env)
      BY <1>3, <1>5, <2>1 DEF EnvelopeScale
    <3> QED
      BY <1>3, <3>1 DEF Fade
  <2>3. level = ((length - t) * FULL + (fl - length + t) * fall) \div fl
    BY <1>5 DEF EnvelopeAt
  <2> HIDE DEF al, fl, rise, fall, scale, level
  <2>4. fl \in Nat \ {0}
    BY <1>1, <2>1
  <2> DEFINE s == t - (length - fl)
  <2>5. s \in Int /\ length - t = fl - s /\ fl - length + t = s
    BY <2>4
  <2> HIDE DEF s
  <2> DEFINE x == (FULL - fall) * s
  <2>6. x \in Int /\ (fl - s) * FULL + s * fall = FULL * fl + (-x)
    BY <1>1, <2>4, <2>5
  <2> HIDE DEF x
  <2>7. (FULL * fl + (-x)) \div fl = FULL + (-x) \div fl
    <3>1. -x \in Int /\ FULL \in Int
      BY <1>1, <2>6
    <3> QED
      BY <2>4, <3>1, WholesTakenOut
  <2>8. -(x \div fl) - ((-x) \div fl) \in 0 .. 1
    BY <2>4, <2>6, RoundsNegative
  <2>9. scale = FULL - x \div fl
    BY <2>2, <2>5 DEF x, s
  <2>10. level = FULL + (-x) \div fl
    BY <2>3, <2>5, <2>6, <2>7
  <2>11. x \div fl \in Int /\ (-x) \div fl \in Int
    <3>1. -x \in Int
      BY <2>6
    <3> QED
      BY <2>4, <2>6, <3>1, DivIsInt
  <2>12. scale \in Int /\ level \in Int /\ scale - level = -(x \div fl) - ((-x) \div fl)
    BY <1>1, <2>9, <2>10, <2>11
  <2>13. scale - level \in 0 .. 1
    BY <2>8, <2>12
  <2> QED
    BY <2>12, <2>13 DEF scale, level
<1>6. CASE ~(t < al) /\ ~(t > length - fl)
  <2>1. level = FULL
    BY <1>6 DEF EnvelopeAt
  <2>2. scale = FULL
    <3>1. CASE fl > 0 /\ t >= length - fl
      <4>1. length > 0 /\ t >= al /\ t = length - fl
        BY <1>1, <1>6, <3>1
      <4>2. scale = Fade(t, length, env)
        BY <1>3, <1>6, <3>1, <4>1 DEF EnvelopeScale
      <4>3. Fade(t, length, env) = FULL - ((FULL - fall) * (t - (length - fl))) \div fl
        BY <1>3 DEF Fade
      <4> HIDE DEF fl, fall, scale, al
      <4>4. (FULL - fall) * (t - (length - fl)) = 0
        BY <1>1, <4>1
      <4>5. 0 \div fl = 0
        <5>1. fl \in Nat \ {0} /\ 0 * fl <= 0 /\ 0 < 0 * fl + fl /\ 0 \in Int
          BY <1>1, <3>1
        <5> QED
          BY <5>1, RoundsTo
      <4>6. Fade(t, length, env) = FULL
        BY <1>1, <4>3, <4>4, <4>5
      <4> QED
        BY <4>2, <4>6
    <3>2. CASE ~(fl > 0 /\ t >= length - fl)
      BY <1>3, <1>6, <3>2 DEF EnvelopeScale
    <3> QED
      BY <3>1, <3>2
  <2> HIDE DEF scale, level
  <2>3. scale \in Int /\ level \in Int /\ scale - level \in 0 .. 1
    BY <1>1, <2>1, <2>2
  <2> QED
    BY <2>3 DEF scale, level
<1> QED
  BY <1>4, <1>5, <1>6

(* A level in range under two close scales. *)
LEMMA CloseScaled ==
    ASSUME NEW base \in 0 .. FULL, NEW x \in Int, NEW y \in Int, x - y \in 0 .. 1
    PROVE  Near(clamp((base * x) \div FULL), clamp((base * y) \div FULL))
<1>1. FULL \in Nat \ {0} /\ base \in Nat /\ base <= FULL
  BY TranslateAssumption
<1> DEFINE p == base * x
           q == base * y
<1>2. p \in Int /\ q \in Int /\ p - q = base * (x - y)
  BY <1>1
<1>3. base * (x - y) \in 0 .. base
  <2>1. x - y = 0 \/ x - y = 1
    OBVIOUS
  <2>2. CASE x - y = 0
    BY <1>1, <2>2
  <2>3. CASE x - y = 1
    BY <1>1, <2>3
  <2> QED
    BY <2>1, <2>2, <2>3
<1>4. p - q \in -FULL .. FULL
  BY <1>1, <1>2, <1>3
<1> HIDE DEF p, q
<1>5. p \div FULL - q \div FULL \in -1 .. 1 /\ p \div FULL \in Int /\ q \div FULL \in Int
  BY <1>1, <1>2, <1>4, CloseDivided, DivIsInt
<1>6. clamp(p \div FULL) - clamp(q \div FULL) \in -1 .. 1
  BY <1>5, ClampKeeps
<1> QED
  BY <1>6 DEF Near, p, q

(* A constant effect whose envelope fits into it follows the envelope, to  *)
(* the one FULL-th that rounding costs (translate.rs:31-52, 111-122).      *)
THEOREM ConstantsFollow == SessionSpec => []ConstantsFollowTheirEnvelope
<1>1. SessionInv => ConstantsFollowTheirEnvelope
  <2> SUFFICES ASSUME SessionInv, Begun, gesture.kind = FF_CONSTANT,
                      EnvelopeFits(gesture.envelope, gesture.length),
                      NEW i \in 1 .. Len(Points) - 1
               PROVE  Near(Points[i].intensity,
                           IF I16(gesture.params[1]) = -32768 THEN 0
                           ELSE clamp((Level(Abs(I16(gesture.params[1])))
                                         * EnvelopeAt(gesture.envelope, Points[i].dt_ms, gesture.length))
                                      \div FULL))
    BY DEF ConstantsFollowTheirEnvelope
  <2> DEFINE c      == capture(gesture)
             length == gesture.length
             env    == gesture.envelope
             level  == I16(gesture.params[1])
             base   == clamp(Level(I16(Abs(level))))
             n      == (length + SAMPLE_INTERVAL_MS - 1) \div SAMPLE_INTERVAL_MS
             t      == (i - 1) * SAMPLE_INTERVAL_MS
  <2>1. gesture \in Gestures
    BY BegunFacts DEF Begun
  <2>2. /\ c \in FfEffect /\ c.kind = FF_CONSTANT /\ c.replay_length = length
        /\ c.u[1] = gesture.params[1] /\ Envelope(c.u[2], c.u[3], c.u[4], c.u[5]) = env
        /\ length \in Nat /\ env \in Envelopes
    BY <2>1, Captured, U16IsNat, GestureAssumption
  <2>3. Points = constant_points(c)
    BY <2>2 DEF Points, translate, FF_RUMBLE, FF_PERIODIC, FF_CONSTANT, FF_RAMP
  <2>4. level \in Int /\ -32768 <= level /\ level <= 32767
    <3>1. c.u[1] \in Int
      BY SMTT(40), <2>2, EffectWords
    <3> QED
      BY SMTT(40), <2>2, <3>1, I16Range
  <2> HIDE DEF c, length, env, level
  <2>5. /\ n \in Nat /\ Len(Points) = n + 1
        /\ \A k \in 1 .. n :
               LET s == (k - 1) * SAMPLE_INTERVAL_MS
               IN  /\ s \in Nat /\ s < length
                   /\ Points[k] =
                          HapticPoint(s, apply_envelope(clamp(Level(I16(Abs(I16(c.u[1]))))), s, length,
                                                        Envelope(c.u[2], c.u[3], c.u[4], c.u[5])))
    BY <2>2, <2>3, ConstantSamples
  <2> HIDE DEF n
  <2>6. i \in 1 .. n
    BY <2>5
  <2>7. /\ t \in Nat /\ t < length
        /\ Points[i] = HapticPoint(t, apply_envelope(base, t, length, env))
    BY <2>2, <2>5, <2>6 DEF level
  <2> HIDE DEF t, base
  <2> DEFINE scale == EnvelopeScale(t, length, env)
             wanted == EnvelopeAt(env, t, length)
  <2>8. Points[i].dt_ms = t /\ Points[i].intensity = clamp((base * scale) \div FULL)
    BY <2>7 DEF HapticPoint, apply_envelope
  <2>9. scale \in Int /\ wanted \in Int /\ scale - wanted \in 0 .. 1
    BY <2>2, <2>7, ScaleIsEnvelope DEF env, length
  <2> HIDE DEF scale, wanted
  <2>10. CASE level = -32768
    <3>1. base = 0
      BY <2>4, <2>10, Magnitude DEF base
    <3>2. (base * scale) \div FULL = 0
      <4>1. FULL \in Nat \ {0} /\ 0 * FULL <= 0 /\ 0 < 0 * FULL + FULL /\ 0 \in Int
        BY TranslateAssumption
      <4>2. 0 \div FULL = 0
        BY <4>1, RoundsTo
      <4>3. base * scale = 0
        BY <2>9, <3>1
      <4> QED
        BY <4>2, <4>3
    <3>3. Points[i].intensity = 0
      BY <2>8, <3>2, ClampKeeps, TranslateAssumption
    <3> QED
      BY <2>10, <3>3 DEF Near, level
  <2>11. CASE level # -32768
    <3>1. base = Level(Abs(level)) /\ base \in 0 .. FULL
      BY <2>4, <2>11, Magnitude DEF base
    <3>2. Near(clamp((base * scale) \div FULL), clamp((base * wanted) \div FULL))
      BY <2>9, <3>1, CloseScaled
    <3> QED
      BY <2>8, <2>11, <3>1, <3>2 DEF level, wanted, env, length
  <2> QED
    BY <2>10, <2>11
<1> QED
  BY <1>1, GestureInvariant, PTL

(* A ramp starts and ends at its levels and is never stronger than the     *)
(* stronger of them (translate.rs:124-152).                                *)
THEOREM RampsReach == SessionSpec => []RampsReachTheirEnds
<1>1. SessionInv => RampsReachTheirEnds
  <2> DEFINE from == I16(gesture.params[1])
             to   == I16(gesture.params[2])
             Strength(level) == clamp(Level(Abs(level)))
  <2> SUFFICES ASSUME SessionInv, Begun, gesture.kind = FF_RAMP, I16(to - from) = to - from
               PROVE  /\ Points[1].intensity = Strength(from)
                      /\ gesture.length > 0 => Points[Len(Points) - 1].intensity = Strength(to)
                      /\ \A i \in DOMAIN Points :
                             \/ Points[i].intensity <= Strength(from)
                             \/ Points[i].intensity <= Strength(to)
    BY DEF RampsReachTheirEnds
  <2> DEFINE c       == capture(gesture)
             length  == gesture.length
             n       == (length + SAMPLE_INTERVAL_MS - 1) \div SAMPLE_INTERVAL_MS
             time(i) == IF i = 1 + n THEN length ELSE (i - 1) * SAMPLE_INTERVAL_MS
             r(i)    == RampLevel(from, to, time(i), length)
  <2>1. gesture \in Gestures
    BY BegunFacts DEF Begun
  <2>2. /\ c \in FfEffect /\ c.kind = FF_RAMP /\ c.replay_length = length
        /\ c.u[1] = gesture.params[1] /\ c.u[2] = gesture.params[2]
        /\ length \in Nat
    BY <2>1, Captured, U16IsNat
  <2>3. Points = ramp_points(c)
    BY <2>2 DEF Points, translate, FF_RUMBLE, FF_PERIODIC, FF_CONSTANT, FF_RAMP
  <2>4. from \in Int /\ to \in Int
    BY <2>2, EffectWords
  <2>5. /\ n \in Nat /\ Len(Points) = n + 2
        /\ \A i \in 1 .. n + 1 : time(i) \in 0 .. length /\ Points[i].intensity = Strength(r(i))
        /\ time(1) = 0 /\ time(n + 1) = length
        /\ Points[n + 2].intensity = 0
    <3> HIDE DEF c
    <3>1. /\ n \in Nat /\ Len(ramp_points(c)) = n + 2
          /\ \A i \in 1 .. n + 1 :
                 /\ time(i) \in 0 .. length
                 /\ ramp_points(c)[i].intensity =
                        clamp(Level(Abs(RampLevel(I16(c.u[1]), I16(c.u[2]), time(i), length))))
          /\ time(1) = 0 /\ time(n + 1) = length
          /\ ramp_points(c)[n + 2].intensity = 0
      BY <2>2, RampSamples
    <3> QED
      BY <2>2, <2>3, <3>1
  <2>6. DOMAIN Points = 1 .. n + 2
    <3>1. EndsAtZero(Points, length)
      BY <2>2, <2>3, RampEnds
    <3> HIDE DEF n
    <3> QED
      BY <2>5, <3>1 DEF EndsAtZero
  <2> HIDE DEF c, length, from, to, time, n
  <2>7. ASSUME NEW i \in 1 .. n + 1
        PROVE  /\ r(i) \in Int
               /\ (from <= r(i) /\ r(i) <= to) \/ (to <= r(i) /\ r(i) <= from)
               /\ time(i) = 0 => r(i) = from
               /\ time(i) = length /\ length > 0 => r(i) = to
    <3> DEFINE s == time(i)
    <3>1. s \in 0 .. length /\ I16(to - from) = to - from
      BY <2>5 DEF from, to
    <3> HIDE DEF s
    <3>2. /\ RampLevel(from, to, s, length) \in Int
          /\ (from <= RampLevel(from, to, s, length) /\ RampLevel(from, to, s, length) <= to)
             \/ (to <= RampLevel(from, to, s, length) /\ RampLevel(from, to, s, length) <= from)
          /\ s = 0 => RampLevel(from, to, s, length) = from
          /\ s = length /\ length > 0 => RampLevel(from, to, s, length) = to
      BY <2>2, <2>4, <3>1, RampLevels
    <3> QED
      BY <3>2 DEF s
  <2> HIDE DEF r, Strength
  <2>8. 1 \in 1 .. n + 1 /\ n + 1 \in 1 .. n + 1 /\ (n + 2) - 1 = n + 1
    BY <2>5
  <2>9. Points[1].intensity = Strength(from)
    BY <2>5, <2>7, <2>8
  <2>10. length > 0 => Points[Len(Points) - 1].intensity = Strength(to)
    BY <2>5, <2>7, <2>8
  <2>11. ASSUME NEW i \in 1 .. n + 2
         PROVE  Points[i].intensity <= Strength(from) \/ Points[i].intensity <= Strength(to)
    <3>1. CASE i = n + 2
      <4>1. Strength(from) \in 0 .. FULL
        BY <2>4, I16IsInt, LevelIsInt, ClampInRange DEF Strength
      <4> QED
        BY <2>5, <3>1, <4>1
    <3>2. CASE i # n + 2
      <4>1. i \in 1 .. n + 1
        BY <2>5, <3>2
      <4>2. Strength(r(i)) <= Strength(from) \/ Strength(r(i)) <= Strength(to)
        BY <2>4, <2>7, <4>1, BetweenIsWeaker DEF Strength
      <4> QED
        BY <2>5, <4>1, <4>2
    <3> QED
      BY <3>1, <3>2
  <2> QED
    BY <2>6, <2>9, <2>10, <2>11 DEF length
<1> QED
  BY <1>1, GestureInvariant, PTL
=============================================================================
