------------------------------ MODULE Session ------------------------------
(***************************************************************************)
(* One gesture from the game to the toy: the end-to-end test's game        *)
(* uploads an effect on a pad and plays it once (bin/e2e-tests.rs), the    *)
(* daemon captures, translates, interpolates and sends it, and the fake    *)
(* server (protocol_server.rs) notes what arrives and when (timing.rs).    *)
(* The daemon may be anywhere in its life meanwhile.                       *)
(*                                                                         *)
(* The throttle is left out: it lets a first Play through.  So is what     *)
(* aborted sequences still send; Playback is about that.  The scale is 1.  *)
(***************************************************************************)
EXTENDS Daemon, Translate

CONSTANTS
    Gestures,       \* effects a game uploads
    NONE,
    Toys,           \* what the server advertises
    device_map,     \* some pads -> indices of toys, or NONE for all
    LATENCY_BOUND,
    AgeLimit        \* bound: how long a gesture is observed

ASSUME SessionAssumption ==
    /\ DOMAIN device_map \subseteq Pads
    /\ LATENCY_BOUND \in Nat /\ AgeLimit \in Nat
    /\ NONE \notin Nat /\ NONE \notin [at : Nat, value : Nat]
    /\ \A g \in Gestures : AgeLimit > g.length + LATENCY_BOUND

(* struct ff_effect: 16-bit words, of the kind's parameters as many as its *)
(* member of the union has before the envelope.                            *)
ASSUME GestureAssumption ==
    \A g \in Gestures :
        /\ g.kind \in U16 /\ g.length \in U16
        /\ g.params \in Seq(U16) /\ g.envelope \in Envelopes
        /\ g.kind = FF_CONSTANT => Len(g.params) = 1
        /\ g.kind \in {FF_RUMBLE, FF_RAMP} => Len(g.params) = 2
        /\ g.kind = FF_PERIODIC => Len(g.params) = 5

VARIABLES
    gesture, pad,   \* what was uploaded, and where
    upload, play,   \* how far their events have come
    age,            \* time since the Play
    keyframes, next, start, sending,    \* the sequence, and the age it began at
    first,          \* history: age at the first command
    last            \* history: age and value of the last command

event_vars    == <<upload, play>>
sequence_vars == <<keyframes, next, start, sending>>
session_vars  == <<gesture, pad, upload, play, age, keyframes, next, start, sending, first, last>>
vars == <<daemon_vars, late, session_vars>>

(* The union of struct ff_effect as words: the parameters of the kind,     *)
(* then its envelope.  The probe takes the first seven.                    *)
capture(g) ==
    LET e     == g.envelope
        words == g.params \o <<e.attack_length, e.attack_level, e.fade_length, e.fade_level,
                               0, 0, 0>>
    IN  [kind |-> g.kind, replay_length |-> g.length, u |-> SubSeq(words, 1, 7)]

resolve_targets(p) == IF p \in DOMAIN device_map THEN device_map[p] ELSE NONE

Reached(p) == {toy \in Toys : resolve_targets(p) = NONE \/ toy \in resolve_targets(p)}

Points == translate(capture(gesture))

Kinds == {FF_RUMBLE, FF_PERIODIC, FF_CONSTANT, FF_RAMP}

SessionInit ==
    /\ DaemonInit
    /\ late = 0
    /\ gesture = NONE /\ pad = NONE
    /\ upload = "none" /\ play = "none"
    /\ age = 0
    /\ keyframes = <<>> /\ next = 1 /\ start = 0 /\ sending = FALSE
    /\ first = NONE /\ last = NONE

-----------------------------------------------------------------------------
(* The game.  Events nobody listens for yet are lost. *)

UploadAndPlay(p, g) ==
    /\ play = "none" /\ stage # "gone"
    /\ pad' = p
    /\ gesture' = g
    /\ upload' = "queued"
    /\ play' = IF p \in readers THEN "queued" ELSE "lost"
    /\ UNCHANGED <<daemon_vars, late, age, sequence_vars, first, last>>

Gesture ==
    \/ Probing /\ \E p \in Pads, g \in Gestures : UploadAndPlay(p, g)
    \/ ~Probing /\ stage # "gone" /\ play = "none" /\ upload' = "lost" /\ play' = "lost"
       /\ UNCHANGED <<daemon_vars, late, gesture, pad, age, sequence_vars, first, last>>

-----------------------------------------------------------------------------
(* The daemon's handlers (App) and its sequence (Playback). *)

Begin ==
    /\ \E points \in {Points} : keyframes' = interpolate_points(points)
    /\ start' = age
    /\ play' = "done"
    /\ UNCHANGED <<next, sending>>

(* Mutant: the upload leaves a held Play alone. *)
UploadOnly ==
    /\ stage = "running" /\ upload = "queued"
    /\ upload' = "handled"
    /\ late' = 0
    /\ UNCHANGED <<daemon_vars, gesture, pad, play, age, sequence_vars, first, last>>

handle_effect_uploaded ==
    /\ stage = "running" /\ upload = "queued"
    /\ upload' = "handled"
    /\ late' = 0
    /\ IF play = "held" THEN Begin ELSE UNCHANGED <<play, sequence_vars>>
    /\ UNCHANGED <<daemon_vars, gesture, pad, age, first, last>>

handle_ff_event ==
    /\ stage = "running" /\ play = "queued"
    /\ late' = 0
    /\ IF upload = "handled" THEN Begin ELSE play' = "held" /\ UNCHANGED sequence_vars
    /\ UNCHANGED <<daemon_vars, gesture, pad, upload, age, first, last>>

Playing == stage = "running" /\ next <= Len(keyframes)
Due     == Playing /\ ~sending /\ age >= start + keyframes[next].dt_ms

(* The server notes the command, and answers (Answered). *)
OutputCmd(intensity) ==
    /\ last' = [at |-> age, value |-> intensity]
    /\ first' = IF first = NONE THEN age ELSE first

(* A toy that is not mapped, or a server that is not there, gets nothing. *)
SendKeyframe ==
    /\ Due
    /\ sending' = TRUE
    /\ late' = 0
    /\ IF Connected /\ Reached(pad) # {}
       THEN OutputCmd(keyframes[next].intensity)
       ELSE UNCHANGED <<first, last>>
    /\ UNCHANGED <<daemon_vars, gesture, pad, event_vars, age, keyframes, next, start>>

(* Mutant: the next keyframe is reckoned from the answer to this one. *)
AnsweredRestartsClock ==
    /\ Playing /\ sending
    /\ sending' = FALSE
    /\ next' = next + 1
    /\ start' = age - keyframes[next].dt_ms
    /\ late' = 0
    /\ UNCHANGED <<daemon_vars, gesture, pad, event_vars, age, keyframes, first, last>>

Answered ==
    /\ Playing /\ sending
    /\ sending' = FALSE
    /\ next' = next + 1
    /\ late' = 0
    /\ UNCHANGED <<daemon_vars, gesture, pad, event_vars, age, keyframes, start, first, last>>

(* A signal aborts the sequence. *)
StopAll ==
    /\ stop_all
    /\ keyframes' = <<>> /\ next' = 1 /\ start' = 0 /\ sending' = FALSE
    /\ late' = 0
    /\ UNCHANGED <<gesture, pad, event_vars, age, first, last>>

Lifecycle == DaemonStep /\ late' = 0 /\ UNCHANGED session_vars

MainStep == Lifecycle \/ StopAll \/ handle_effect_uploaded \/ handle_ff_event

SequenceStep == SendKeyframe \/ Answered

Outside ==
    /\ \/ Signal \/ ServerChanges \/ StdinEnds \/ rescan_devices
    /\ UNCHANGED <<late, session_vars>>

Waiting ==
    \/ DaemonDue \/ Due
    \/ Playing /\ sending
    \/ stage = "running" /\ (upload = "queued" \/ play = "queued")

(* There is something to observe: the daemon knows of the gesture and has  *)
(* not begun to end.                                                       *)
Observed == upload \in {"queued", "handled"} /\ Probing

Tick ==
    /\ DaemonTick
    /\ Waiting => late < JITTER
    /\ late' = IF Waiting THEN late + 1 ELSE 0
    /\ age' = IF Observed /\ age < AgeLimit THEN age + 1 ELSE age
    /\ UNCHANGED <<gesture, pad, event_vars, sequence_vars, first, last>>

SessionNext == Gesture \/ MainStep \/ SequenceStep \/ Outside \/ Tick

SessionSpec == SessionInit /\ [][SessionNext]_vars

(* Fairness: main's task and the sequence are polled, and time passes. *)
SessionFairSpec ==
    SessionSpec /\ WF_vars(MainStep) /\ WF_vars(SequenceStep) /\ WF_vars(Tick)

-----------------------------------------------------------------------------
(* The assertions of timing.rs; times are counted from the Play. *)

expected_end_time == gesture.length

assert_command_within_bound == first # NONE /\ first <= LATENCY_BOUND

assert_final_zero_within_bound ==
    /\ last.value = 0
    /\ Abs(last.at - expected_end_time) <= LATENCY_BOUND

-----------------------------------------------------------------------------
(* Properties. *)

TypeOK ==
    /\ DaemonTypeOK
    /\ gesture \in Gestures \union {NONE}
    /\ pad \in Pads \union {NONE}
    /\ upload \in {"none", "lost", "queued", "handled"}
    /\ play \in {"none", "lost", "queued", "held", "done"}
    /\ age \in 0 .. AgeLimit
    /\ keyframes \in Seq([dt_ms : U16, intensity : 0 .. FULL])
    /\ next \in 1 .. Len(keyframes) + 1
    /\ start \in 0 .. AgeLimit
    /\ sending \in BOOLEAN
    /\ first \in 0 .. AgeLimit \union {NONE}
    /\ last \in [at : 0 .. AgeLimit, value : 0 .. FULL] \union {NONE}

(* The sequence has its keyframes and has sent none. *)
Begun == play = "done" /\ next = 1 /\ ~sending /\ age = start

(* What Playback takes for granted of a schedule: the times never go back, *)
(* gaps are filled, and it ends with a zero at the effect's length,        *)
(* whatever the kind, its length and its levels.  An effect of an unknown  *)
(* kind has no schedule.                                                   *)
SchedulePlayable ==
    Begun /\ keyframes # <<>> =>
        LET n == Len(keyframes)
        IN  /\ keyframes[1].dt_ms = 0
            /\ keyframes[n] = HapticPoint(gesture.length, 0)
            /\ \A i \in 2 .. n :
                   keyframes[i].dt_ms - keyframes[i - 1].dt_ms \in 0 .. STEP_MS

(* Sampling (translate.rs) and interpolation (playback.rs) keep a constant *)
(* of the same name each: as long as the samples are no further apart than *)
(* the steps, a sampled effect is sent as it was sampled.                  *)
SamplesAreTheKeyframes ==
    Begun /\ keyframes # <<>> /\ gesture.kind # FF_RUMBLE => keyframes = Points

Near(x, y) == x - y \in -1 .. 1

EnvelopeFits(e, length) == e.attack_length + e.fade_length <= length

(* The envelope at time t, reckoned from the ends of the effect. *)
EnvelopeAt(e, t, length) ==
    CASE t < e.attack_length ->
            (t * FULL + (e.attack_length - t) * Level(e.attack_level)) \div e.attack_length
      [] t > length - e.fade_length ->
            ((length - t) * FULL + (e.fade_length - length + t) * Level(e.fade_level))
                \div e.fade_length
      [] OTHER -> FULL

(* A constant effect whose envelope fits into its length follows it: it    *)
(* rises from the attack level and falls towards the fade level, at its    *)
(* own level in between, and never goes beyond the full intensity, however *)
(* high the envelope's levels.  The level -32768 has no absolute value in  *)
(* 16 bits (translate.rs:120), and is silent.                              *)
ConstantsFollowTheirEnvelope ==
    Begun /\ gesture.kind = FF_CONSTANT /\ EnvelopeFits(gesture.envelope, gesture.length) =>
        \A i \in 1 .. Len(Points) - 1 :
            LET level == I16(gesture.params[1])
            IN  Near(Points[i].intensity,
                     IF level = -32768 THEN 0
                     ELSE clamp((Level(Abs(level))
                                   * EnvelopeAt(gesture.envelope, Points[i].dt_ms, gesture.length))
                                \div FULL))

(* A ramp goes from its start level to its end level and is never stronger *)
(* than the stronger of the two, unless their difference does not fit into *)
(* 16 bits (translate.rs:141).                                             *)
RampsReachTheirEnds ==
    Begun /\ gesture.kind = FF_RAMP =>
        LET from == I16(gesture.params[1])
            to   == I16(gesture.params[2])
            Strength(level) == clamp(Level(Abs(level)))
        IN  \/ I16(to - from) # to - from
            \/ /\ Points[1].intensity = Strength(from)
               /\ gesture.length > 0 => Points[Len(Points) - 1].intensity = Strength(to)
               /\ \A i \in DOMAIN Points :
                      \/ Points[i].intensity <= Strength(from)
                      \/ Points[i].intensity <= Strength(to)

(* Nothing came between the gesture and its toy. *)
Undisturbed ==
    upload # "lost" /\ play \notin {"none", "lost"} /\ stage = "running" /\ Connected /\ ~signalled

(* Whichever of upload and Play the daemon handles first, a mapped toy     *)
(* gets its first command in time (timing.rs:22-39), and a pad mapped to   *)
(* no toy at hand produces none (the isolation scenario).                  *)
CommandsReachTheirToy ==
    Undisturbed =>
        IF Reached(pad) = {} THEN first = NONE
        ELSE age > LATENCY_BOUND /\ gesture.kind \in Kinds => assert_command_within_bound

(* The last command is a zero and comes when the effect ends, never        *)
(* earlier (timing.rs:41-66).  Keyframes are due at times counted from the *)
(* start (playback.rs:233), so late answers do not add up as long as they  *)
(* come within a step.  The end is the replay length, as the code, the     *)
(* tests (timing.rs:18-20) and the plan                                    *)
(* (docs/superpowers/plans/2026-07-06-e2e-vm-harness.md:14) have it.  The  *)
(* design adds the envelope's fade-out to it                               *)
(* (docs/superpowers/specs/2026-07-05-e2e-vm-harness-design.md:10-11,      *)
(* 72-73, 104-105): the property takes the code's side, and a zero at the  *)
(* design's time would violate it.                                         *)
FinalZeroInTime ==
    Undisturbed /\ last # NONE /\ age > expected_end_time + LATENCY_BOUND =>
        /\ assert_final_zero_within_bound
        /\ last.at >= expected_end_time

(* The process never ends with toys it has set going and not told to stop, *)
(* unless the server went away.                                            *)
ToysAreToldBeforeExit ==
    stage \in {"returned", "gone"} /\ first # NONE => told \/ ~server

(* A signal ends main, whatever it was doing; what keeps the process then  *)
(* is a blocking thread.                                                   *)
SignalEndsMain == signalled ~> (stage = "gone" \/ (stage = "returned" /\ Blocked))

-----------------------------------------------------------------------------
(* Claims of the repository the code does not keep. *)

(* "Envelope applied to periodic/constant/ramp effects" (common/src/lib.rs:34): *)
(* no point of such an effect is stronger than the envelope lets it be.    *)
EnvelopeIsApplied ==
    Begun /\ gesture.kind \in {FF_PERIODIC, FF_CONSTANT, FF_RAMP}
                  /\ EnvelopeFits(gesture.envelope, gesture.length) =>
        \A i \in DOMAIN Points :
            Points[i].intensity
                <= EnvelopeAt(gesture.envelope, Points[i].dt_ms, gesture.length) + 2
=============================================================================
