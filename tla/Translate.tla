----------------------------- MODULE Translate -----------------------------
(***************************************************************************)
(* translate.rs and interpolate_points of playback.rs: from the words of   *)
(* an effect to the keyframes of a sequence.                               *)
(*                                                                         *)
(* An intensity (f32, 0.0 to 1.0) is a number of FULL-ths; where f32       *)
(* rounds, \div rounds down.  Levels are the i16 and u16 words of the      *)
(* struct; i16 arithmetic wraps, as in the release build (a debug build    *)
(* panics).  The sine is a table of one period.                            *)
(***************************************************************************)
EXTENDS Integers, SequencesExt

CONSTANTS
    SAMPLE_INTERVAL_MS,     \* translate.rs
    STEP_MS,                \* playback.rs
    FULL,                   \* the intensity 1.0
    SineTable               \* FULL * sin, at equal steps over one period

ASSUME TranslateAssumption ==
    /\ SAMPLE_INTERVAL_MS \in Nat \ {0}
    /\ STEP_MS \in Nat \ {0}
    /\ FULL \in Nat \ {0}
    /\ SineTable \in Seq(-FULL .. FULL) /\ SineTable # <<>>

FF_RUMBLE   == 80
FF_PERIODIC == 81
FF_CONSTANT == 82
FF_RAMP     == 87

(* Waveform::from_u16, with the sine for every code it does not know. *)
Waveform(code) ==
    CASE code = 88 -> "Square"
      [] code = 89 -> "Triangle"
      [] code = 91 -> "SawUp"
      [] code = 92 -> "SawDown"
      [] code = 93 -> "Custom"
      [] OTHER     -> "Sine"

U16 == 0 .. 65535

FfEffect == [kind : U16, replay_length : U16, u : [1 .. 7 -> U16]]

Envelope(al, alev, fl, flev) ==
    [attack_length |-> al, attack_level |-> alev, fade_length |-> fl, fade_level |-> flev]

Envelopes == [attack_length : U16, attack_level : U16, fade_length : U16, fade_level : U16]

HapticPoint(t, i) == [dt_ms |-> t, intensity |-> i]

I16(x)   == ((x + 32768) % 65536) - 32768
Abs(x)   == IF x < 0 THEN -x ELSE x
Level(x) == (x * FULL) \div 32767

(* Mutant: the range is left to the caller. *)
Unclamped(x) == x

(* clamp(0.0, 1.0) *)
clamp(x) == IF x < 0 THEN 0 ELSE IF x > FULL THEN FULL ELSE x

-----------------------------------------------------------------------------
rumble_intensity(strong, weak) == clamp(((strong + weak) * FULL) \div (2 * 65535))

Attack(t, env) ==
    Level(env.attack_level)
        + ((FULL - Level(env.attack_level)) * t) \div env.attack_length

FadeStart(length, env) == IF env.fade_length > length THEN 0 ELSE length - env.fade_length

(* Mutant: the fade is reckoned from its end. *)
FadeBackwards(t, length, env) ==
    FULL - ((FULL - Level(env.fade_level)) * (length - t)) \div env.fade_length

Fade(t, length, env) ==
    FULL - ((FULL - Level(env.fade_level)) * (t - FadeStart(length, env))) \div env.fade_length

(* While the attack lasts the fade is not looked at. *)
EnvelopeScale(t, length, env) ==
    CASE t < env.attack_length -> Attack(t, env)
      [] /\ t >= env.attack_length
         /\ env.fade_length > 0 /\ length > 0
         /\ t >= FadeStart(length, env) -> Fade(t, length, env)
      [] OTHER -> FULL

apply_envelope(base, t, length, env) ==
    clamp((base * EnvelopeScale(t, length, env)) \div FULL)

(* In -FULL .. FULL, t being the time within a period. *)
Raw(waveform, t, period) ==
    CASE waveform = "Sine"     -> SineTable[1 + (t * Len(SineTable)) \div period]
      [] waveform = "Square"   -> IF 2 * t < period THEN FULL ELSE -FULL
      [] waveform = "Triangle" -> IF 2 * t < period THEN (4 * FULL * t) \div period - FULL
                                  ELSE 3 * FULL - (4 * FULL * t) \div period
      [] waveform = "SawUp"    -> (2 * FULL * t) \div period - FULL
      [] waveform = "SawDown"  -> FULL - (2 * FULL * t) \div period
      [] OTHER                 -> 0

(* The magnitude's abs() is i16's: it leaves -32768 as it is. *)
sample_waveform(waveform, t, period, magnitude, offset) ==
    IF period = 0 THEN 0
    ELSE LET raw == Raw(waveform, t % period, period)
             mag == Level(I16(Abs(magnitude)))
         IN  clamp(((raw * mag) \div FULL + Level(offset) + FULL) \div 2)

-----------------------------------------------------------------------------
(* The samples of 0 .. length - 1, base giving the level at each time, and *)
(* the final zero.                                                        *)
sample_range_fn(base, length, env) ==
    [i \in 1 .. (length + SAMPLE_INTERVAL_MS - 1) \div SAMPLE_INTERVAL_MS |->
        LET t == (i - 1) * SAMPLE_INTERVAL_MS
        IN  HapticPoint(t, apply_envelope(base[t], t, length, env))]
    \o <<HapticPoint(length, 0)>>

rumble_points(effect) ==
    LET length == effect.replay_length
    IN  IF length = 0 THEN <<HapticPoint(0, 0)>>
        ELSE <<HapticPoint(0, rumble_intensity(effect.u[1], effect.u[2])), HapticPoint(length, 0)>>

constant_points(effect) ==
    LET u == effect.u
    IN  sample_range_fn([t \in Nat |-> clamp(Level(I16(Abs(I16(u[1])))))],
                        effect.replay_length, Envelope(u[2], u[3], u[4], u[5]))

(* Mutant: the difference of the levels in the wrong order. *)
RampBackwards(start_level, end_level, t, length) ==
    IF length = 0 THEN start_level
    ELSE start_level + (I16(start_level - end_level) * t) \div length

(* The difference of the levels is i16's, too. *)
RampLevel(start_level, end_level, t, length) ==
    IF length = 0 THEN start_level
    ELSE start_level + (I16(end_level - start_level) * t) \div length

(* Mutant: a sample at length only where the interval hits it, and no zero. *)
RampWithoutZero(effect) ==
    LET length == effect.replay_length
    IN  [i \in 1 .. 1 + length \div SAMPLE_INTERVAL_MS |->
            LET t == (i - 1) * SAMPLE_INTERVAL_MS
            IN  HapticPoint(t, clamp(Level(Abs(
                    RampLevel(I16(effect.u[1]), I16(effect.u[2]), t, length)))))]

(* The samples of 0 .. length, length itself always among them, and the zero. *)
ramp_points(effect) ==
    LET length  == effect.replay_length
        samples == 1 + (length + SAMPLE_INTERVAL_MS - 1) \div SAMPLE_INTERVAL_MS
    IN  [i \in 1 .. samples |->
            LET t == IF i = samples THEN length ELSE (i - 1) * SAMPLE_INTERVAL_MS
            IN  HapticPoint(t, clamp(Level(Abs(
                    RampLevel(I16(effect.u[1]), I16(effect.u[2]), t, length)))))]
        \o <<HapticPoint(length, 0)>>

periodic_points(effect) ==
    LET u == effect.u
    IN  sample_range_fn([t \in Nat |-> sample_waveform(Waveform(u[1]), t, u[2], I16(u[3]), I16(u[4]))],
                        effect.replay_length, Envelope(u[6], 0, u[7], 0))

translate(effect) ==
    CASE effect.kind = FF_RUMBLE   -> rumble_points(effect)
      [] effect.kind = FF_PERIODIC -> periodic_points(effect)
      [] effect.kind = FF_CONSTANT -> constant_points(effect)
      [] effect.kind = FF_RAMP     -> ramp_points(effect)
      [] OTHER                     -> <<>>

-----------------------------------------------------------------------------
(* Mutant: a step that falls on the later point is kept, too. *)
BetweenAndBeyond(p, q) ==
    LET span == q.dt_ms - p.dt_ms
    IN  [k \in 1 .. (IF span > 0 THEN span \div STEP_MS ELSE 0) |->
            HapticPoint(p.dt_ms + k * STEP_MS,
                p.intensity + ((q.intensity - p.intensity) * k * STEP_MS) \div span)]

(* What interpolation puts strictly between two points. *)
Between(p, q) ==
    LET span == q.dt_ms - p.dt_ms
    IN  [k \in 1 .. (IF span > 0 THEN (span - 1) \div STEP_MS ELSE 0) |->
            HapticPoint(p.dt_ms + k * STEP_MS,
                p.intensity + ((q.intensity - p.intensity) * k * STEP_MS) \div span)]

interpolate_points(points) ==
    FlattenSeq([i \in DOMAIN points |->
        (IF i = 1 THEN <<>> ELSE Between(points[i - 1], points[i])) \o <<points[i]>>])
=============================================================================
