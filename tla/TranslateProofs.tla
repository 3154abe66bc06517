-------------------------- MODULE TranslateProofs --------------------------
(***************************************************************************)
(* Proofs about Translate: what every effect a game can upload, of any     *)
(* words, is translated to.                                                *)
(***************************************************************************)
EXTENDS Translate, SequenceTheorems, TLAPS

HapticPoints == [dt_ms : Nat, intensity : 0 .. FULL]

Known == {FF_RUMBLE, FF_PERIODIC, FF_CONSTANT, FF_RAMP}

(* The points are in order of time, within the effect's length, and the    *)
(* last of them turns the motor off at its end.                            *)
EndsAtZero(points, length) ==
    /\ points \in Seq(HapticPoints) /\ points # <<>>
    /\ points[Len(points)] = HapticPoint(length, 0)
    /\ \A i \in 1 .. Len(points) : points[i].dt_ms <= length
    /\ \A i, j \in 1 .. Len(points) : i <= j => points[i].dt_ms <= points[j].dt_ms

-----------------------------------------------------------------------------
(* Numbers. *)

LEMMA ClampInRange == \A x \in Int : clamp(x) \in 0 .. FULL
BY TranslateAssumption DEF clamp

LEMMA LevelIsInt == \A x \in Int : Level(x) \in Int
BY TranslateAssumption DEF Level

LEMMA I16IsInt == \A x \in Int : I16(x) \in Int /\ Abs(x) \in Int
BY DEF I16, Abs

LEMMA U16IsNat == \A x \in U16 : x \in Nat /\ x \in Int
<1> DEFINE top == 65535
<1>1. top \in Nat /\ U16 = 0 .. top
  BY DEF U16
<1> HIDE DEF top
<1> QED
  BY <1>1

LEMMA DivIsInt == \A x \in Int, d \in Nat \ {0} : x \div d \in Int
OBVIOUS

LEMMA TimesIsInt == \A x, y \in Int : x * y \in Int
OBVIOUS

(* The samples up to a time are as many as there are multiples before it.  *)
LEMMA SampleTimes ==
    ASSUME NEW length \in Nat, NEW n \in Nat, n = (length + SAMPLE_INTERVAL_MS - 1) \div SAMPLE_INTERVAL_MS,
           NEW i \in 1 .. n
    PROVE  (i - 1) * SAMPLE_INTERVAL_MS \in Nat /\ (i - 1) * SAMPLE_INTERVAL_MS < length
<1> DEFINE s == SAMPLE_INTERVAL_MS
<1>1. s \in Nat \ {0}
  BY TranslateAssumption
<1>2. n * s <= length + s - 1
  BY <1>1
<1>3. i * s <= n * s
  BY <1>1
<1>4. (i - 1) * s = i * s - s /\ (i - 1) * s \in Nat
  BY <1>1
<1> QED
  BY <1>1, <1>2, <1>3, <1>4

LEMMA SampleCount ==
    \A length \in Nat : (length + SAMPLE_INTERVAL_MS - 1) \div SAMPLE_INTERVAL_MS \in Nat
BY TranslateAssumption

LEMMA TimesGrow ==
    \A i, j \in Nat \ {0} : i <= j =>
        (i - 1) * SAMPLE_INTERVAL_MS <= (j - 1) * SAMPLE_INTERVAL_MS
BY TranslateAssumption

-----------------------------------------------------------------------------
(* Intensities. *)

LEMMA EnvelopeInRange ==
    ASSUME NEW base \in Int, NEW t \in Nat, NEW length \in U16, NEW env \in Envelopes
    PROVE  apply_envelope(base, t, length, env) \in 0 .. FULL
<1>1. /\ env.attack_length \in Nat /\ env.fade_length \in Nat
      /\ env.attack_level \in Int /\ env.fade_level \in Int /\ length \in Nat /\ FULL \in Int
  <2>1. FULL \in Int
    BY TranslateAssumption
  <2>2. /\ env.attack_length \in U16 /\ env.fade_length \in U16
        /\ env.attack_level \in U16 /\ env.fade_level \in U16
    BY DEF Envelopes
  <2> QED
    BY <2>1, <2>2, U16IsNat
<1>2. ASSUME t < env.attack_length PROVE Attack(t, env) \in Int
  <2>1. /\ Level(env.attack_level) \in Int /\ (FULL - Level(env.attack_level)) * t \in Int
        /\ env.attack_length \in Nat \ {0}
    BY <1>1, <1>2, LevelIsInt
  <2> QED
    BY <2>1, DivIsInt DEF Attack
<1>3. ASSUME env.fade_length > 0 PROVE Fade(t, length, env) \in Int
  <2>1. FadeStart(length, env) \in Int /\ Level(env.fade_level) \in Int
    BY <1>1, LevelIsInt DEF FadeStart
  <2>2. t - FadeStart(length, env) \in Int /\ FULL - Level(env.fade_level) \in Int
    BY <1>1, <2>1
  <2>3. ((FULL - Level(env.fade_level)) * (t - FadeStart(length, env))) \div env.fade_length \in Int
    BY <1>1, <1>3, <2>2, DivIsInt, TimesIsInt
  <2> QED
    BY <1>1, <2>3 DEF Fade
<1>4. EnvelopeScale(t, length, env) \in Int
  BY <1>1, <1>2, <1>3 DEF EnvelopeScale
<1>5. (base * EnvelopeScale(t, length, env)) \div FULL \in Int
  BY <1>4, TimesIsInt, DivIsInt, TranslateAssumption
<1> QED
  BY <1>5, ClampInRange DEF apply_envelope

LEMMA SineIndex ==
    ASSUME NEW t \in Nat, NEW period \in Nat \ {0}, t < period, NEW n \in Nat \ {0}
    PROVE  1 + (t * n) \div period \in 1 .. n
<1> DEFINE q == (t * n) \div period
<1>1. t * n \in Nat /\ q \in Int /\ q >= 0
  OBVIOUS
<1>2. q * period <= t * n
  OBVIOUS
<1>3. t * n < period * n
  OBVIOUS
<1>4. q < n
  <2> SUFFICES ASSUME q >= n PROVE FALSE
    BY <1>1
  <2>1. q * period >= n * period
    BY <1>1
  <2> QED
    BY <1>1, <1>2, <1>3, <2>1
<1> QED
  BY <1>1, <1>4

LEMMA RawIsInt ==
    ASSUME NEW waveform, NEW t \in Nat, NEW period \in Nat \ {0}, t < period
    PROVE  Raw(waveform, t, period) \in Int
<1>1. FULL \in Int /\ Len(SineTable) \in Nat \ {0}
  BY TranslateAssumption, EmptySeq
<1>2. SineTable[1 + (t * Len(SineTable)) \div period] \in Int
  <2>1. 1 + (t * Len(SineTable)) \div period \in 1 .. Len(SineTable)
    BY <1>1, SineIndex
  <2>2. \A i \in 1 .. Len(SineTable) : SineTable[i] \in -FULL .. FULL
    BY TranslateAssumption, ElementOfSeq
  <2> QED
    BY <1>1, <2>1, <2>2
<1>3. (4 * FULL * t) \div period \in Int /\ (2 * FULL * t) \div period \in Int
  <2>1. 4 * FULL * t \in Int /\ 2 * FULL * t \in Int
    BY <1>1, TimesIsInt
  <2> QED
    BY <2>1, DivIsInt
<1>4. 3 * FULL \in Int /\ -FULL \in Int
  BY <1>1
<1>5. CASE waveform = "Sine"
  BY <1>2, <1>5 DEF Raw
<1>6. CASE waveform = "Square"
  BY <1>1, <1>6 DEF Raw
<1>7. CASE waveform = "Triangle"
  <2>1. Raw(waveform, t, period) \in {(4 * FULL * t) \div period - FULL, 3 * FULL - (4 * FULL * t) \div period}
    BY <1>7 DEF Raw
  <2> QED
    BY <1>1, <1>3, <1>4, <2>1
<1>8. CASE waveform \in {"SawUp", "SawDown"}
  <2>1. Raw(waveform, t, period) \in {(2 * FULL * t) \div period - FULL, FULL - (2 * FULL * t) \div period}
    BY <1>8 DEF Raw
  <2> QED
    BY <1>1, <1>3, <2>1
<1>9. CASE waveform \notin {"Sine", "Square", "Triangle", "SawUp", "SawDown"}
  BY <1>9 DEF Raw
<1> QED
  BY <1>5, <1>6, <1>7, <1>8, <1>9

LEMMA WaveformInRange ==
    ASSUME NEW waveform, NEW t \in Nat, NEW period \in U16, NEW magnitude \in Int, NEW offset \in Int
    PROVE  sample_waveform(waveform, t, period, magnitude, offset) \in 0 .. FULL
<1>1. CASE period = 0
  BY <1>1, TranslateAssumption DEF sample_waveform
<1>2. CASE period # 0
  <2> DEFINE raw == Raw(waveform, t % period, period)
             mag == Level(I16(Abs(magnitude)))
  <2>1. period \in Nat \ {0} /\ t % period \in Nat /\ t % period < period
    <3>1. period \in Nat \ {0}
      BY <1>2, U16IsNat
    <3> QED
      BY <3>1
  <2>2. raw \in Int
    BY <2>1, RawIsInt
  <2>3. mag \in Int /\ Level(offset) \in Int
    BY LevelIsInt, I16IsInt
  <2>4. (raw * mag) \div FULL \in Int
    <3> HIDE DEF raw, mag
    <3> QED
      BY <2>2, <2>3, TimesIsInt, DivIsInt, TranslateAssumption
  <2>5. ((raw * mag) \div FULL + Level(offset) + FULL) \div 2 \in Int
    <3> HIDE DEF raw, mag
    <3> QED
      BY <2>3, <2>4, TranslateAssumption
  <2>6. clamp(((raw * mag) \div FULL + Level(offset) + FULL) \div 2) \in 0 .. FULL
    BY <2>5, ClampInRange
  <2> QED
    BY <1>2, <2>6 DEF sample_waveform
<1> QED
  BY <1>1, <1>2

-----------------------------------------------------------------------------
(* Sequences of points. *)

LEMMA PointInPoints ==
    \A t \in Nat, i \in 0 .. FULL : HapticPoint(t, i) \in HapticPoints /\ HapticPoint(t, i).dt_ms = t
BY DEF HapticPoint, HapticPoints

(* Points in order of time and within the length, and then the zero. *)
LEMMA ZeroAppended ==
    ASSUME NEW points \in Seq(HapticPoints), NEW length \in Nat,
           \A i \in 1 .. Len(points) : points[i].dt_ms <= length,
           \A i, j \in 1 .. Len(points) : i <= j => points[i].dt_ms <= points[j].dt_ms
    PROVE  EndsAtZero(points \o <<HapticPoint(length, 0)>>, length)
<1> DEFINE zero == HapticPoint(length, 0)
           all  == points \o <<zero>>
           n    == Len(points)
<1>1. zero \in HapticPoints /\ zero.dt_ms = length
  BY PointInPoints, TranslateAssumption
<1>2. n \in Nat /\ <<zero>> \in Seq(HapticPoints) /\ Len(<<zero>>) = 1 /\ <<zero>>[1] = zero
  BY <1>1
<1>3. /\ all \in Seq(HapticPoints) /\ Len(all) = n + 1
      /\ \A i \in 1 .. n + 1 : all[i] = IF i <= n THEN points[i] ELSE <<zero>>[i - n]
  BY <1>2, ConcatProperties
<1> SUFFICES EndsAtZero(all, length)
  OBVIOUS
<1> HIDE DEF zero, all
<1>4. all[n + 1] = zero /\ \A i \in 1 .. n : all[i] = points[i]
  BY <1>2, <1>3
<1>5. \A i \in 1 .. n + 1 : all[i].dt_ms <= length
  BY <1>1, <1>2, <1>4
<1>6. ASSUME NEW i \in 1 .. n + 1, NEW j \in 1 .. n + 1, i <= j
      PROVE  all[i].dt_ms <= all[j].dt_ms
  <2>1. CASE j = n + 1
    BY <1>1, <1>4, <1>5, <2>1
  <2>2. CASE j # n + 1
    <3>1. i \in 1 .. n /\ j \in 1 .. n
      BY <1>2, <1>6, <2>2
    <3> QED
      BY <1>4, <1>6, <3>1
  <2> QED
    BY <2>1, <2>2
<1>7. all # <<>>
  BY <1>2, <1>3
<1> QED
  BY <1>3, <1>4, <1>5, <1>6, <1>7 DEF EndsAtZero, zero

LEMMA SampledPoints ==
    ASSUME NEW length \in Nat, NEW n \in Nat,
           n = (length + SAMPLE_INTERVAL_MS - 1) \div SAMPLE_INTERVAL_MS,
           NEW v \in [1 .. n -> 0 .. FULL]
    PROVE  EndsAtZero([i \in 1 .. n |-> HapticPoint((i - 1) * SAMPLE_INTERVAL_MS, v[i])]
                          \o <<HapticPoint(length, 0)>>, length)
<1> DEFINE points == [i \in 1 .. n |-> HapticPoint((i - 1) * SAMPLE_INTERVAL_MS, v[i])]
<1>1. \A i \in 1 .. n :
          /\ (i - 1) * SAMPLE_INTERVAL_MS \in Nat
          /\ (i - 1) * SAMPLE_INTERVAL_MS <= length
          /\ points[i] \in HapticPoints
          /\ points[i].dt_ms = (i - 1) * SAMPLE_INTERVAL_MS
  <2> TAKE i \in 1 .. n
  <2>1. (i - 1) * SAMPLE_INTERVAL_MS \in Nat /\ (i - 1) * SAMPLE_INTERVAL_MS < length
    BY SampleTimes
  <2>2. points[i] = HapticPoint((i - 1) * SAMPLE_INTERVAL_MS, v[i]) /\ v[i] \in 0 .. FULL
    OBVIOUS
  <2> QED
    BY <2>1, <2>2, PointInPoints
<1>2. points \in Seq(HapticPoints) /\ Len(points) = n
  <2>1. points \in [1 .. n -> HapticPoints]
    BY <1>1
  <2> HIDE DEF points
  <2> QED
    BY <2>1
<1>3. \A i, j \in 1 .. n : i <= j => points[i].dt_ms <= points[j].dt_ms
  <2> HIDE DEF points
  <2> TAKE i, j \in 1 .. n
  <2>1. i \in Nat \ {0} /\ j \in Nat \ {0}
    OBVIOUS
  <2>2. /\ points[i].dt_ms = (i - 1) * SAMPLE_INTERVAL_MS
        /\ points[j].dt_ms = (j - 1) * SAMPLE_INTERVAL_MS
    BY <1>1
  <2> QED
    BY <2>1, <2>2, TimesGrow
<1>4. \A i \in 1 .. n : points[i].dt_ms <= length
  BY <1>1
<1> HIDE DEF points
<1>5. EndsAtZero(points \o <<HapticPoint(length, 0)>>, length)
  BY <1>2, <1>3, <1>4, ZeroAppended
<1> QED
  BY <1>5 DEF points

-----------------------------------------------------------------------------
(* The effects. *)

LEMMA EffectWords ==
    ASSUME NEW effect \in FfEffect
    PROVE  /\ effect.replay_length \in U16
           /\ \A i \in 1 .. 7 : effect.u[i] \in U16 /\ effect.u[i] \in Int /\ I16(effect.u[i]) \in Int
<1>1. effect.replay_length \in U16 /\ \A i \in 1 .. 7 : effect.u[i] \in U16
  BY DEF FfEffect
<1> QED
  BY <1>1, U16IsNat, I16IsInt

LEMMA ConstantEnds ==
    ASSUME NEW effect \in FfEffect
    PROVE  EndsAtZero(constant_points(effect), effect.replay_length)
<1> DEFINE length == effect.replay_length
           u      == effect.u
           env    == Envelope(u[2], u[3], u[4], u[5])
           level  == clamp(Level(I16(Abs(I16(u[1])))))
           n      == (length + SAMPLE_INTERVAL_MS - 1) \div SAMPLE_INTERVAL_MS
           v      == [i \in 1 .. n |->
                         apply_envelope(level, (i - 1) * SAMPLE_INTERVAL_MS, length, env)]
<1>1. length \in Nat /\ length \in U16 /\ n \in Nat
  BY EffectWords, U16IsNat, SampleCount
<1>2. env \in Envelopes
  BY EffectWords DEF Envelope, Envelopes
<1>3. level \in Int
  <2>1. Level(I16(Abs(I16(u[1])))) \in Int
    BY EffectWords, I16IsInt, LevelIsInt
  <2> QED
    BY <2>1, ClampInRange, TranslateAssumption
<1>4. v \in [1 .. n -> 0 .. FULL]
  <2> SUFFICES ASSUME NEW i \in 1 .. n
               PROVE  apply_envelope(level, (i - 1) * SAMPLE_INTERVAL_MS, length, env) \in 0 .. FULL
    OBVIOUS
  <2>1. (i - 1) * SAMPLE_INTERVAL_MS \in Nat
    BY <1>1, SampleTimes
  <2> HIDE DEF level, env, n, length
  <2> QED
    BY <1>1, <1>2, <1>3, <2>1, EnvelopeInRange
<1>5. constant_points(effect) =
          [i \in 1 .. n |-> HapticPoint((i - 1) * SAMPLE_INTERVAL_MS, v[i])]
              \o <<HapticPoint(length, 0)>>
  <2>1. \A i \in 1 .. n : (i - 1) * SAMPLE_INTERVAL_MS \in Nat
    BY <1>1, SampleTimes
  <2> QED
    BY <2>1 DEF constant_points, sample_range_fn
<1> HIDE DEF v, n
<1>6. n = (length + SAMPLE_INTERVAL_MS - 1) \div SAMPLE_INTERVAL_MS
  BY DEF n
<1> QED
  BY ZenonT(40), <1>1, <1>4, <1>5, <1>6, SampledPoints

LEMMA PeriodicEnds ==
    ASSUME NEW effect \in FfEffect
    PROVE  EndsAtZero(periodic_points(effect), effect.replay_length)
<1> DEFINE length  == effect.replay_length
           u       == effect.u
           env     == Envelope(u[6], 0, u[7], 0)
           base(t) == sample_waveform(Waveform(u[1]), t, u[2], I16(u[3]), I16(u[4]))
           n       == (length + SAMPLE_INTERVAL_MS - 1) \div SAMPLE_INTERVAL_MS
           v       == [i \in 1 .. n |->
                          apply_envelope(base((i - 1) * SAMPLE_INTERVAL_MS),
                                         (i - 1) * SAMPLE_INTERVAL_MS, length, env)]
<1>1. length \in Nat /\ length \in U16 /\ n \in Nat
  BY EffectWords, U16IsNat, SampleCount
<1>2. env \in Envelopes
  <2>1. 0 \in U16
    BY DEF U16
  <2> QED
    BY <2>1, EffectWords DEF Envelope, Envelopes
<1>3. ASSUME NEW t \in Nat PROVE base(t) \in Int
  <2>1. base(t) \in 0 .. FULL
    BY EffectWords, WaveformInRange
  <2> HIDE DEF base
  <2> QED
    BY <2>1, TranslateAssumption
<1>4. v \in [1 .. n -> 0 .. FULL]
  <2> SUFFICES ASSUME NEW i \in 1 .. n
               PROVE  apply_envelope(base((i - 1) * SAMPLE_INTERVAL_MS),
                                     (i - 1) * SAMPLE_INTERVAL_MS, length, env) \in 0 .. FULL
    OBVIOUS
  <2>1. (i - 1) * SAMPLE_INTERVAL_MS \in Nat
    BY <1>1, SampleTimes
  <2>2. base((i - 1) * SAMPLE_INTERVAL_MS) \in Int
    BY <1>3, <2>1
  <2> HIDE DEF base, env, n, length
  <2> QED
    BY <1>1, <1>2, <2>1, <2>2, EnvelopeInRange
<1>5. periodic_points(effect) =
          [i \in 1 .. n |-> HapticPoint((i - 1) * SAMPLE_INTERVAL_MS, v[i])]
              \o <<HapticPoint(length, 0)>>
  <2>1. \A i \in 1 .. n : (i - 1) * SAMPLE_INTERVAL_MS \in Nat
    BY <1>1, SampleTimes
  <2> QED
    BY <2>1 DEF periodic_points, sample_range_fn
<1> HIDE DEF v, n
<1>6. n = (length + SAMPLE_INTERVAL_MS - 1) \div SAMPLE_INTERVAL_MS
  BY DEF n
<1> QED
  BY <1>1, <1>4, <1>5, <1>6, SampledPoints

LEMMA ZeroAlone ==
    ASSUME NEW length \in Nat
    PROVE  EndsAtZero(<<HapticPoint(length, 0)>>, length)
<1>1. HapticPoint(length, 0) \in HapticPoints /\ HapticPoint(length, 0).dt_ms = length
  BY PointInPoints, TranslateAssumption
<1>2. ASSUME NEW zero \in HapticPoints, zero.dt_ms = length
      PROVE  /\ <<zero>> \in Seq(HapticPoints) /\ <<zero>> # <<>> /\ <<zero>>[Len(<<zero>>)] = zero
             /\ \A i \in 1 .. Len(<<zero>>) : <<zero>>[i] = zero
  OBVIOUS
<1> QED
  BY <1>1, <1>2 DEF EndsAtZero

LEMMA ZeroAfterOne ==
    ASSUME NEW length \in Nat, NEW p \in HapticPoints, p.dt_ms = 0
    PROVE  EndsAtZero(<<p, HapticPoint(length, 0)>>, length)
<1>1. HapticPoint(length, 0) \in HapticPoints /\ HapticPoint(length, 0).dt_ms = length
  BY PointInPoints, TranslateAssumption
<1>2. ASSUME NEW zero \in HapticPoints, zero.dt_ms = length
      PROVE  /\ <<p, zero>> \in Seq(HapticPoints) /\ <<p, zero>> # <<>> /\ Len(<<p, zero>>) = 2
             /\ <<p, zero>>[Len(<<p, zero>>)] = zero
             /\ \A i \in 1 .. 2 : <<p, zero>>[i] = IF i = 1 THEN p ELSE zero
  OBVIOUS
<1>3. ASSUME NEW zero \in HapticPoints, zero.dt_ms = length
      PROVE  /\ \A i \in 1 .. 2 : <<p, zero>>[i].dt_ms <= length
             /\ \A i, j \in 1 .. 2 : i <= j => <<p, zero>>[i].dt_ms <= <<p, zero>>[j].dt_ms
  <2>1. <<p, zero>>[1].dt_ms = 0 /\ <<p, zero>>[2].dt_ms = length
    BY <1>3
  <2> QED
    BY <2>1
<1>4. PICK zero \in HapticPoints : zero = HapticPoint(length, 0) /\ zero.dt_ms = length
  BY <1>1
<1> QED
  BY <1>2, <1>3, <1>4 DEF EndsAtZero

LEMMA RumbleEnds ==
    ASSUME NEW effect \in FfEffect
    PROVE  EndsAtZero(rumble_points(effect), effect.replay_length)
<1>1. PICK length \in Nat : length = effect.replay_length
  BY EffectWords, U16IsNat
<1>2. PICK p \in HapticPoints : p = HapticPoint(0, rumble_intensity(effect.u[1], effect.u[2])) /\ p.dt_ms = 0
  <2>1. effect.u[1] + effect.u[2] \in Int
    <3>1. effect.u[1] \in Int /\ effect.u[2] \in Int
      BY EffectWords
    <3> QED
      BY <3>1
  <2>2. ((effect.u[1] + effect.u[2]) * FULL) \div (2 * 65535) \in Int
    <3>1. FULL \in Int /\ 2 * 65535 \in Nat \ {0}
      BY TranslateAssumption
    <3>2. (effect.u[1] + effect.u[2]) * FULL \in Int
      BY <2>1, <3>1, TimesIsInt
    <3> QED
      BY <3>1, <3>2, DivIsInt
  <2>3. rumble_intensity(effect.u[1], effect.u[2]) \in 0 .. FULL
    BY <2>2, ClampInRange DEF rumble_intensity
  <2> QED
    BY <2>3, PointInPoints
<1>3. rumble_points(effect) = IF length = 0 THEN <<HapticPoint(0, 0)>> ELSE <<p, HapticPoint(length, 0)>>
  BY <1>1, <1>2 DEF rumble_points
<1>4. EndsAtZero(<<HapticPoint(length, 0)>>, length) /\ EndsAtZero(<<p, HapticPoint(length, 0)>>, length)
  BY <1>2, ZeroAlone, ZeroAfterOne
<1> QED
  BY <1>1, <1>3, <1>4

LEMMA RampEnds ==
    ASSUME NEW effect \in FfEffect
    PROVE  EndsAtZero(ramp_points(effect), effect.replay_length)
<1> DEFINE length  == effect.replay_length
           n       == (length + SAMPLE_INTERVAL_MS - 1) \div SAMPLE_INTERVAL_MS
           samples == 1 + n
           time(i) == IF i = samples THEN length ELSE (i - 1) * SAMPLE_INTERVAL_MS
           height(t) == clamp(Level(Abs(RampLevel(I16(effect.u[1]), I16(effect.u[2]), t, length))))
           points  == [i \in 1 .. samples |-> HapticPoint(time(i), height(time(i)))]
<1>1. length \in Nat /\ n \in Nat /\ samples \in Nat
  BY EffectWords, U16IsNat, SampleCount
<1>2. ASSUME NEW i \in 1 .. samples
      PROVE  time(i) \in Nat /\ time(i) <= length
  <2>1. CASE i = samples
    BY <1>1, <2>1
  <2>2. CASE i # samples
    <3>1. i \in 1 .. n
      BY <1>1, <2>2
    <3>2. (i - 1) * SAMPLE_INTERVAL_MS \in Nat /\ (i - 1) * SAMPLE_INTERVAL_MS < length
      BY <1>1, <3>1, SampleTimes
    <3> QED
      BY <1>1, <2>2, <3>2
  <2> QED
    BY <2>1, <2>2
<1>3. ASSUME NEW t \in Nat PROVE height(t) \in 0 .. FULL
  <2>1. RampLevel(I16(effect.u[1]), I16(effect.u[2]), t, length) \in Int
    <3>1. I16(effect.u[1]) \in Int /\ I16(I16(effect.u[2]) - I16(effect.u[1])) \in Int
      BY EffectWords, I16IsInt
    <3>2. ASSUME length # 0
          PROVE  (I16(I16(effect.u[2]) - I16(effect.u[1])) * t) \div length \in Int
      BY <1>1, <3>1, <3>2, TimesIsInt, DivIsInt
    <3> QED
      BY <3>1, <3>2 DEF RampLevel
  <2> QED
    BY <2>1, I16IsInt, LevelIsInt, ClampInRange
<1>4. ASSUME NEW i \in 1 .. samples
      PROVE  points[i] \in HapticPoints /\ points[i].dt_ms = time(i)
  <2>1. height(time(i)) \in 0 .. FULL /\ time(i) \in Nat
    BY <1>2, <1>3
  <2>2. points[i] = HapticPoint(time(i), height(time(i)))
    OBVIOUS
  <2> HIDE DEF height, time, points
  <2> QED
    BY <2>1, <2>2, PointInPoints
<1>5. points \in Seq(HapticPoints) /\ Len(points) = samples
  <2>1. points \in [1 .. samples -> HapticPoints]
    BY <1>4
  <2> HIDE DEF points, samples
  <2> QED
    BY <1>1, <2>1
<1>6. ASSUME NEW i \in 1 .. samples, NEW j \in 1 .. samples, i <= j
      PROVE  time(i) <= time(j)
  <2>1. CASE j = samples
    <3>1. time(j) = length
      BY <2>1
    <3> QED
      BY <1>2, <3>1
  <2>2. CASE j # samples
    <3>1. i # samples /\ i \in Nat \ {0} /\ j \in Nat \ {0}
      BY <1>1, <1>6, <2>2
    <3>2. (i - 1) * SAMPLE_INTERVAL_MS <= (j - 1) * SAMPLE_INTERVAL_MS
      BY <1>6, <3>1, TimesGrow
    <3> QED
      BY <2>2, <3>1, <3>2
  <2> QED
    BY <2>1, <2>2
<1>7. ramp_points(effect) = points \o <<HapticPoint(length, 0)>>
  <2>1. samples = 1 + (length + SAMPLE_INTERVAL_MS - 1) \div SAMPLE_INTERVAL_MS
    OBVIOUS
  <2> QED
    BY DEF ramp_points
<1>8. /\ \A i \in 1 .. Len(points) : points[i].dt_ms <= length
      /\ \A i, j \in 1 .. Len(points) : i <= j => points[i].dt_ms <= points[j].dt_ms
  <2> HIDE DEF points, time, samples, length
  <2> QED
    BY <1>2, <1>4, <1>5, <1>6
<1> HIDE DEF points
<1> QED
  BY <1>1, <1>5, <1>7, <1>8, ZeroAppended

(* Whatever the words of an effect - envelopes longer than it, a period of *)
(* zero, levels whose difference or magnitude overflows - an effect of a   *)
(* kind translate knows becomes intensities in range, in order of time,    *)
(* and ends with the motor off at its length; one it does not know, none.  *)
THEOREM EveryEffectEnds ==
    \A effect \in FfEffect :
        IF effect.kind \in Known THEN EndsAtZero(translate(effect), effect.replay_length)
        ELSE translate(effect) = <<>>
<1> TAKE effect \in FfEffect
<1> USE DEF FF_RUMBLE, FF_PERIODIC, FF_CONSTANT, FF_RAMP
<1>1. CASE effect.kind = FF_RUMBLE
  <2>1. translate(effect) = rumble_points(effect) /\ effect.kind \in Known
    BY <1>1 DEF translate, Known
  <2> QED
    BY <2>1, RumbleEnds
<1>2. CASE effect.kind = FF_PERIODIC
  <2>1. translate(effect) = periodic_points(effect) /\ effect.kind \in Known
    BY <1>2 DEF translate, Known
  <2> QED
    BY <2>1, PeriodicEnds
<1>3. CASE effect.kind = FF_CONSTANT
  <2>1. translate(effect) = constant_points(effect) /\ effect.kind \in Known
    BY <1>3 DEF translate, Known
  <2> QED
    BY <2>1, ConstantEnds
<1>4. CASE effect.kind = FF_RAMP
  <2>1. translate(effect) = ramp_points(effect) /\ effect.kind \in Known
    BY <1>4 DEF translate, Known
  <2> QED
    BY <2>1, RampEnds
<1>5. CASE effect.kind \notin Known
  BY <1>5 DEF translate, Known
<1> QED
  BY <1>1, <1>2, <1>3, <1>4, <1>5 DEF Known

-----------------------------------------------------------------------------
(* Rounding. *)

(* A part of a difference rounds to a number between nothing and all of it. *)
LEMMA PartOfDifference ==
    ASSUME NEW a \in Int, NEW b \in Int, NEW t \in Nat, NEW span \in Nat \ {0}, t <= span
    PROVE  /\ a + ((b - a) * t) \div span \in Int
           /\ a <= b => a + ((b - a) * t) \div span \in a .. b
           /\ b <= a => a + ((b - a) * t) \div span \in b .. a
<1> DEFINE d == b - a
           x == (d * t) \div span
<1>1. d \in Int /\ d * t \in Int /\ x \in Int
  OBVIOUS
<1>2. x * span <= d * t /\ d * t < x * span + span
  OBVIOUS
<1>3. ASSUME d >= 0 PROVE x \in 0 .. d
  <2>1. d * t >= 0 /\ d * t <= d * span
    BY <1>3
  <2>2. x >= 0
    <3> SUFFICES ASSUME x <= -1 PROVE FALSE
      BY <1>1
    <3> HIDE DEF x, d
    <3>1. x * span <= (-1) * span
      BY <1>1
    <3> QED
      BY <1>1, <1>2, <2>1, <3>1
  <2>3. x <= d
    <3> SUFFICES ASSUME x >= d + 1 PROVE FALSE
      BY <1>1
    <3> HIDE DEF x, d
    <3>1. x * span >= (d + 1) * span /\ (d + 1) * span = d * span + span
      BY <1>1
    <3> QED
      BY <1>1, <1>2, <2>1, <3>1
  <2> QED
    BY <1>1, <2>2, <2>3
<1>4. ASSUME d <= 0 PROVE x \in d .. 0
  <2>1. d * t <= 0 /\ d * t >= d * span
    BY <1>4
  <2>2. x <= 0
    <3> SUFFICES ASSUME x >= 1 PROVE FALSE
      BY <1>1
    <3> HIDE DEF x, d
    <3>1. x * span >= span
      BY <1>1
    <3> QED
      BY <1>1, <1>2, <2>1, <3>1
  <2>3. x >= d
    <3> SUFFICES ASSUME x <= d - 1 PROVE FALSE
      BY <1>1
    <3> HIDE DEF x, d
    <3>1. x * span <= (d - 1) * span /\ (d - 1) * span = d * span - span
      BY <1>1
    <3> QED
      BY <1>1, <1>2, <2>1, <3>1
  <2> QED
    BY <1>1, <2>2, <2>3
<1> HIDE DEF x
<1>5. /\ a + x \in Int
      /\ a <= b => a + x \in a .. b
      /\ b <= a => a + x \in b .. a
  BY <1>1, <1>3, <1>4
<1> QED
  BY <1>5 DEF x

LEMMA Rounds ==
    \A x \in Int, d \in Nat \ {0} :
        x \div d \in Int /\ (x \div d) * d <= x /\ x < (x \div d) * d + d
OBVIOUS

(* Rounding down is told by the number it rounds to. *)
LEMMA RoundsTo ==
    ASSUME NEW x \in Int, NEW d \in Nat \ {0}, NEW q \in Int, q * d <= x, x < q * d + d
    PROVE  x \div d = q
<1> DEFINE y == x \div d
<1>1. y \in Int /\ y * d <= x /\ x < y * d + d
  BY Rounds
<1> HIDE DEF y
<1>2. ~(y < q)
  <2> SUFFICES ASSUME y + 1 <= q PROVE FALSE
    BY <1>1
  <2>1. (y + 1) * d <= q * d /\ (y + 1) * d = y * d + d
    BY <1>1
  <2>2. y * d \in Int /\ q * d \in Int
    BY <1>1
  <2> QED
    BY <1>1, <2>1, <2>2
<1>3. ~(q < y)
  <2> SUFFICES ASSUME q + 1 <= y PROVE FALSE
    BY <1>1
  <2>1. (q + 1) * d <= y * d /\ (q + 1) * d = q * d + d
    BY <1>1
  <2>2. y * d \in Int /\ q * d \in Int
    BY <1>1
  <2> QED
    BY <1>1, <2>1, <2>2
<1>4. y = q
  BY <1>1, <1>2, <1>3
<1> QED
  BY <1>4 DEF y

LEMMA WholesTakenOut ==
    ASSUME NEW x \in Int, NEW d \in Nat \ {0}, NEW a \in Int
    PROVE  (a * d + x) \div d = a + x \div d
<1> DEFINE y == x \div d
<1>1. y \in Int /\ y * d <= x /\ x < y * d + d
  BY Rounds
<1> HIDE DEF y
<1>2. (a + y) * d = a * d + y * d /\ a * d \in Int /\ y * d \in Int /\ a + y \in Int
  BY <1>1
<1>3. (a + y) * d <= a * d + x /\ a * d + x < (a + y) * d + d /\ a * d + x \in Int
  BY <1>1, <1>2
<1>4. (a * d + x) \div d = a + y
  BY <1>2, <1>3, RoundsTo
<1> QED
  BY <1>4 DEF y

(* Up and down differ by one at most. *)
LEMMA RoundsNegative ==
    ASSUME NEW x \in Int, NEW d \in Nat \ {0}
    PROVE  -(x \div d) - ((-x) \div d) \in 0 .. 1
<1> DEFINE y == x \div d
           z == (-x) \div d
<1>1. y \in Int /\ y * d <= x /\ x < y * d + d
  BY Rounds
<1>2. z \in Int /\ z * d <= -x /\ -x < z * d + d
  BY Rounds
<1> HIDE DEF y, z
<1>3. y * d \in Int /\ z * d \in Int /\ (y + z) * d = y * d + z * d /\ y + z \in Int
  BY <1>1, <1>2
<1>4. (y + z) * d <= 0 /\ -(2 * d) < (y + z) * d
  BY <1>1, <1>2, <1>3
<1> DEFINE w == y + z
<1>5. w \in Int /\ w * d <= 0 /\ -(2 * d) < w * d
  BY <1>3, <1>4
<1> HIDE DEF w
<1>6. ~(w >= 1)
  <2> SUFFICES ASSUME w >= 1 PROVE FALSE
    OBVIOUS
  <2>1. w * d >= d
    BY <1>5
  <2> QED
    BY <1>5, <2>1
<1>7. ~(w <= -2)
  <2> SUFFICES ASSUME w <= -2 PROVE FALSE
    OBVIOUS
  <2>1. w * d <= (-2) * d
    BY <1>5
  <2> QED
    BY <1>5, <2>1
<1>8. w \in -1 .. 0
  BY <1>5, <1>6, <1>7
<1>9. -y - z \in 0 .. 1
  BY <1>1, <1>2, <1>8 DEF w
<1> QED
  BY <1>9 DEF y, z

(* Two numbers less than a divisor apart are at most one apart divided.    *)
LEMMA CloseDivided ==
    ASSUME NEW x \in Int, NEW z \in Int, NEW d \in Nat \ {0}, x - z \in -d .. d
    PROVE  x \div d - z \div d \in -1 .. 1
<1> DEFINE p == x \div d
           q == z \div d
<1>1. p \in Int /\ p * d <= x /\ x < p * d + d
  BY Rounds
<1>2. q \in Int /\ q * d <= z /\ z < q * d + d
  BY Rounds
<1> HIDE DEF p, q
<1> DEFINE w == p - q
<1>3. w \in Int /\ w * d = p * d - q * d /\ p * d \in Int /\ q * d \in Int
  BY <1>1, <1>2
<1>4. w * d < 2 * d /\ -(2 * d) < w * d
  BY <1>1, <1>2, <1>3
<1> HIDE DEF w
<1>5. ~(w >= 2)
  <2> SUFFICES ASSUME w >= 2 PROVE FALSE
    OBVIOUS
  <2>1. w * d >= 2 * d
    BY <1>3
  <2> QED
    BY <1>3, <1>4, <2>1
<1>6. ~(w <= -2)
  <2> SUFFICES ASSUME w <= -2 PROVE FALSE
    OBVIOUS
  <2>1. w * d <= (-2) * d
    BY <1>3
  <2> QED
    BY <1>3, <1>4, <2>1
<1>7. w \in -1 .. 1
  BY <1>3, <1>5, <1>6
<1> QED
  BY <1>7 DEF w, p, q

LEMMA DividedInOrder ==
    ASSUME NEW x \in Int, NEW z \in Int, NEW d \in Nat \ {0}, x <= z
    PROVE  x \div d <= z \div d
<1> DEFINE p == x \div d
           q == z \div d
<1>1. p \in Int /\ p * d <= x /\ x < p * d + d
  BY Rounds
<1>2. q \in Int /\ q * d <= z /\ z < q * d + d
  BY Rounds
<1> HIDE DEF p, q
<1>3. ~(q + 1 <= p)
  <2> SUFFICES ASSUME q + 1 <= p PROVE FALSE
    OBVIOUS
  <2>1. (q + 1) * d <= p * d /\ (q + 1) * d = q * d + d /\ q * d \in Int /\ p * d \in Int
    BY <1>1, <1>2
  <2> QED
    BY <1>1, <1>2, <2>1
<1>4. p <= q
  BY <1>1, <1>2, <1>3
<1> QED
  BY <1>4 DEF p, q

-----------------------------------------------------------------------------
(* Levels. *)

(* Clamping brings numbers no further apart, and keeps their order.        *)
LEMMA ClampKeeps ==
    ASSUME NEW x \in Int, NEW z \in Int
    PROVE  /\ x <= z => clamp(x) <= clamp(z)
           /\ x - z \in -1 .. 1 => clamp(x) - clamp(z) \in -1 .. 1
           /\ x \in 0 .. FULL => clamp(x) = x
           /\ x <= 0 => clamp(x) = 0
<1>1. FULL \in Nat \ {0}
  BY TranslateAssumption
<1>2. x <= z => clamp(x) <= clamp(z)
  BY <1>1 DEF clamp
<1>3. x - z \in -1 .. 1 => clamp(x) - clamp(z) \in -1 .. 1
  BY <1>1 DEF clamp
<1> QED
  BY <1>1, <1>2, <1>3 DEF clamp

LEMMA LevelInOrder ==
    ASSUME NEW x \in Int, NEW z \in Int, x <= z
    PROVE  Level(x) <= Level(z) /\ Level(x) \in Int /\ Level(z) \in Int
<1>1. FULL \in Nat \ {0}
  BY TranslateAssumption
<1>2. x * FULL <= z * FULL /\ x * FULL \in Int /\ z * FULL \in Int
  BY <1>1
<1> DEFINE d == 32767
<1>3. d \in Nat \ {0}
  OBVIOUS
<1> HIDE DEF d
<1>4. (x * FULL) \div d <= (z * FULL) \div d
  BY <1>2, <1>3, DividedInOrder
<1>5. Level(x) = (x * FULL) \div d /\ Level(z) = (z * FULL) \div d
  BY DEF Level, d
<1> QED
  BY <1>4, <1>5, LevelIsInt

(* The ends of the range of an i16. *)
LEMMA LevelAtEnds == Level(0) = 0 /\ Level(32767) = FULL /\ Level(-32768) <= 0
<1> DEFINE d == 32767
<1>1. d \in Nat \ {0} /\ FULL \in Nat \ {0}
  BY TranslateAssumption
<1> HIDE DEF d
<1>2. 0 \div d = 0
  <2>1. 0 * d <= 0 /\ 0 < 0 * d + d /\ 0 \in Int
    BY <1>1
  <2> QED
    BY <1>1, <2>1, RoundsTo
<1>3. 0 * FULL = 0
  BY <1>1
<1>4. Level(0) = 0
  BY <1>2, <1>3 DEF Level, d
<1>5. (d * FULL) \div d = FULL
  <2>1. FULL * d <= d * FULL /\ d * FULL < FULL * d + d /\ d * FULL \in Int /\ FULL \in Int
    BY <1>1
  <2> QED
    BY <1>1, <2>1, RoundsTo
<1>6. Level(32767) = FULL
  BY <1>5 DEF Level, d
<1>7. Level(-32768) <= 0
  <2>1. Level(-32768) <= Level(0)
    BY LevelInOrder
  <2> QED
    BY <1>4, <2>1
<1> QED
  BY <1>4, <1>6, <1>7

LEMMA I16Range ==
    \A x \in Int :
        /\ I16(x) \in Int /\ -32768 <= I16(x) /\ I16(x) <= 32767
        /\ -32768 <= x /\ x <= 32767 => I16(x) = x
        /\ I16(32768) = -32768
BY DEF I16

(* A level of 16 bits has its magnitude, but for the lowest, which has none. *)
LEMMA Magnitude ==
    ASSUME NEW level \in Int, -32768 <= level, level <= 32767
    PROVE  /\ level = -32768 => clamp(Level(I16(Abs(level)))) = 0
           /\ level # -32768 =>
                  /\ clamp(Level(I16(Abs(level)))) = Level(Abs(level))
                  /\ Level(Abs(level)) \in 0 .. FULL
<1>1. CASE level = -32768
  <2>1. Abs(level) = 32768
    <3>1. level < 0 /\ 0 - level = 32768
      BY <1>1
    <3>2. Abs(level) = 0 - level
      BY <3>1 DEF Abs
    <3> QED
      BY <3>1, <3>2
  <2>2. I16(Abs(level)) = -32768
    BY <2>1, I16Range
  <2>3. Level(-32768) \in Int /\ Level(-32768) <= 0
    BY LevelAtEnds, LevelIsInt
  <2>4. clamp(Level(-32768)) = 0
    BY <2>3, ClampKeeps
  <2> QED
    BY <1>1, <2>2, <2>4
<1>2. CASE level # -32768
  <2> DEFINE a == Abs(level)
  <2>1. a \in Int /\ 0 <= a /\ a <= 32767
    BY <1>2 DEF Abs
  <2>2. I16(a) = a
    BY <2>1, I16Range
  <2> HIDE DEF a
  <2>3. Level(0) <= Level(a) /\ Level(a) <= Level(32767) /\ Level(a) \in Int
    BY <2>1, LevelInOrder
  <2>4. Level(a) \in 0 .. FULL
    BY <2>3, LevelAtEnds, TranslateAssumption
  <2>5. clamp(Level(a)) = Level(a)
    BY <2>3, <2>4, ClampKeeps
  <2> QED
    BY <1>2, <2>2, <2>4, <2>5 DEF a
<1> QED
  BY <1>1, <1>2

-----------------------------------------------------------------------------
(* What the samples of constants and ramps are. *)

LEMMA OneAppended ==
    ASSUME NEW n \in Nat, NEW points, DOMAIN points = 1 .. n, NEW z,
           points = [i \in 1 .. n |-> points[i]]
    PROVE  /\ Len(points \o <<z>>) = n + 1
           /\ \A i \in 1 .. n : (points \o <<z>>)[i] = points[i]
           /\ (points \o <<z>>)[n + 1] = z
<1> DEFINE S == {points[i] : i \in 1 .. n} \union {z}
<1>1. points \in Seq(S) /\ Len(points) = n
  <2>1. points \in [1 .. n -> S]
    OBVIOUS
  <2> HIDE DEF S
  <2> QED
    BY <2>1
<1>2. <<z>> \in Seq(S) /\ Len(<<z>>) = 1 /\ <<z>>[1] = z
  <2>1. z \in S
    OBVIOUS
  <2> HIDE DEF S
  <2> QED
    BY <2>1
<1> HIDE DEF S
<1>3. /\ Len(points \o <<z>>) = n + 1
      /\ \A i \in 1 .. n + 1 : (points \o <<z>>)[i] = IF i <= n THEN points[i] ELSE <<z>>[i - n]
  BY <1>1, <1>2, ConcatProperties
<1> QED
  BY <1>2, <1>3

LEMMA ConstantSamples ==
    ASSUME NEW effect \in FfEffect
    PROVE  LET length == effect.replay_length
               u      == effect.u
               n      == (length + SAMPLE_INTERVAL_MS - 1) \div SAMPLE_INTERVAL_MS
           IN  /\ n \in Nat /\ Len(constant_points(effect)) = n + 1
               /\ \A i \in 1 .. n :
                      LET t == (i - 1) * SAMPLE_INTERVAL_MS
                      IN  /\ t \in Nat /\ t < length
                          /\ constant_points(effect)[i] =
                                 HapticPoint(t, apply_envelope(clamp(Level(I16(Abs(I16(u[1]))))), t, length,
                                                               Envelope(u[2], u[3], u[4], u[5])))
<1> DEFINE length == effect.replay_length
           u      == effect.u
           n      == (length + SAMPLE_INTERVAL_MS - 1) \div SAMPLE_INTERVAL_MS
           env    == Envelope(u[2], u[3], u[4], u[5])
           level  == clamp(Level(I16(Abs(I16(u[1])))))
           value(t) == apply_envelope(level, t, length, env)
           samples == [i \in 1 .. n |-> HapticPoint((i - 1) * SAMPLE_INTERVAL_MS, value((i - 1) * SAMPLE_INTERVAL_MS))]
           points == constant_points(effect)
<1>1. length \in Nat /\ n \in Nat
  BY EffectWords, U16IsNat, SampleCount
<1>2. \A i \in 1 .. n : (i - 1) * SAMPLE_INTERVAL_MS \in Nat /\ (i - 1) * SAMPLE_INTERVAL_MS < length
  BY <1>1, SampleTimes
<1>3. points = samples \o <<HapticPoint(length, 0)>>
  BY <1>2 DEF constant_points, sample_range_fn
<1>4. DOMAIN samples = 1 .. n /\ samples = [i \in 1 .. n |-> samples[i]]
      /\ \A i \in 1 .. n : samples[i] =
             HapticPoint((i - 1) * SAMPLE_INTERVAL_MS, value((i - 1) * SAMPLE_INTERVAL_MS))
  OBVIOUS
<1> HIDE DEF samples, n, points, value
<1>5. /\ Len(points) = n + 1
      /\ \A i \in 1 .. n : points[i] = samples[i]
  BY <1>1, <1>3, <1>4, OneAppended
<1>6. \A i \in 1 .. n : points[i] =
             HapticPoint((i - 1) * SAMPLE_INTERVAL_MS, value((i - 1) * SAMPLE_INTERVAL_MS))
  BY <1>4, <1>5
<1> QED
  BY <1>1, <1>2, <1>5, <1>6 DEF n, points, value

LEMMA RampSamples ==
    ASSUME NEW effect \in FfEffect
    PROVE  LET length == effect.replay_length
               n      == (length + SAMPLE_INTERVAL_MS - 1) \div SAMPLE_INTERVAL_MS
               time(i) == IF i = 1 + n THEN length ELSE (i - 1) * SAMPLE_INTERVAL_MS
           IN  /\ n \in Nat /\ Len(ramp_points(effect)) = n + 2
               /\ \A i \in 1 .. n + 1 :
                      /\ time(i) \in 0 .. length
                      /\ ramp_points(effect)[i].intensity =
                             clamp(Level(Abs(RampLevel(I16(effect.u[1]), I16(effect.u[2]), time(i), length))))
               /\ time(1) = 0 /\ time(n + 1) = length
               /\ ramp_points(effect)[n + 2].intensity = 0
<1> DEFINE length == effect.replay_length
           n == (length + SAMPLE_INTERVAL_MS - 1) \div SAMPLE_INTERVAL_MS
           time(i) == IF i = 1 + n THEN length ELSE (i - 1) * SAMPLE_INTERVAL_MS
           v(i) == clamp(Level(Abs(RampLevel(I16(effect.u[1]), I16(effect.u[2]), time(i), length))))
           samples == [i \in 1 .. 1 + n |-> HapticPoint(time(i), v(i))]
           points == ramp_points(effect)
<1>1. n \in Nat /\ 1 + n \in Nat /\ length \in Nat
  BY EffectWords, U16IsNat, SampleCount
<1>2. points = samples \o <<HapticPoint(length, 0)>>
  BY DEF ramp_points
<1>3. \A i \in 1 .. 1 + n : samples[i].intensity = v(i)
  BY DEF HapticPoint
<1>4. DOMAIN samples = 1 .. 1 + n /\ samples = [i \in 1 .. 1 + n |-> samples[i]]
  OBVIOUS
<1>5. time(1) = 0 /\ time(n + 1) = length
  <2>1. n = 0 => length = 0
    <3> SUFFICES ASSUME n = 0 PROVE length = 0
      OBVIOUS
    <3>1. SAMPLE_INTERVAL_MS \in Nat \ {0} /\ length + SAMPLE_INTERVAL_MS - 1 \in Int
      BY <1>1, TranslateAssumption
    <3>2. length + SAMPLE_INTERVAL_MS - 1 < n * SAMPLE_INTERVAL_MS + SAMPLE_INTERVAL_MS
      BY <3>1, Rounds
    <3>3. n * SAMPLE_INTERVAL_MS + SAMPLE_INTERVAL_MS = SAMPLE_INTERVAL_MS
      <4> HIDE DEF n
      <4> QED
        BY <3>1
    <3> HIDE DEF n
    <3> QED
      BY <1>1, <3>1, <3>2, <3>3
  <2>2. (1 - 1) * SAMPLE_INTERVAL_MS = 0
    BY TranslateAssumption
  <2> HIDE DEF n
  <2> QED
    BY <1>1, <2>1, <2>2
<1>6. \A i \in 1 .. n + 1 : time(i) \in 0 .. length
  <2> TAKE i \in 1 .. n + 1
  <2>1. CASE i = 1 + n
    BY <1>1, <2>1
  <2>2. CASE i # 1 + n
    <3>1. i \in 1 .. n
      BY <1>1, <2>2
    <3> QED
      BY <1>1, <2>2, <3>1, SampleTimes
  <2> QED
    BY <2>1, <2>2
<1> HIDE DEF samples, n, points
<1>7. /\ Len(points) = n + 2
      /\ \A i \in 1 .. n + 1 : points[i].intensity = v(i)
      /\ points[n + 2] = HapticPoint(length, 0)
  <2> DEFINE k == 1 + n
             z == HapticPoint(length, 0)
  <2>1. k \in Nat /\ k = n + 1 /\ k + 1 = n + 2 /\ DOMAIN samples = 1 .. k /\ samples = [i \in 1 .. k |-> samples[i]]
    BY <1>1, <1>4
  <2> HIDE DEF k, z, v
  <2>2. /\ Len(samples \o <<z>>) = k + 1
        /\ \A i \in 1 .. k : (samples \o <<z>>)[i] = samples[i]
        /\ (samples \o <<z>>)[k + 1] = z
    BY <2>1, OneAppended
  <2>3. \A i \in 1 .. k : samples[i].intensity = v(i)
    BY <1>3, <2>1 DEF k
  <2> QED
    BY <1>2, <2>1, <2>2, <2>3 DEF z
<1>8. points[n + 2].intensity = 0
  BY <1>7 DEF HapticPoint
<1> QED
  BY <1>1, <1>5, <1>6, <1>7, <1>8 DEF n, points

(* A ramp whose levels are no further apart than 16 bits goes from the one *)
(* to the other, and is between them on its way.                           *)
LEMMA RampLevels ==
    ASSUME NEW from \in Int, NEW to \in Int, I16(to - from) = to - from,
           NEW length \in Nat, NEW t \in 0 .. length
    PROVE  LET r == RampLevel(from, to, t, length)
           IN  /\ r \in Int
               /\ (from <= r /\ r <= to) \/ (to <= r /\ r <= from)
               /\ t = 0 => r = from
               /\ t = length /\ length > 0 => r = to
<1> DEFINE r == RampLevel(from, to, t, length)
<1>1. CASE length = 0
  <2>1. r = from /\ t = 0
    BY <1>1 DEF RampLevel
  <2> HIDE DEF r
  <2>2. (from <= r /\ r <= to) \/ (to <= r /\ r <= from)
    BY <2>1
  <2> QED
    BY <1>1, <2>1, <2>2 DEF r
<1>2. CASE length # 0
  <2>1. r = from + ((to - from) * t) \div length /\ length \in Nat \ {0} /\ t \in Nat /\ t <= length
    BY <1>2 DEF RampLevel
  <2>2. /\ r \in Int
        /\ from <= to => r \in from .. to
        /\ to <= from => r \in to .. from
    BY <2>1, PartOfDifference
  <2>3. t = 0 => r = from
    <3> SUFFICES ASSUME t = 0 PROVE r = from
      OBVIOUS
    <3>1. 0 \div length = 0
      <4>1. 0 * length <= 0 /\ 0 < 0 * length + length /\ 0 \in Int
        BY <2>1
      <4> QED
        BY <2>1, <4>1, RoundsTo
    <3>2. (to - from) * t = 0
      OBVIOUS
    <3> HIDE DEF r
    <3> QED
      BY <2>1, <3>1, <3>2
  <2>4. t = length => r = to
    <3> SUFFICES ASSUME t = length PROVE r = to
      OBVIOUS
    <3> DEFINE d == to - from
    <3>1. d \in Int /\ from + d = to
      OBVIOUS
    <3> HIDE DEF d
    <3>2. (d * length) \div length = d
      <4>1. d * length <= d * length /\ d * length < d * length + length /\ d * length \in Int
        BY <2>1, <3>1
      <4> QED
        BY <2>1, <3>1, <4>1, RoundsTo
    <3> HIDE DEF r
    <3> QED
      BY <2>1, <3>1, <3>2 DEF d
  <2> HIDE DEF r
  <2>5. (from <= r /\ r <= to) \/ (to <= r /\ r <= from)
    BY <2>2
  <2> QED
    BY <2>2, <2>3, <2>4, <2>5 DEF r
<1> QED
  BY <1>1, <1>2

(* What lies between two levels is no stronger than the stronger of them. *)
LEMMA BetweenIsWeaker ==
    ASSUME NEW from \in Int, NEW to \in Int, NEW r \in Int,
           (from <= r /\ r <= to) \/ (to <= r /\ r <= from)
    PROVE  \/ clamp(Level(Abs(r))) <= clamp(Level(Abs(from)))
           \/ clamp(Level(Abs(r))) <= clamp(Level(Abs(to)))
<1>1. ASSUME NEW a \in Int, NEW b \in Int, a <= b
      PROVE  clamp(Level(a)) <= clamp(Level(b))
  BY <1>1, LevelInOrder, ClampKeeps
<1>2. Abs(r) <= Abs(from) \/ Abs(r) <= Abs(to)
  BY DEF Abs
<1>3. Abs(r) \in Int /\ Abs(from) \in Int /\ Abs(to) \in Int
  BY I16IsInt
<1> QED
  BY <1>1, <1>2, <1>3
=============================================================================
