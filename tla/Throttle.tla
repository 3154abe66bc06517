------------------------------ MODULE Throttle ------------------------------
(***************************************************************************)
(* throttle.rs: the one throttle of the daemon, shared by every device.    *)
(*                                                                         *)
(* The code keeps the Instant of the last haptic; all it ever asks is how  *)
(* long ago that was, up to MIN_INTERVAL_MS.  The model keeps that answer: *)
(* elapsed is saturated at MIN_INTERVAL_MS, which also stands for None (no *)
(* haptic yet), the two cases should_emit_haptic does not tell apart.      *)
(***************************************************************************)
EXTENDS Naturals

CONSTANT MIN_INTERVAL_MS   \* in ticks of the model's clock

ASSUME ThrottleAssumption == MIN_INTERVAL_MS \in Nat

VARIABLE elapsed

ThrottleNew == elapsed = MIN_INTERVAL_MS

should_emit_haptic == elapsed >= MIN_INTERVAL_MS

(* Mutant: the end of the interval is recorded, not its beginning. *)
RecordsDeadline == elapsed' = 0 - MIN_INTERVAL_MS

record_haptic_emitted == elapsed' = 0

(* The passage of time, which Instant::elapsed observes. *)
Elapse ==
    /\ elapsed < MIN_INTERVAL_MS
    /\ elapsed' = elapsed + 1
=============================================================================
