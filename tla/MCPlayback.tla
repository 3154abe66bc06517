----------------------------- MODULE MCPlayback -----------------------------
(* Two devices that share a toy: `pad` drives one toy, `wheel`, which has  *)
(* no entry in the device map, broadcasts to both.                         *)
EXTENDS Playback

CONSTANTS pad, wheel, toy1, toy2

MCDevices == {pad, wheel}
MCToys    == {toy1, toy2}

MCTargetsOf == [d \in MCDevices |-> IF d = pad THEN {toy1} ELSE MCToys]

(* For liveness: the broadcasting device alone. *)
MCWheel          == {wheel}
MCWheelTargetsOf == [d \in MCWheel |-> MCToys]

(* The shortest schedules: an effect without length is one zero, any other *)
(* is some keyframes and a zero.                                           *)
MCSchedules == {<<0>>, <<1, 0>>}

(* A scale that turns everything off, and one past full. *)
WildScales == {-1, 2}
=============================================================================
