------------------------------ MODULE MCProbe ------------------------------
(* Two threads, of a process each, on a device with room for one effect.   *)
EXTENDS Probe, TLC

CONSTANTS thread1, thread2, game1, game2, body1, body2

MCThreads == {thread1, thread2}
MCTgids   == {game1, game2}
MCBodies  == {body1, body2}

TwoGames == [t \in MCThreads |-> IF t = thread1 THEN game1 ELSE game2]

BodySymmetry == Permutations(MCBodies)

(* With one thread for each game, the games may trade places. *)
Trade == (thread1 :> thread2) @@ (thread2 :> thread1) @@ (game1 :> game2) @@ (game2 :> game1)
GameSymmetry == BodySymmetry \union {Trade @@ b : b \in BodySymmetry}
=============================================================================
