----------------------------- MODULE MCReaders -----------------------------
(* Two controllers and two paths: a controller may move, come back to a    *)
(* path it had, or take the path of the other.                             *)
EXTENDS Readers

CONSTANTS pad, wheel, event0, event1

MCDevices == {pad, wheel}
MCPad     == {pad}
MCPaths   == {event0, event1}

(* A write on its own, and a start and a stop in one block. *)
MCBlocks == {<<"play">>, <<"stop">>, <<"play", "stop">>}

(* Enough where it does not matter which is which. *)
MCPlays == {<<"play">>, <<"play", "stop">>}
=============================================================================
