------------------------------- MODULE MCApp -------------------------------
(* Two processes, two effect ids and two devices: the least that lets ids  *)
(* collide across processes and one upload make two devices' plays due.    *)
EXTENDS App

CONSTANTS tgid1, tgid2, dev1, dev2, loud, quiet, mute

MCTgids   == {tgid1, tgid2}
MCDevices == {dev1, dev2}
MCBodies  == {loud, quiet, mute}
MCSilent  == {mute}
=============================================================================
