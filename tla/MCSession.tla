----------------------------- MODULE MCSession -----------------------------
(* The pads of bin/e2e-tests.rs: one mapped to every toy, one to a toy the *)
(* server does not have.  The effects are short versions of scenarios.rs   *)
(* and of the unit tests of translate.rs, and the ends of the 16-bit       *)
(* ranges.                                                                 *)
EXTENDS Session, TLC

CONSTANTS padA, padB

MCPads      == {padA, padB}
MCDeviceMap == padA :> NONE @@ padB :> {99}
MCSine      == <<0, 707, 1000, 707, 0, -707, -1000, -707>>

None == Envelope(0, 0, 0, 0)
Both == Envelope(4, 8192, 4, 0)
Long == Envelope(4, 32767, 12, 0)   \* does not fit
Loud == Envelope(4, 65535, 4, 49152)

Effect(kind, length, params, envelope) ==
    [kind |-> kind, length |-> length, params |-> params, envelope |-> envelope]

MCGestures ==
    {Effect(FF_RUMBLE, l, <<65535, 65535>>, None) : l \in {0, 5, 12}}
    \union {Effect(FF_CONSTANT, 11, <<v>>, env) : v \in {32767, 32768}, env \in {Both, Long, Loud}}
    \union {Effect(FF_RAMP, 9, r, Both) :
                r \in {<<8192, 24576>>, <<32767, 49152>>, <<32769, 32767>>, <<32768, 0>>}}
    \union {Effect(FF_PERIODIC, 11, <<p[1], p[2], p[3], 0, 0>>, Both) :
                p \in {<<88, 8, 32767>>, <<90, 8, 32768>>, <<89, 5, 16384>>, <<92, 8, 32767>>, <<91, 0, 32767>>}}
    \union {Effect(FF_CONSTANT, 0, <<32767>>, Both), Effect(FF_RAMP, 0, <<0, 32767>>, Both),
            Effect(FF_PERIODIC, 12, <<0, 8, 32767, 32767, 0>>, None),
            Effect(83, 9, <<1>>, None)}
=============================================================================
