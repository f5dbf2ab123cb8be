------------------------------- MODULE MCSip -------------------------------
(* Instances of Sip for TLC.                                               *)
EXTENDS Sip

CONSTANTS a1, a2

AllBodies  == {NoSdp, BadSdp, a1, a2}
FewBodies  == {NoSdp, a1}
TwoAddrs   == {a1, a2}
OneAddr    == {a1}
Ring       == {183}
TryAndRing == {100, 183}
AllFinals  == {200, 302, 407, 486}
FewFinals  == {200, 407}
=============================================================================
