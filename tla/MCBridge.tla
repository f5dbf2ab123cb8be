------------------------------ MODULE MCBridge ------------------------------
(* Instances of Bridge for TLC.                                            *)
EXTENDS Bridge

CONSTANTS a1, a2

TwoAddrs   == {a1, a2}
OneAddr    == {a1}
TwoBodies  == {NoSdp, a1, a2}
OneBody    == {NoSdp, a1}
Ring       == {183}
AllFinals  == {200, 302, 407, 486}
FewFinals  == {200, 407}
OnlyAnswer == {200}
=============================================================================
