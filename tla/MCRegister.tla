----------------------------- MODULE MCRegister -----------------------------
(* Instances of Register for TLC.                                          *)
EXTENDS Register

Trying    == {100}
Answers   == {200, 401, 403}
(* A keep-alive without any header, and a request of the trunk.            *)
KeepAlive == {[cseq |-> None, status |-> None], [cseq |-> 63, status |-> None]}
=============================================================================
