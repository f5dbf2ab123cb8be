----------------------------- MODULE MCSlSocket -----------------------------
(* Instances of SlSocket for TLC.                                          *)
EXTENDS SlSocket

GoodAndBad   == {"number", "letters", "empty"}
SecondIsLine == {<<"hi", 2>>}
=============================================================================
