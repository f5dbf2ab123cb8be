----------------------------- MODULE DialString -----------------------------
(***************************************************************************)
(* DialString::parse of src/src/dial_string.rs.  A string is a sequence of *)
(* characters: the letters of tone and pulse dialling, a few that can be   *)
(* dialled, and one that stands for all the others.                        *)
(***************************************************************************)
EXTENDS Naturals, Sequences

TonePulse == {"T", "t", "P", "p"}
Allowed   == {"0", "9", "*", "#", "+", ",", "w", "W"}
Chars     == TonePulse \cup Allowed \cup {"other"}

Refused == <<"refused">>     \* an Err; no dialled string has this element

(* Mutation of Stripped: one letter is taken off.                          *)
StrippedOne(input) ==
    IF input # <<>> /\ Head(input) \in TonePulse THEN Tail(input) ELSE input

(* trim_start_matches takes off every letter there is at the start.        *)
Stripped(input) ==
    LET from == CHOOSE n \in 1 .. Len(input) + 1 :
                    /\ \A i \in 1 .. n - 1 : input[i] \in TonePulse
                    /\ n <= Len(input) => input[n] \notin TonePulse
    IN  SubSeq(input, from, Len(input))

parse(input) ==
    LET stripped == Stripped(input) IN
    IF /\ stripped # <<>>
       /\ \A i \in DOMAIN stripped : stripped[i] \in Allowed
    THEN stripped ELSE Refused
=============================================================================
