----------------------------- MODULE MCFormats ------------------------------
(* Instances of Formats for TLC.                                           *)
EXTENDS Formats

CONSTANTS a1, a2

TwoAddrs   == {a1, a2}
TwoPayloads == {<<7>>, <<0, 255>>}
UpToTwenty == 0 .. 20
FiveNumbers == {0, 1, 255, 256, MaxU16}
FiveTimes  == {0, 160, 255 * 160, MaxU16 * 160, 32767 * Word + 65408}
TwoRealms  == {"r1", "r2"}
TwoNonces  == {"n1", "n2"}
TwoMethods == {"REGISTER", "INVITE"}
FewCsrcs   == {0, 1, 15}
FewWords   == {0, 1, 256}
OnePort    == {20000}
TwoTypes   == {0, 8}
FewChars   == {"T", "p", "9", "w", "other"}
=============================================================================
