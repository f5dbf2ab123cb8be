-------------------------------- MODULE Mulaw --------------------------------
(***************************************************************************)
(* src/src/codec.rs: G.711 mu-law and signed 16-bit linear audio.  Bits    *)
(* are taken apart with \div and %, a complement is 255 - x, and the `|'   *)
(* of bits that do not overlap is a sum.                                   *)
(***************************************************************************)
EXTENDS Integers, Sequences

Bias == 132         \* BIAS
Clip == 32635       \* CLIP

Slin == -32768 .. 32767
Byte == 0 .. 255

(* Mutation of ExpLut: a table with one entry too many in its first rows.  *)
ExpLutShifted(i) == IF i < 3 THEN 0 ELSE
    CHOOSE e \in 1 .. 7 : 2^e <= i /\ i < 2^(e + 1)

(* EXP_LUT: two zeros, then 2^e entries of each e.                         *)
ExpLut(i) == IF i < 2 THEN 0 ELSE
    CHOOSE e \in 1 .. 7 : 2^e <= i /\ i < 2^(e + 1)

(* Mutation of Magnitude: abs() in 16 bits, where -32768 has none.         *)
MagnitudeWrapped(sample) ==
    LET m == IF sample = -32768 THEN sample ELSE IF sample < 0 THEN -sample ELSE sample
    IN  (IF m > Clip THEN Clip ELSE m) + Bias

(* Sign, clip, bias.                                                       *)
Magnitude(sample) ==
    LET m == IF sample < 0 THEN -sample ELSE sample
    IN  (IF m > Clip THEN Clip ELSE m) + Bias

slin_sample_to_ulaw(sample) ==
    LET sign     == IF sample < 0 THEN 128 ELSE 0
        exponent == ExpLut((Magnitude(sample) \div 128) % 256)
        mantissa == (Magnitude(sample) \div 2^(exponent + 3)) % 16
    IN  255 - (sign + exponent * 16 + mantissa)

(* Mutation of ulaw_sample_to_slin: the bias is not taken away again.      *)
ulaw_sample_to_slin_biased(code) ==
    LET u        == 255 - code
        exponent == (u % 128) \div 16
        sample   == ((u % 16) * 8 + Bias) * 2^exponent
    IN  IF u >= 128 THEN -sample ELSE sample

ulaw_sample_to_slin(code) ==
    LET u        == 255 - code
        exponent == (u % 128) \div 16
        sample   == ((u % 16) * 8 + Bias) * 2^exponent - Bias
    IN  IF u >= 128 THEN -sample ELSE sample

(* from_le_bytes and to_le_bytes of an i16.                                *)
FromLe(lo, hi) == IF hi < 128 THEN lo + 256 * hi ELSE lo + 256 * hi - 65536
ToLe(sample)   == LET u == IF sample < 0 THEN sample + 65536 ELSE sample
                  IN  <<u % 256, u \div 256>>

encode_ulaw(slin) ==
    [i \in 1 .. Len(slin) \div 2 |->
        slin_sample_to_ulaw(FromLe(slin[2 * i - 1], slin[2 * i]))]

decode_ulaw(ulaw) ==
    [i \in 1 .. 2 * Len(ulaw) |->
        LET bytes == ToLe(ulaw_sample_to_slin(ulaw[(i + 1) \div 2]))
        IN  bytes[IF i % 2 = 1 THEN 1 ELSE 2]]
=============================================================================
