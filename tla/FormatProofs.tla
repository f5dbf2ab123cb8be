---------------------------- MODULE FormatProofs ----------------------------
(***************************************************************************)
(* Proofs about the pure functions of modules RtpPacket, SdpAnswer,        *)
(* DialString and Mulaw: lemmas for inputs of any length, and from them    *)
(* the properties of module Formats for any bounds.                        *)
(***************************************************************************)
EXTENDS Formats, SequenceTheorems, FiniteSetTheorems, RecursionLemmas, TLAPS

Byte == 0 .. 255

IsBytes(s, n) == s \in Seq(Byte) /\ Len(s) = n

Begins(c, a, m)  == \A i \in 1 .. m : c[i] = a[i]
Ends(c, b, m, n) == \A i \in 1 .. n : c[m + i] = b[i]

Joins(c, a, b, m, n) == IsBytes(c, m + n) /\ Begins(c, a, m) /\ Ends(c, b, m, n)

LEMMA Join ==
    ASSUME NEW a, NEW b, NEW m \in Nat, NEW n \in Nat,
           IsBytes(a, m), IsBytes(b, n)
    PROVE  Joins(a \o b, a, b, m, n)
  <1>1. a \in Seq(Byte) /\ b \in Seq(Byte) /\ Len(a) = m /\ Len(b) = n
    BY DEF IsBytes
  <1> DEFINE c == a \o b
  <1>2. /\ c \in Seq(Byte) /\ Len(c) = m + n
        /\ \A i \in 1 .. m + n : c[i] = IF i <= m THEN a[i] ELSE b[i - m]
    BY <1>1, ConcatProperties
  <1> HIDE DEF c
  <1>3. ASSUME NEW i \in 1 .. m PROVE c[i] = a[i]
    BY <1>2
  <1>4. ASSUME NEW i \in 1 .. n PROVE c[m + i] = b[i]
    <2>1. m + i \in 1 .. m + n /\ ~(m + i <= m) /\ (m + i) - m = i
      OBVIOUS
    <2> QED
      BY <1>2, <2>1
  <1> QED
    BY <1>2, <1>3, <1>4 DEF Joins, IsBytes, Begins, Ends, c

LEMMA SmallNats == 2 \in Nat /\ 4 \in Nat /\ 8 \in Nat /\ 12 \in Nat
  OBVIOUS

LEMMA Be16Bytes ==
    ASSUME NEW n \in Nat
    PROVE  /\ IsBytes(R!Be16(n), 2)
           /\ R!Be16(n)[1] = (n \div 256) % 256 /\ R!Be16(n)[2] = n % 256
  <1>1. (n \div 256) % 256 \in Byte /\ n % 256 \in Byte
    BY DEF Byte
  <1> QED
    BY <1>1 DEF R!Be16, IsBytes

LEMMA Be32Bytes ==
    ASSUME NEW n \in Nat
    PROVE  /\ IsBytes(R!Be32(n), 4)
           /\ R!Be32(n)[1] = (n \div 16777216) % 256
           /\ R!Be32(n)[2] = (n \div 65536) % 256
           /\ R!Be32(n)[3] = (n \div 256) % 256 /\ R!Be32(n)[4] = n % 256
  <1> DEFINE high == <<(n \div 16777216) % 256, (n \div 65536) % 256>>
             low  == R!Be16(n)
             w    == high \o low
  <1>1. (n \div 16777216) % 256 \in Byte /\ (n \div 65536) % 256 \in Byte
    <2>1. n \div 16777216 \in Nat /\ n \div 65536 \in Nat
      OBVIOUS
    <2>2. \A m \in Nat : m % 256 \in Byte
      BY DEF Byte
    <2> QED
      BY <2>1, <2>2
  <1>7. IsBytes(high, 2)
    BY <1>1 DEF IsBytes
  <1>2. /\ high[1] = (n \div 16777216) % 256
        /\ high[2] = (n \div 65536) % 256
    OBVIOUS
  <1>3. R!Be32(n) = w
    BY DEF R!Be32
  <1>4. IsBytes(low, 2) /\ low[1] = (n \div 256) % 256 /\ low[2] = n % 256
    BY Be16Bytes
  <1> HIDE DEF high, low
  <1>5. Joins(w, high, low, 2, 2)
    BY <1>7, <1>4, SmallNats, Join, Zenon
  <1> HIDE DEF w
  <1>6. /\ IsBytes(w, 4) /\ w[1] = high[1] /\ w[2] = high[2]
        /\ w[3] = low[1] /\ w[4] = low[2]
    BY <1>5 DEF Joins, Begins, Ends
  <1> QED
    BY <1>2, <1>3, <1>4, <1>6

(* The header in front of the payload: twelve bytes, the first 0x80, then  *)
(* the sequence number and the timestamp in network order.                 *)
Header(seq, timestamp, ssrc) ==
    <<128, 0>> \o R!Be16(seq) \o R!Be32(timestamp) \o R!Be32(ssrc)

IsHeader(h, seq, timestamp) ==
    /\ IsBytes(h, 12) /\ h[1] = 128
    /\ h[3] = R!Be16(seq)[1] /\ h[4] = R!Be16(seq)[2]
    /\ \A i \in 1 .. 4 : h[4 + i] = R!Be32(timestamp)[i]

LEMMA HeaderBytes ==
    ASSUME NEW seq \in Nat, NEW timestamp \in Nat, NEW ssrc \in Nat
    PROVE  IsHeader(Header(seq, timestamp, ssrc), seq, timestamp)
  <1> DEFINE h1 == <<128, 0>>
             s  == R!Be16(seq)
             t  == R!Be32(timestamp)
             r  == R!Be32(ssrc)
             h2 == h1 \o s
             h3 == h2 \o t
             h4 == h3 \o r
  <1>1. IsBytes(h1, 2)
    BY DEF Byte, IsBytes
  <1>2. h1[1] = 128
    OBVIOUS
  <1>3. IsBytes(s, 2) /\ IsBytes(t, 4) /\ IsBytes(r, 4)
    BY Be16Bytes, Be32Bytes
  <1> HIDE DEF h1, s, t, r
  <1>4. Joins(h2, h1, s, 2, 2)
    BY <1>1, <1>3, SmallNats, Join, Zenon
  <1> HIDE DEF h2
  <1>5. IsBytes(h2, 4)
    BY <1>4 DEF Joins
  <1>6. h2[1] = 128 /\ h2[3] = s[1] /\ h2[4] = s[2]
    BY <1>2, <1>4 DEF Joins, Begins, Ends
  <1>7. Joins(h3, h2, t, 4, 4)
    BY <1>3, <1>5, SmallNats, Join, Zenon
  <1> HIDE DEF h3
  <1>8. IsBytes(h3, 8)
    BY <1>7 DEF Joins
  <1>9. /\ h3[1] = 128 /\ h3[3] = s[1] /\ h3[4] = s[2]
        /\ \A i \in 1 .. 4 : h3[4 + i] = t[i]
    BY <1>6, <1>7 DEF Joins, Begins, Ends
  <1>10. Joins(h4, h3, r, 8, 4)
    BY <1>3, <1>8, SmallNats, Join, Zenon
  <1> HIDE DEF h4
  <1>11. /\ IsBytes(h4, 12) /\ h4[1] = 128 /\ h4[3] = s[1] /\ h4[4] = s[2]
        /\ \A i \in 1 .. 4 : h4[4 + i] = t[i]
    <2>1. \A i \in 1 .. 4 : 4 + i \in 1 .. 8
      OBVIOUS
    <2> QED
      BY <1>9, <1>10, <2>1 DEF Joins, Begins
  <1>12. Header(seq, timestamp, ssrc) = h4
    BY Zenon DEF Header, h1, h2, h3, h4, s, t, r
  <1>13. IsHeader(h4, seq, timestamp)
    BY <1>11 DEF IsHeader, s, t
  <1> QED
    BY <1>12, <1>13, Zenon

(* What RtpSender sends, any receiver with this parser takes apart: the    *)
(* payload comes back whole, whatever its length and whatever the numbers. *)
THEOREM SentParses ==
    ASSUME NEW seq \in Nat, NEW timestamp \in Nat, NEW ssrc \in Nat,
           NEW payload \in Seq(Byte), R!MaySend(payload)
    PROVE  R!parse_packet(R!build_packet(seq, timestamp, ssrc, payload)) = payload
  <1> DEFINE h == Header(seq, timestamp, ssrc)
             p == h \o payload
  <1>1. IsBytes(h, 12) /\ h[1] = 128
    <2>1. IsHeader(h, seq, timestamp)
      BY HeaderBytes, Zenon
    <2> QED
      BY <2>1, Zenon DEF IsHeader
  <1>2. R!build_packet(seq, timestamp, ssrc, payload) = p
    BY Zenon DEF R!build_packet, Header
  <1> HIDE DEF h
  <1>3. payload # <<>> /\ Len(payload) \in Nat /\ Len(payload) # 0
    BY LenProperties, EmptySeq DEF R!MaySend
  <1>4. /\ p \in Seq(Byte) /\ Len(p) = 12 + Len(payload) /\ p[1] = 128
        /\ \A i \in 1 .. Len(payload) : p[12 + i] = payload[i]
    <2>1. IsBytes(payload, Len(payload))
      BY DEF IsBytes
    <2>2. 12 \in Nat /\ 1 \in 1 .. 12 /\ Len(payload) \in Nat
      BY <1>3
    <2> HIDE DEF p
    <2>3. p = h \o payload
      BY Zenon DEF p
    <2>4. Joins(h \o payload, h, payload, 12, Len(payload))
      BY <1>1, <2>1, <2>2, Join, Zenon
    <2> QED
      BY <1>1, <2>2, <2>3, <2>4 DEF Joins, IsBytes, Begins, Ends
  <1> HIDE DEF p
  <1>5. R!Version(p) = 2 /\ R!CsrcCount(p) = 0 /\ ~R!HasExtension(p)
    BY <1>4 DEF R!Version, R!CsrcCount, R!HasExtension
  <1>6. R!HeaderLen(p) = 12 /\ R!Offset(p) = 12
    BY <1>5 DEF R!HeaderLen, R!Offset, R!RtpHeaderSize
  <1>7. R!HeaderComplete(p) /\ R!Offset(p) < Len(p)
    BY <1>3, <1>4, <1>5, <1>6
       DEF R!HeaderComplete, R!MinRtpPacketSize, R!RtpHeaderSize
  <1>8. R!parse_packet(p) = SubSeq(p, 13, Len(p))
    BY <1>6, <1>7 DEF R!parse_packet
  <1>9. SubSeq(p, 13, Len(p)) = payload
    <2>1. \A i \in 13 .. Len(p) : p[i] \in Byte
      BY <1>3, <1>4, ElementOfSeq
    <2>2. /\ SubSeq(p, 13, Len(p)) \in Seq(Byte)
          /\ Len(SubSeq(p, 13, Len(p))) = Len(payload)
          /\ \A i \in 1 .. Len(payload) : SubSeq(p, 13, Len(p))[i] = p[12 + i]
      BY <1>3, <1>4, <2>1, SubSeqProperties
    <2> QED
      BY <1>4, <2>2, SeqEqual
  <1> QED
    BY <1>2, <1>8, <1>9

(* What two bytes say, put together again.                                 *)
LEMMA TwoBytes ==
    ASSUME NEW n \in Nat
    PROVE  ((n \div 256) % 256) * 256 + (n % 256) = n % Word
  <1> DEFINE q == n \div Word
             r == n % Word
  <1>1. q \in Nat /\ r \in Nat /\ r < Word /\ n = Word * q + r
    BY SMT DEF Word
  <1> HIDE DEF q, r
  <1>2. n \div 256 = 256 * q + r \div 256 /\ r \div 256 < 256 /\ r \div 256 \in Nat
    BY <1>1, SMT DEF Word
  <1>3. (n \div 256) % 256 = r \div 256 /\ n % 256 = r % 256
    BY <1>1, <1>2, SMT DEF Word
  <1>4. r = (r \div 256) * 256 + (r % 256)
    BY <1>1, SMT
  <1> QED
    BY <1>3, <1>4, Zenon DEF r

(* The numbers of 16 and of 32 bits.                                       *)
U16 == {n \in Nat : n < Word}
U32 == {n \in Nat : n \div Word \in U16}

(* The receiver finds the numbers where RFC 3550 has them.                 *)
HasNumbers(p, seq, timestamp) ==
    /\ p[3] * 256 + p[4] = seq
    /\ p[5] * 256 + p[6] = timestamp \div Word
    /\ p[7] * 256 + p[8] = timestamp % Word

LEMMA NumbersInPlace ==
    ASSUME NEW seq \in U16, NEW timestamp \in U32,
           NEW ssrc \in Nat, NEW payload \in Seq(Byte)
    PROVE  HasNumbers(R!build_packet(seq, timestamp, ssrc, payload), seq, timestamp)
  <1> DEFINE p == R!build_packet(seq, timestamp, ssrc, payload)
             h == Header(seq, timestamp, ssrc)
             t == R!Be32(timestamp)
             s == R!Be16(seq)
  <1>1. seq \in Nat /\ timestamp \in Nat
    BY DEF U16, U32
  <1>2. /\ IsBytes(h, 12) /\ h[3] = s[1] /\ h[4] = s[2]
        /\ \A i \in 1 .. 4 : h[4 + i] = t[i]
    <2>1. IsHeader(h, seq, timestamp)
      BY <1>1, HeaderBytes, Zenon
    <2> HIDE DEF h
    <2> QED
      BY <2>1 DEF IsHeader
  <1>3. p = h \o payload
    BY Zenon DEF R!build_packet, Header
  <1>4. /\ t[1] = (timestamp \div 16777216) % 256
        /\ t[2] = (timestamp \div 65536) % 256
        /\ t[3] = (timestamp \div 256) % 256 /\ t[4] = timestamp % 256
        /\ s[1] = (seq \div 256) % 256 /\ s[2] = seq % 256
    BY <1>1, Be16Bytes, Be32Bytes
  <1> HIDE DEF p, h, t, s
  <1>5. Joins(p, h, payload, 12, Len(payload))
    <2>1. IsBytes(payload, Len(payload)) /\ Len(payload) \in Nat
      BY LenProperties DEF IsBytes
    <2> QED
      BY <1>2, <1>3, <2>1, SmallNats, Join, Zenon
  <1>6. /\ p[3] = s[1] /\ p[4] = s[2] /\ p[5] = t[1] /\ p[6] = t[2]
        /\ p[7] = t[3] /\ p[8] = t[4]
    BY <1>2, <1>5 DEF Joins, Begins
  <1>7. s[1] * 256 + s[2] = seq
    <2>1. seq % Word = seq
      BY SMT DEF U16, Word
    <2>2. ((seq \div 256) % 256) * 256 + (seq % 256) = seq % Word
      BY <1>1, TwoBytes, Zenon
    <2> QED
      BY <1>4, <2>1, <2>2, SMT
  <1>8. t[3] * 256 + t[4] = timestamp % Word
    <2>1. ((timestamp \div 256) % 256) * 256 + (timestamp % 256) = timestamp % Word
      BY <1>1, TwoBytes, Zenon
    <2> QED
      BY <1>4, <2>1, SMT
  <1>9. t[1] * 256 + t[2] = timestamp \div Word
    <2> DEFINE q == timestamp \div Word
    <2>1. q \in Nat /\ q % Word = q
      BY <1>1, SMT DEF U16, U32, Word
    <2>2. timestamp \div 16777216 = q \div 256 /\ timestamp \div 65536 = q
      BY <1>1, SMT DEF Word
    <2> HIDE DEF q
    <2>3. ((q \div 256) % 256) * 256 + (q % 256) = q
      BY <2>1, TwoBytes, Zenon
    <2>4. t[1] = (q \div 256) % 256 /\ t[2] = q % 256
      BY <1>4, <2>2, SMT
    <2> QED
      BY <2>3, <2>4, Zenon DEF q
  <1>10. HasNumbers(p, seq, timestamp)
    BY <1>6, <1>7, <1>8, <1>9 DEF HasNumbers
  <1> QED
    BY <1>10 DEF p
----------------------------------------------------------------------------
(* What parse_packet makes of a header as RFC 3550 has it, and of one that *)
(* was cut.                                                                *)
WellFormed(r) ==
    /\ r.version \in {1, 2} /\ r.csrcs \in 0 .. 15
    /\ r.words = NoExtension \/ r.words \in U16

Extended(r) == r.words # NoExtension

First(r) == r.version * 64 + (IF r.words = NoExtension THEN 0 ELSE 16) + r.csrcs

LEMMA FirstByte ==
    ASSUME NEW r, WellFormed(r), NEW data, data[1] = First(r)
    PROVE  /\ First(r) \in Byte /\ R!Version(data) = r.version
           /\ R!CsrcCount(data) = r.csrcs
           /\ R!HasExtension(data) <=> Extended(r)
  <1> DEFINE v == r.version
             c == r.csrcs
  <1>1. v \in {1, 2} /\ c \in 0 .. 15
    BY DEF WellFormed
  <1> HIDE DEF v, c
  <1>2. CASE Extended(r)
    <2>1. data[1] = v * 64 + 16 + c
      BY <1>2 DEF First, Extended, v, c
    <2> QED
      BY <1>1, <1>2, <2>1
         DEF R!Version, R!CsrcCount, R!HasExtension, Byte, v, c
  <1>3. CASE ~Extended(r)
    <2>1. data[1] = v * 64 + c
      BY <1>1, <1>3 DEF First, Extended, v, c
    <2> QED
      BY <1>1, <1>3, <2>1
         DEF R!Version, R!CsrcCount, R!HasExtension, Byte, v, c
  <1> QED
    BY <1>2, <1>3

LEMMA FillBytes ==
    ASSUME NEW n \in Nat
    PROVE  IsBytes(Fill(n), n)
  <1>1. \A i \in 1 .. n : 85 \in Byte
    BY DEF Byte
  <1>2. Fill(n) \in [1 .. n -> Byte]
    BY <1>1 DEF Fill
  <1> QED
    BY <1>2, SeqDef, LenProperties DEF IsBytes

(* The extension, with its own header of four bytes.                       *)
Ext(r) == IF r.words = NoExtension THEN <<>>
          ELSE <<190, 222, r.words \div 256, r.words % 256>> \o Fill(4 * r.words)

ExtLen(r) == IF r.words = NoExtension THEN 0 ELSE 4 + 4 * r.words

IsExt(e, r) ==
    /\ IsBytes(e, ExtLen(r)) /\ ExtLen(r) \in Nat
    /\ Extended(r) => e[3] = r.words \div 256 /\ e[4] = r.words % 256

LEMMA ExtBytes ==
    ASSUME NEW r, WellFormed(r)
    PROVE  IsExt(Ext(r), r)
  <1>1. CASE ~Extended(r)
    <2>1. IsBytes(<<>>, 0)
      BY DEF IsBytes
    <2> QED
      BY <1>1, <2>1 DEF IsExt, Ext, ExtLen, Extended
  <1>2. CASE Extended(r)
    <2> DEFINE w == r.words
               a == <<190, 222, w \div 256, w % 256>>
               b == Fill(4 * w)
               c == a \o b
    <2>1. w \in Nat /\ w < Word
      BY <1>2 DEF WellFormed, Extended, U16
    <2> HIDE DEF w
    <2>2. w \div 256 \in Byte /\ w % 256 \in Byte /\ 4 * w \in Nat
      BY <2>1, SMT DEF Word, Byte
    <2>3. IsBytes(a, 4)
      BY <2>2 DEF IsBytes, Byte
    <2>4. a[3] = w \div 256 /\ a[4] = w % 256
      OBVIOUS
    <2>5. IsBytes(b, 4 * w)
      BY <2>2, FillBytes
    <2> HIDE DEF a, b
    <2>6. Joins(c, a, b, 4, 4 * w)
      BY <2>2, <2>3, <2>5, SmallNats, Join, Zenon
    <2> HIDE DEF c
    <2>7. IsBytes(c, 4 + 4 * w) /\ c[3] = w \div 256 /\ c[4] = w % 256
      BY <2>4, <2>6 DEF Joins, Begins
    <2>8. Ext(r) = c /\ ExtLen(r) = 4 + 4 * w
      BY <1>2, Zenon DEF Ext, ExtLen, Extended, c, a, b, w
    <2>9. ExtLen(r) \in Nat
      BY <2>1, <2>8
    <2> QED
      BY <2>7, <2>8, <2>9 DEF IsExt, w
  <1> QED
    BY <1>1, <1>2

Before(r)    == 12 + 4 * r.csrcs              \* bytes before the extension
HeaderOf(r)  == Before(r) + ExtLen(r)         \* and in the whole header

IsRfcHeader(h, r) ==
    /\ IsBytes(h, HeaderOf(r)) /\ h[1] = First(r)
    /\ Extended(r) => /\ h[Before(r) + 3] = r.words \div 256
                      /\ h[Before(r) + 4] = r.words % 256

LEMMA RfcHeaderBytes ==
    ASSUME NEW r, WellFormed(r)
    PROVE  IsRfcHeader(RfcHeader(r), r)
  <1> DEFINE n == 4 * r.csrcs
             h1 == <<First(r)>>
             f  == Fill(11)
             h2 == h1 \o f
             g  == Fill(n)
             h3 == h2 \o g
             e  == Ext(r)
             h4 == h3 \o e
  <1>1. RfcHeader(r) = h4
    BY Zenon DEF RfcHeader, First, Ext
  <1>2. First(r) \in Byte
    <2> DEFINE d == [i \in {1} |-> First(r)]
    <2>1. d[1] = First(r)
      OBVIOUS
    <2> HIDE DEF d
    <2> QED
      BY <2>1, FirstByte
  <1>3. /\ n \in Nat /\ 1 \in Nat /\ 11 \in Nat /\ 12 \in Nat
        /\ 12 + n \in Nat /\ Before(r) = 12 + n
    BY DEF WellFormed, Before
  <1>4. IsBytes(h1, 1)
    BY <1>2 DEF IsBytes
  <1>5. h1[1] = First(r)
    OBVIOUS
  <1>6. IsBytes(f, 11) /\ IsBytes(g, n)
    BY <1>3, FillBytes, Zenon
  <1>7. IsExt(e, r)
    BY ExtBytes
  <1> HIDE DEF n, h1, f, g, e
  <1>8. Joins(h2, h1, f, 1, 11)
    BY <1>3, <1>4, <1>6, Join, Zenon
  <1> HIDE DEF h2
  <1>9. IsBytes(h2, 12) /\ h2[1] = First(r)
    BY <1>5, <1>8 DEF Joins, Begins
  <1>10. Joins(h3, h2, g, 12, n)
    BY <1>3, <1>6, <1>9, Join, Zenon
  <1> HIDE DEF h3
  <1>11. IsBytes(h3, 12 + n) /\ h3[1] = First(r)
    BY <1>9, <1>10 DEF Joins, Begins
  <1>12. IsBytes(e, ExtLen(r)) /\ ExtLen(r) \in Nat
    BY <1>7 DEF IsExt
  <1>13. Joins(h4, h3, e, 12 + n, ExtLen(r))
    BY <1>3, <1>11, <1>12, Join, Zenon
  <1> HIDE DEF h4
  <1>14. IsBytes(h4, HeaderOf(r)) /\ h4[1] = First(r)
    BY <1>3, <1>11, <1>13 DEF Joins, Begins, HeaderOf
  <1>15. ASSUME Extended(r)
         PROVE  /\ h4[Before(r) + 3] = r.words \div 256
                /\ h4[Before(r) + 4] = r.words % 256
    <2>1. ExtLen(r) >= 4
      <3>1. r.words \in Nat
        BY <1>15 DEF WellFormed, Extended, U16
      <3> QED
        BY <1>15, <3>1 DEF ExtLen, Extended
    <2>2. 3 \in 1 .. ExtLen(r) /\ 4 \in 1 .. ExtLen(r)
      BY <1>12, <2>1
    <2>3. h4[12 + n + 3] = e[3] /\ h4[12 + n + 4] = e[4]
      BY <1>13, <2>2 DEF Joins, Ends
    <2> QED
      BY <1>3, <1>7, <1>15, <2>3 DEF IsExt
  <1>16. IsRfcHeader(h4, r)
    BY <1>14, <1>15 DEF IsRfcHeader
  <1> QED
    BY <1>1, <1>16, Zenon

(* What the network leaves of a packet.                                    *)
IsCut(q, a, b, m, l) ==
    /\ IsBytes(q, l)
    /\ \A i \in 1 .. l : q[i] = IF i <= m THEN a[i] ELSE b[i - m]

LEMMA CutBytes ==
    ASSUME NEW a, NEW b, NEW m \in Nat, NEW n \in Nat,
           IsBytes(a, m), IsBytes(b, n), NEW l \in 0 .. m + n
    PROVE  IsCut(SubSeq(a \o b, 1, l), a, b, m, l)
  <1> DEFINE c == a \o b
             q == SubSeq(c, 1, l)
  <1>1. Joins(c, a, b, m, n)
    BY Join
  <1> HIDE DEF c
  <1>2. /\ c \in Seq(Byte) /\ Len(c) = m + n
        /\ \A i \in 1 .. m : c[i] = a[i]
        /\ \A i \in 1 .. n : c[m + i] = b[i]
    BY <1>1 DEF Joins, IsBytes, Begins, Ends
  <1>3. \A i \in 1 .. l : c[i] \in Byte
    <2>1. \A i \in 1 .. l : i \in 1 .. Len(c)
      BY <1>2
    <2> QED
      BY <1>2, <2>1, ElementOfSeq
  <1>4. q \in Seq(Byte) /\ Len(q) = l /\ \A i \in 1 .. l : q[i] = c[i]
    <2>1. 1 \in 1 .. l + 1 /\ l \in 1 - 1 .. l /\ l - 1 + 1 = l
          /\ \A i \in 1 .. l : 1 + i - 1 = i
      OBVIOUS
    <2> QED
      BY <1>3, <2>1, SubSeqProperties
  <1> HIDE DEF q
  <1>5. ASSUME NEW i \in 1 .. l PROVE q[i] = IF i <= m THEN a[i] ELSE b[i - m]
    <2>1. CASE i <= m
      BY <1>2, <1>4, <2>1
    <2>2. CASE ~(i <= m)
      <3>1. i - m \in 1 .. n /\ m + (i - m) = i
        BY <2>2
      <3>2. c[i] = b[i - m]
        BY <1>2, <3>1
      <3> QED
        BY <1>4, <2>2, <3>2
    <2> QED
      BY <2>1, <2>2
  <1>6. IsCut(q, a, b, m, l)
    BY <1>4, <1>5 DEF IsCut, IsBytes
  <1> QED
    BY <1>6 DEF q, c

(* The parser finds the end of the header, and asks for no byte that is    *)
(* not there.                                                              *)
LEMMA HeaderFound ==
    ASSUME NEW r, WellFormed(r), NEW h, IsRfcHeader(h, r), NEW b,
           NEW l \in Nat, l >= 13, NEW q, IsCut(q, h, b, HeaderOf(r), l)
    PROVE  /\ R!HeaderComplete(q) => r.version = 2 /\ R!Offset(q) = HeaderOf(r)
           /\ r.version = 2 /\ l > HeaderOf(r) => R!HeaderComplete(q)
  <1> DEFINE H == HeaderOf(r)
             B == Before(r)
  <1>1. /\ Len(q) = l /\ \A i \in 1 .. l : i <= H => q[i] = h[i]
    BY DEF IsCut, IsBytes
  <1>2. /\ B \in Nat /\ B >= 12 /\ H \in Nat /\ H >= 12
        /\ Extended(r) => r.words \in Nat /\ H = B + 4 + 4 * r.words
        /\ ~Extended(r) => H = B
    BY DEF WellFormed, Before, HeaderOf, ExtLen, Extended, U16
  <1> HIDE DEF H
  <1>3. q[1] = First(r)
    BY <1>1, <1>2 DEF IsRfcHeader
  <1>4. /\ R!Version(q) = r.version /\ R!CsrcCount(q) = r.csrcs
        /\ R!HasExtension(q) <=> Extended(r)
    BY <1>3, FirstByte, Zenon
  <1>5. R!HeaderLen(q) = B
    <2>1. r.csrcs \in Nat
      BY DEF WellFormed
    <2> QED
      BY <1>4, <2>1 DEF R!HeaderLen, R!RtpHeaderSize, Before
  <1> HIDE DEF B
  <1>6. ASSUME Extended(r), l >= B + 4 PROVE R!Offset(q) = H
    <2> DEFINE w == r.words
    <2>1. w \in Nat /\ H = B + 4 + 4 * w
      BY <1>2, <1>6
    <2>2. h[B + 3] = w \div 256 /\ h[B + 4] = w % 256
      BY <1>6, Zenon DEF IsRfcHeader, B
    <2> HIDE DEF w
    <2>3. q[B + 3] = w \div 256 /\ q[B + 4] = w % 256
      BY <1>1, <1>2, <1>6, <2>1, <2>2
    <2>4. w = (w \div 256) * 256 + (w % 256)
      BY <2>1
    <2>5. q[B + 3] * 256 + q[B + 4] = w
      BY <2>3, <2>4
    <2>6. R!ExtensionLen(q) = 4 + w * 4
      BY <1>5, <2>5, Zenon DEF R!ExtensionLen
    <2>7. R!Offset(q) = B + (4 + w * 4)
      BY <1>4, <1>5, <1>6, <2>6, Zenon DEF R!Offset
    <2> QED
      BY <1>2, <2>1, <2>7
  <1>7. ASSUME ~Extended(r) PROVE R!Offset(q) = H
    BY <1>2, <1>4, <1>5, <1>7 DEF R!Offset
  <1>8. R!HeaderComplete(q) <=> /\ r.version = 2 /\ l >= B
                                /\ Extended(r) => l >= B + 4
    BY <1>1, <1>4, <1>5
       DEF R!HeaderComplete, R!MinRtpPacketSize, R!RtpHeaderSize
  <1>9. R!HeaderComplete(q) => r.version = 2 /\ R!Offset(q) = H
    BY <1>6, <1>7, <1>8
  <1>10. r.version = 2 /\ l > H => R!HeaderComplete(q)
    BY <1>2, <1>8
  <1> QED
    BY <1>9, <1>10 DEF H

(* Whatever the header, a packet or what is left of it yields what is left *)
(* of the payload.                                                         *)
LEMMA CutParses ==
    ASSUME NEW r, WellFormed(r), NEW h, IsRfcHeader(h, r),
           NEW b, NEW n \in Nat, IsBytes(b, n),
           NEW l \in 0 .. HeaderOf(r) + n, NEW q, IsCut(q, h, b, HeaderOf(r), l)
    PROVE  R!parse_packet(q) = IF r.version = 2 /\ l > HeaderOf(r)
                               THEN SubSeq(b, 1, l - HeaderOf(r)) ELSE R!NoPayload
  <1> DEFINE H == HeaderOf(r)
  <1>1. H \in Nat /\ H >= 12
    BY DEF WellFormed, Before, HeaderOf, ExtLen, U16
  <1>2. /\ q \in Seq(Byte) /\ Len(q) = l
        /\ \A i \in 1 .. l : q[i] = IF i <= H THEN h[i] ELSE b[i - H]
    BY DEF IsCut, IsBytes
  <1>3. b \in Seq(Byte) /\ Len(b) = n
    BY DEF IsBytes
  <1>4. l \in Nat /\ l <= H + n
    BY <1>1
  <1>5. CASE ~(l >= 13)
    <2>1. ~R!HeaderComplete(q) /\ ~(l > H)
      BY <1>1, <1>2, <1>4, <1>5
         DEF R!HeaderComplete, R!MinRtpPacketSize, R!RtpHeaderSize
    <2> QED
      BY <2>1, Zenon DEF R!parse_packet
  <1>6. CASE l >= 13
    <2>1. /\ R!HeaderComplete(q) => r.version = 2 /\ R!Offset(q) = H
          /\ r.version = 2 /\ l > H => R!HeaderComplete(q)
      BY <1>4, <1>6, HeaderFound, Zenon
    <2> HIDE DEF H
    <2>2. CASE ~(r.version = 2 /\ l > H)
      <3>1. ~(R!HeaderComplete(q) /\ R!Offset(q) < Len(q))
        BY <1>1, <1>2, <1>4, <2>1, <2>2
      <3>2. R!parse_packet(q) = R!NoPayload
        BY <3>1, Zenon DEF R!parse_packet
      <3> QED
        BY <2>2, <3>2 DEF H
    <2>3. CASE r.version = 2 /\ l > H
      <3>1. R!HeaderComplete(q) /\ R!Offset(q) < Len(q) /\ R!Offset(q) = H
        BY <1>1, <1>2, <1>4, <2>1, <2>3
      <3>2. R!parse_packet(q) = SubSeq(q, H + 1, l)
        BY <1>2, <3>1, Zenon DEF R!parse_packet
      <3>3. SubSeq(q, H + 1, l) = SubSeq(b, 1, l - H)
        <4> DEFINE x == SubSeq(q, H + 1, l)
                   y == SubSeq(b, 1, l - H)
        <4>1. /\ H + 1 \in 1 .. l + 1 /\ l \in H .. l /\ l - H \in 0 .. n
              /\ \A i \in H + 1 .. l : i \in 1 .. Len(q)
              /\ \A i \in 1 .. l - H : i \in 1 .. Len(b)
          BY <1>1, <1>2, <1>3, <1>4, <2>3
        <4>2. \A i \in H + 1 .. l : q[i] \in Byte
          BY <1>2, <4>1, ElementOfSeq
        <4>3. \A i \in 1 .. l - H : b[i] \in Byte
          BY <1>3, <4>1, ElementOfSeq
        <4>4. /\ x \in Seq(Byte) /\ Len(x) = l - H
              /\ \A i \in 1 .. l - H : x[i] = q[H + i]
          <5>1. l - (H + 1) + 1 = l - H /\ \A i \in 1 .. l - H : H + 1 + i - 1 = H + i
            BY <1>1, <1>4
          <5> QED
            BY <1>1, <1>4, <4>1, <4>2, <5>1, SubSeqProperties
        <4>5. /\ y \in Seq(Byte) /\ Len(y) = l - H
              /\ \A i \in 1 .. l - H : y[i] = b[i]
          <5>1. l - H - 1 + 1 = l - H /\ \A i \in 1 .. l - H : 1 + i - 1 = i
                /\ 1 \in 1 .. (l - H) + 1 /\ l - H \in 1 - 1 .. l - H
            BY <1>1, <1>4, <4>1
          <5> QED
            BY <4>1, <4>3, <5>1, SubSeqProperties
        <4> HIDE DEF x, y
        <4>6. \A i \in 1 .. l - H : q[H + i] = b[i]
          <5>1. ASSUME NEW i \in 1 .. l - H PROVE q[H + i] = b[i]
            <6>1. H + i \in 1 .. l /\ ~(H + i <= H) /\ (H + i) - H = i
              BY <1>1, <1>4
            <6> QED
              BY <1>2, <6>1
          <5> QED
            BY <5>1
        <4>7. x = y
          BY <4>4, <4>5, <4>6, SeqEqual
        <4> QED
          BY <4>7 DEF x, y
      <3> QED
        BY <2>3, <3>2, <3>3 DEF H
    <2> QED
      BY <2>2, <2>3
  <1> QED
    BY <1>5, <1>6
----------------------------------------------------------------------------
(* DialString::parse.                                                      *)

(* Where the number starts, after all the letters.                         *)
StartsAt(chars, n) ==
    /\ \A i \in 1 .. n - 1 : chars[i] \in D!TonePulse
    /\ n <= Len(chars) => chars[n] \notin D!TonePulse

LEMMA StartExists ==
    ASSUME NEW chars \in Seq(D!Chars)
    PROVE  \E n \in 1 .. Len(chars) + 1 : StartsAt(chars, n)
  <1> DEFINE l == Len(chars)
             T == {n \in 1 .. l + 1 : n <= l => chars[n] \notin D!TonePulse}
  <1>1. l \in Nat
    BY LenProperties
  <1> HIDE DEF l
  <1>2. T \subseteq Nat /\ l + 1 \in T
    BY <1>1
  <1>3. PICK n \in T : \A y \in T : n <= y
    BY <1>2, Least, Zenon
  <1>4. ASSUME NEW i \in 1 .. n - 1 PROVE chars[i] \in D!TonePulse
    <2>1. i \in 1 .. l + 1 /\ i < n /\ i <= l
      BY <1>1, <1>3
    <2>2. i \notin T
      BY <1>1, <1>2, <1>3, <2>1
    <2> QED
      BY <2>1, <2>2
  <1>5. n \in 1 .. l + 1 /\ StartsAt(chars, n)
    BY <1>3, <1>4 DEF StartsAt, l
  <1> QED
    BY <1>5 DEF l

(* What parse accepts is the end of what was dialled, never empty, without *)
(* a character that cannot be dialled, and before it were only letters of  *)
(* tone and pulse dialling: nothing of the number itself is ever taken off.*)
THEOREM DialAccepted ==
    ASSUME NEW chars \in Seq(D!Chars), D!parse(chars) # D!Refused
    PROVE  \E n \in 1 .. Len(chars) :
              /\ D!parse(chars) = SubSeq(chars, n, Len(chars))
              /\ \A i \in 1 .. n - 1 : chars[i] \in D!TonePulse
              /\ \A i \in n .. Len(chars) : chars[i] \in D!Allowed
  <1> DEFINE n == CHOOSE k \in 1 .. Len(chars) + 1 : StartsAt(chars, k)
             s == SubSeq(chars, n, Len(chars))
  <1>1. n \in 1 .. Len(chars) + 1 /\ StartsAt(chars, n)
    BY StartExists
  <1>2. D!Stripped(chars) = s
    BY Zenon DEF D!Stripped, StartsAt
  <1> HIDE DEF n
  <1>3. Len(chars) \in Nat
    BY LenProperties
  <1>4. s \in Seq(D!Chars) /\ Len(s) = Len(chars) - n + 1
        /\ \A i \in 1 .. Len(chars) - n + 1 : s[i] = chars[n + i - 1]
    <2>1. \A i \in n .. Len(chars) : chars[i] \in D!Chars
      BY <1>1, <1>3, ElementOfSeq
    <2> QED
      BY <1>1, <1>3, <2>1, SubSeqProperties
  <1> HIDE DEF s
  <1>5. /\ D!parse(chars) = s /\ s # <<>>
        /\ \A i \in DOMAIN s : s[i] \in D!Allowed
    BY <1>2, Zenon DEF D!parse
  <1>6. n \in 1 .. Len(chars)
    <2>1. Len(s) # 0
      BY <1>4, <1>5, EmptySeq
    <2> QED
      BY <1>1, <1>3, <1>4, <2>1
  <1>7. ASSUME NEW i \in n .. Len(chars) PROVE chars[i] \in D!Allowed
    <2>1. i - n + 1 \in 1 .. Len(chars) - n + 1 /\ n + (i - n + 1) - 1 = i
      BY <1>3, <1>6
    <2>2. DOMAIN s = 1 .. Len(s)
      BY <1>4, LenProperties
    <2>3. s[i - n + 1] = chars[i] /\ i - n + 1 \in DOMAIN s
      BY <1>4, <2>1, <2>2
    <2> QED
      BY <1>5, <2>3
  <1> QED
    BY <1>1, <1>5, <1>6, <1>7 DEF StartsAt, s

(* The same from the other side: letters and then what can be dialled is   *)
(* never refused, and only the letters go.                                 *)
Splits(chars) ==
    {n \in 0 .. Len(chars) - 1 :
        /\ \A i \in 1 .. n : chars[i] \in D!TonePulse
        /\ \A i \in n + 1 .. Len(chars) : chars[i] \in D!Allowed}

LEMMA SplitParses ==
    ASSUME NEW chars \in Seq(D!Chars), NEW n \in Splits(chars)
    PROVE  D!parse(chars) = SubSeq(chars, n + 1, Len(chars))
  <1> DEFINE l == Len(chars)
             from == CHOOSE k \in 1 .. l + 1 : StartsAt(chars, k)
             s == SubSeq(chars, from, l)
  <1>1. l \in Nat /\ n \in 0 .. l - 1
    BY LenProperties DEF Splits
  <1>2. /\ \A i \in 1 .. n : chars[i] \in D!TonePulse
        /\ \A i \in n + 1 .. l : chars[i] \in D!Allowed
    BY DEF Splits
  <1>3. \A x \in D!Allowed : x \notin D!TonePulse
    BY DEF D!Allowed, D!TonePulse
  <1>4. from \in 1 .. l + 1 /\ StartsAt(chars, from)
    BY StartExists
  <1>5. D!Stripped(chars) = s
    BY Zenon DEF D!Stripped, StartsAt
  <1> HIDE DEF from
  <1>6. from = n + 1
    <2>1. CASE from < n + 1
      <3>1. from \in 1 .. n /\ from <= l
        BY <1>1, <1>4, <2>1
      <3> QED
        BY <1>2, <1>4, <3>1 DEF StartsAt
    <2>2. CASE from > n + 1
      <3>1. n + 1 \in 1 .. from - 1 /\ n + 1 \in n + 1 .. l
        BY <1>1, <1>4, <2>2
      <3> QED
        BY <1>2, <1>3, <1>4, <3>1 DEF StartsAt
    <2> QED
      BY <1>1, <1>4, <2>1, <2>2
  <1>7. /\ s \in Seq(D!Chars) /\ Len(s) = l - n
        /\ \A i \in 1 .. l - n : s[i] = chars[n + i]
    <2>1. \A i \in n + 1 .. l : chars[i] \in D!Chars
      BY <1>1, ElementOfSeq
    <2>2. n + 1 \in 1 .. l + 1 /\ l \in n .. l
      BY <1>1
    <2> QED
      BY <1>1, <1>6, <2>1, <2>2, SubSeqProperties
  <1> HIDE DEF s, l
  <1>8. s # <<>>
    BY <1>1, <1>7
  <1>9. ASSUME NEW i \in DOMAIN s PROVE s[i] \in D!Allowed
    <2>1. i \in 1 .. l - n
      BY <1>1, <1>7, LenProperties
    <2>2. n + i \in n + 1 .. l
      BY <1>1, <2>1
    <2> QED
      BY <1>2, <1>7, <2>1, <2>2
  <1>10. D!parse(chars) = s
    BY <1>5, <1>8, <1>9, Zenon DEF D!parse
  <1> QED
    BY <1>6, <1>10 DEF s, l

LEMMA NoSplitRefused ==
    ASSUME NEW chars \in Seq(D!Chars), Splits(chars) = {}
    PROVE  D!parse(chars) = D!Refused
  <1> SUFFICES ASSUME D!parse(chars) # D!Refused PROVE FALSE
    OBVIOUS
  <1>1. Len(chars) \in Nat
    BY LenProperties
  <1>2. PICK n \in 1 .. Len(chars) :
            /\ \A i \in 1 .. n - 1 : chars[i] \in D!TonePulse
            /\ \A i \in n .. Len(chars) : chars[i] \in D!Allowed
    BY DialAccepted
  <1>3. n - 1 \in 0 .. Len(chars) - 1 /\ (n - 1) + 1 = n
    BY <1>1
  <1>4. n - 1 \in Splits(chars)
    BY <1>2, <1>3 DEF Splits
  <1> QED
    BY <1>4
----------------------------------------------------------------------------
(* parse_answer: what is found after each line.                            *)
Found == [addr : Addrs \cup {Sdp!NoAddr}, port : Ports \cup {Sdp!NoPort},
          refused : BOOLEAN]

LEMMA LineKinds ==
    \A line \in Sdp!Lines :
        \/ line.kind = "c" /\ line.addr \in Addrs \cup {Sdp!NoAddr}
        \/ line.kind = "audio" /\ line.port \in Ports \cup {Sdp!NoPort}
        \/ line.kind = "media"
  BY DEF Sdp!Lines, Sdp!Connection, Sdp!Audio, Sdp!OtherMedia

(* The three kinds of line, in an answer.                                  *)
LEMMA ReadsConnection ==
    ASSUME NEW found \in Found, ~found.refused,
           NEW line, line.kind = "c", line.addr # Sdp!NoAddr
    PROVE  /\ Sdp!Reads(found, line).addr = line.addr
           /\ Sdp!Reads(found, line).port = found.port
           /\ Sdp!Reads(found, line).refused = found.refused
  BY DEF Found, Sdp!Reads

LEMMA ReadsAudio ==
    ASSUME NEW found \in Found, ~found.refused,
           NEW line, line.kind = "audio", line.port # Sdp!NoPort, 0 \in line.types
    PROVE  /\ Sdp!Reads(found, line).addr = found.addr
           /\ Sdp!Reads(found, line).port = line.port
           /\ Sdp!Reads(found, line).refused = found.refused
  BY DEF Found, Sdp!Reads

LEMMA ReadsOther ==
    ASSUME NEW found, NEW line, line.kind = "media"
    PROVE  Sdp!Reads(found, line) = found
  BY DEF Sdp!Reads

LEMMA ReadsTyped ==
    ASSUME NEW found \in Found, NEW line \in Sdp!Lines
    PROVE  Sdp!Reads(found, line) \in Found
  <1>1. CASE line.kind = "c" /\ line.addr \in Addrs \cup {Sdp!NoAddr}
    BY <1>1 DEF Sdp!Reads, Found
  <1>2. CASE line.kind = "audio" /\ line.port \in Ports \cup {Sdp!NoPort}
    BY <1>2 DEF Sdp!Reads, Found
  <1>3. CASE line.kind = "media"
    BY <1>3, ReadsOther
  <1> QED
    BY <1>1, <1>2, <1>3, LineKinds

(* The loop over the lines.                                                *)
IsParse(f, body) ==
    f = [k \in 0 .. Len(body) |->
            IF k = 0 THEN Sdp!Nothing ELSE Sdp!Reads(f[k - 1], body[k])]

LEMMA ParseExists ==
    ASSUME NEW body \in Seq(Sdp!Lines)
    PROVE  \E f \in [0 .. Len(body) -> Found] : IsParse(f, body)
  <1> DEFINE n == Len(body)
             T == [p \in Found \X (1 .. n) |-> Sdp!Reads(p[1], body[p[2]])]
  <1>1. n \in Nat /\ \A k \in 1 .. n : body[k] \in Sdp!Lines
    BY LenProperties, ElementOfSeq
  <1>2. Sdp!Nothing \in Found
    BY DEF Found, Sdp!Nothing
  <1> HIDE DEF n
  <1>3. \A x \in Found, k \in 1 .. n : T[<<x, k>>] = Sdp!Reads(x, body[k])
    OBVIOUS
  <1>4. T \in [Found \X (1 .. n) -> Found]
    BY <1>1, ReadsTyped
  <1> HIDE DEF T
  <1>5. PICK f \in [0 .. n -> Found] : IsRun(f, Sdp!Nothing, T, n)
    BY <1>1, <1>2, <1>4, RunExists
  <1>6. ASSUME NEW k \in 0 .. n
        PROVE  f[k] = IF k = 0 THEN Sdp!Nothing ELSE Sdp!Reads(f[k - 1], body[k])
    <2>1. f[k] = IF k = 0 THEN Sdp!Nothing ELSE T[<<f[k - 1], k>>]
      BY <1>5 DEF IsRun
    <2>2. k # 0 => k - 1 \in 0 .. n /\ k \in 1 .. n
      BY <1>1
    <2> QED
      BY <1>3, <2>1, <2>2
  <1>7. IsParse(f, body)
    BY <1>6 DEF IsParse, n
  <1> QED
    BY <1>7 DEF n

LEMMA ParseRuns ==
    ASSUME NEW body \in Seq(Sdp!Lines)
    PROVE  \E f : /\ f[0] = Sdp!Nothing
                  /\ \A k \in 1 .. Len(body) : f[k] = Sdp!Reads(f[k - 1], body[k])
                  /\ \A k \in 0 .. Len(body) : f[k] \in Found
                  /\ Sdp!parse_answer(body) = Sdp!Endpoint(f[Len(body)])
  <1> DEFINE f == CHOOSE g : IsParse(g, body)
             n == Len(body)
  <1>1. IsParse(f, body)
    BY ParseExists, Zenon
  <1>2. Sdp!parse_answer(body) = Sdp!Endpoint(f[n])
    BY Zenon DEF Sdp!parse_answer, IsParse
  <1>3. n \in Nat /\ \A k \in 1 .. n : body[k] \in Sdp!Lines
    BY LenProperties, ElementOfSeq
  <1> HIDE DEF f
  <1>4. \A k \in 0 .. n : f[k] = IF k = 0 THEN Sdp!Nothing
                                 ELSE Sdp!Reads(f[k - 1], body[k])
    BY <1>1, Zenon DEF IsParse
  <1> HIDE DEF n
  <1>5. 0 \in 0 .. n /\ \A k \in 1 .. n : k \in 0 .. n /\ k # 0
    BY <1>3
  <1>6. /\ f[0] = Sdp!Nothing
        /\ \A k \in 1 .. n : f[k] = Sdp!Reads(f[k - 1], body[k])
    BY <1>4, <1>5
  <1>7. \A k \in 0 .. n : f[k] \in Found
    <2>1. f[0] \in Found
      BY <1>6 DEF Found, Sdp!Nothing
    <2>2. \A k \in 1 .. n : f[k - 1] \in Found => f[k] \in Found
      BY <1>3, <1>6, ReadsTyped
    <2> QED
      BY <1>3, <2>1, <2>2, StaysIn
  <1> QED
    BY <1>2, <1>6, <1>7 DEF n

(* What has been found after k lines: the address of the last connection   *)
(* line so far, and the port once the audio line a is read.                *)
IsConnection(body, i) == body[i].kind = "c"

Last(body, j, k) ==
    IsConnection(body, j) /\ \A i \in j + 1 .. k : ~IsConnection(body, i)

FoundAfter(found, body, a, k) ==
    /\ ~found.refused
    /\ (\A i \in 1 .. k : ~IsConnection(body, i)) => found.addr = Sdp!NoAddr
    /\ \A j \in 1 .. k : Last(body, j, k) => found.addr = body[j].addr
    /\ found.port = IF a <= k THEN body[a].port ELSE Sdp!NoPort

(* A body with one audio line, a.                                          *)
OneAudio(body, a) ==
    /\ a \in 1 .. Len(body) /\ body[a].kind = "audio"
    /\ body[a].port # Sdp!NoPort /\ 0 \in body[a].types
    /\ \A i \in 1 .. Len(body) : body[i].kind = "audio" => i = a
    /\ \A i \in 1 .. Len(body) : IsConnection(body, i) => body[i].addr # Sdp!NoAddr

LEMMA OneMoreLine ==
    ASSUME NEW body \in Seq(Sdp!Lines), NEW a, OneAudio(body, a),
           NEW k \in 1 .. Len(body), NEW found \in Found,
           FoundAfter(found, body, a, k - 1)
    PROVE  FoundAfter(Sdp!Reads(found, body[k]), body, a, k)
  <1> DEFINE n == Len(body)
             line == body[k]
             next == Sdp!Reads(found, line)
  <1>1. n \in Nat /\ line \in Sdp!Lines
    BY LenProperties, ElementOfSeq
  <1>2. a \in 1 .. n /\ k \in 1 .. n
    BY DEF OneAudio
  <1>3. /\ ~found.refused
        /\ (\A i \in 1 .. k - 1 : ~IsConnection(body, i)) => found.addr = Sdp!NoAddr
        /\ \A j \in 1 .. k - 1 : Last(body, j, k - 1) => found.addr = body[j].addr
        /\ found.port = IF a <= k - 1 THEN body[a].port ELSE Sdp!NoPort
    BY Zenon DEF FoundAfter
  <1> HIDE DEF n, next
  <1>4. CASE line.kind = "c"
    <2>1. line.addr # Sdp!NoAddr /\ IsConnection(body, k) /\ k # a
      BY <1>4 DEF OneAudio, IsConnection
    <2>2. /\ next.addr = line.addr /\ next.port = found.port
          /\ next.refused = found.refused
      BY <1>3, <1>4, <2>1, ReadsConnection, Zenon DEF next
    <2>3. ASSUME NEW j \in 1 .. k, Last(body, j, k) PROVE j = k
      <3>1. CASE j # k
        <4>1. k \in j + 1 .. k
          BY <1>2, <2>3, <3>1
        <4> QED
          BY <2>1, <2>3, <4>1, Zenon DEF Last
      <3> QED
        BY <3>1
    <2>4. a <= k <=> a <= k - 1
      BY <1>1, <1>2, <2>1
    <2>5. ~(\A i \in 1 .. k : ~IsConnection(body, i))
      <3>1. k \in 1 .. k
        BY <1>2
      <3> QED
        BY <2>1, <3>1
    <2>6. \A j \in 1 .. k : Last(body, j, k) => next.addr = body[j].addr
      BY <2>2, <2>3, Zenon
    <2>7. next.port = IF a <= k THEN body[a].port ELSE Sdp!NoPort
      BY <1>3, <2>2, <2>4, Zenon
    <2> QED
      BY <1>3, <2>2, <2>5, <2>6, <2>7, Zenon DEF FoundAfter, next
  <1>5. CASE line.kind # "c"
    <2>1. ~IsConnection(body, k)
      BY <1>5 DEF IsConnection
    <2>2. (\A i \in 1 .. k : ~IsConnection(body, i)) =>
             \A i \in 1 .. k - 1 : ~IsConnection(body, i)
      BY <1>2
    <2>3. ASSUME NEW j \in 1 .. k, Last(body, j, k)
          PROVE  j \in 1 .. k - 1 /\ Last(body, j, k - 1)
      <3>1. j # k
        BY <2>1, <2>3, Zenon DEF Last
      <3>2. j \in 1 .. k - 1 /\ \A i \in j + 1 .. k - 1 : i \in j + 1 .. k
        BY <1>2, <3>1
      <3> QED
        BY <2>3, <3>2, Zenon DEF Last
    <2>4. /\ next.addr = found.addr /\ next.refused = found.refused
          /\ next.port = IF a <= k THEN body[a].port ELSE Sdp!NoPort
      <3>1. CASE line.kind = "audio"
        <4>1. k = a /\ line.port # Sdp!NoPort /\ 0 \in line.types
          BY <3>1 DEF OneAudio
        <4>2. /\ next.addr = found.addr /\ next.port = line.port
              /\ next.refused = found.refused
          BY <1>3, <3>1, <4>1, ReadsAudio, Zenon DEF next
        <4>3. a <= k
          BY <1>2, <4>1
        <4> QED
          BY <4>1, <4>2, <4>3
      <3>2. CASE line.kind = "media"
        <4>1. next = found
          BY <3>2, ReadsOther, Zenon DEF next
        <4>2. k # a
          BY <3>2 DEF OneAudio
        <4>3. a <= k <=> a <= k - 1
          BY <1>1, <1>2, <4>2
        <4> QED
          BY <1>3, <4>1, <4>3, Zenon
      <3> QED
        BY <1>1, <1>5, <3>1, <3>2, LineKinds
    <2>5. \A j \in 1 .. k : Last(body, j, k) => next.addr = body[j].addr
      BY <1>3, <2>3, <2>4, Zenon
    <2>6. (\A i \in 1 .. k : ~IsConnection(body, i)) => next.addr = Sdp!NoAddr
      BY <1>3, <2>2, <2>4, Zenon
    <2> QED
      BY <1>3, <2>4, <2>5, <2>6, Zenon DEF FoundAfter, next
  <1> QED
    BY <1>4, <1>5

(* What parse_answer makes of a body with one audio line.                  *)
LEMMA ParsesLast ==
    ASSUME NEW body \in Seq(Sdp!Lines), NEW a, OneAudio(body, a)
    PROVE  /\ (\A i \in 1 .. Len(body) : ~IsConnection(body, i)) =>
                 Sdp!parse_answer(body) = Sdp!Refused
           /\ \A j \in 1 .. Len(body) : Last(body, j, Len(body)) =>
                 Sdp!parse_answer(body) = [addr |-> body[j].addr, port |-> body[a].port]
  <1> DEFINE n == Len(body)
  <1>1. n \in Nat /\ a \in 1 .. n
    BY LenProperties DEF OneAudio
  <1>2. PICK f : /\ f[0] = Sdp!Nothing
                 /\ \A k \in 1 .. n : f[k] = Sdp!Reads(f[k - 1], body[k])
                 /\ \A k \in 0 .. n : f[k] \in Found
                 /\ Sdp!parse_answer(body) = Sdp!Endpoint(f[n])
    BY ParseRuns, Zenon
  <1> DEFINE S == {k \in 0 .. n : FoundAfter(f[k], body, a, k)}
  <1>3. 0 \in S
    <2>1. ~(a <= 0) /\ 1 .. 0 = {} /\ 0 \in 0 .. n
      BY <1>1
    <2>2. /\ ~f[0].refused /\ f[0].addr = Sdp!NoAddr /\ f[0].port = Sdp!NoPort
      BY <1>2 DEF Sdp!Nothing
    <2> QED
      BY <2>1, <2>2, Zenon DEF FoundAfter
  <1>4. ASSUME NEW k \in 1 .. n, k - 1 \in S PROVE k \in S
    <2>1. k \in 0 .. n /\ k - 1 \in 0 .. n
      BY <1>1
    <2>2. f[k - 1] \in Found /\ FoundAfter(f[k - 1], body, a, k - 1)
      BY <1>2, <1>4, <2>1
    <2>3. FoundAfter(Sdp!Reads(f[k - 1], body[k]), body, a, k)
      BY <2>2, OneMoreLine, Zenon
    <2>4. f[k] = Sdp!Reads(f[k - 1], body[k])
      BY <1>2
    <2> QED
      BY <2>1, <2>3, <2>4, Zenon
  <1> HIDE DEF S
  <1>5. n \in S
    <2>1. 0 .. n \subseteq S
      BY <1>1, <1>3, <1>4, BoundedInduction
    <2> QED
      BY <1>1, <2>1
  <1>6. FoundAfter(f[n], body, a, n)
    BY <1>5 DEF S
  <1> DEFINE x == f[n]
  <1>7. /\ ~x.refused
        /\ (\A i \in 1 .. n : ~IsConnection(body, i)) => x.addr = Sdp!NoAddr
        /\ \A j \in 1 .. n : Last(body, j, n) => x.addr = body[j].addr
        /\ x.port = body[a].port /\ x.port # Sdp!NoPort
    BY <1>1, <1>6 DEF FoundAfter, OneAudio
  <1>8. Sdp!parse_answer(body) = Sdp!Endpoint(x)
    BY <1>2
  <1> HIDE DEF x
  <1>9. x.addr = Sdp!NoAddr => Sdp!parse_answer(body) = Sdp!Refused
    BY <1>8, Zenon DEF Sdp!Endpoint
  <1>10. x.addr # Sdp!NoAddr =>
           Sdp!parse_answer(body) = [addr |-> x.addr, port |-> x.port]
    BY <1>7, <1>8, Zenon DEF Sdp!Endpoint
  <1>11. ASSUME NEW j \in 1 .. n, Last(body, j, n) PROVE body[j].addr # Sdp!NoAddr
    BY <1>11 DEF Last, OneAudio
  <1>12. ASSUME NEW j \in 1 .. n, Last(body, j, n)
         PROVE  Sdp!parse_answer(body) = [addr |-> body[j].addr, port |-> body[a].port]
    <2>1. x.addr = body[j].addr /\ x.addr # Sdp!NoAddr /\ x.port = body[a].port
      BY <1>7, <1>11, <1>12
    <2> QED
      BY <1>10, <2>1, Zenon
  <1>13. (\A i \in 1 .. n : ~IsConnection(body, i)) =>
            Sdp!parse_answer(body) = Sdp!Refused
    BY <1>7, <1>9, Zenon
  <1> QED
    BY <1>12, <1>13

(* Sections.  A set of lines has a last one.                               *)
LEMMA Greatest ==
    ASSUME NEW n \in Nat, NEW T, T \subseteq 1 .. n, T # {}
    PROVE  \E x \in T : \A y \in T : y <= x
  <1> DEFINE S == {k \in Nat : n - k \in T}
  <1>1. S \subseteq Nat /\ S # {}
    <2>1. PICK x \in T : TRUE
      OBVIOUS
    <2>2. n - x \in Nat /\ n - (n - x) = x
      BY <2>1
    <2> QED
      BY <2>1, <2>2
  <1>2. PICK k \in S : \A y \in S : k <= y
    <2> HIDE DEF S
    <2> QED
      BY <1>1, Least
  <1>3. ASSUME NEW y \in T PROVE y <= n - k
    <2>1. n - y \in Nat /\ n - (n - y) = y /\ y \in Nat
      OBVIOUS
    <2>2. n - y \in S
      BY <2>1
    <2>3. k <= n - y
      BY <1>2, <2>2
    <2> QED
      BY <1>2, <2>1, <2>3
  <1> QED
    BY <1>2, <1>3

MediaLines(body, i) == {j \in 1 .. i : body[j].kind # "c"}

LEMMA MediumIs ==
    ASSUME NEW body \in Seq(Sdp!Lines), NEW i \in 1 .. Len(body)
    PROVE  /\ MediaLines(body, i) = {} => Medium(body, i) = "session"
           /\ MediaLines(body, i) # {} => Medium(body, i) \in {"audio", "media"}
  <1> DEFINE ms == MediaLines(body, i)
             j  == CHOOSE x \in ms : \A k \in ms : k <= x
  <1>1. Medium(body, i) = IF ms = {} THEN "session" ELSE body[j].kind
    BY Zenon DEF Medium, MediaLines
  <1>2. ASSUME ms # {} PROVE body[j].kind \in {"audio", "media"}
    <2>1. i \in Nat /\ ms \subseteq 1 .. i
      BY LenProperties DEF MediaLines
    <2> HIDE DEF ms
    <2>2. \E x \in ms : \A k \in ms : k <= x
      BY <1>2, <2>1, Greatest, Zenon
    <2>3. j \in ms
      BY <2>2, Zenon
    <2> HIDE DEF j
    <2>4. j \in 1 .. Len(body) /\ body[j].kind # "c"
      BY <2>1, <2>3, LenProperties DEF ms, MediaLines
    <2>5. body[j] \in Sdp!Lines
      BY <2>4, ElementOfSeq
    <2> QED
      BY <2>4, <2>5, LineKinds
  <1> HIDE DEF ms, j
  <1>3. /\ ms = {} => Medium(body, i) = "session"
        /\ ms # {} => Medium(body, i) \in {"audio", "media"}
    BY <1>1, <1>2, Zenon
  <1> QED
    BY <1>3 DEF ms

LEMMA AtMostOne ==
    ASSUME NEW n \in Nat, NEW T, T \subseteq 1 .. n, Cardinality(T) <= 1
    PROVE  \A x, y \in T : x = y
  <1>1. IsFiniteSet(T)
    <2>1. IsFiniteSet(1 .. n)
      BY FS_Interval
    <2> QED
      BY <2>1, FS_Subset
  <1>2. Cardinality(T) \in Nat
    BY <1>1, FS_CardinalityType
  <1>3. CASE Cardinality(T) = 0
    BY <1>1, <1>3, FS_EmptySet
  <1>4. CASE Cardinality(T) = 1
    <2>1. PICK x : T = {x}
      BY <1>1, <1>4, FS_Singleton
    <2> QED
      BY <2>1
  <1> QED
    BY <1>2, <1>3, <1>4

LEMMA ExactlyOne ==
    ASSUME NEW n \in Nat, NEW T, T \subseteq 1 .. n, Cardinality(T) = 1
    PROVE  \E x : T = {x}
  <1>1. IsFiniteSet(T)
    <2>1. IsFiniteSet(1 .. n)
      BY FS_Interval
    <2> QED
      BY <2>1, FS_Subset
  <1> QED
    BY <1>1, FS_Singleton

(* In an answer the last connection line is the one that counts: the audio *)
(* section's, or the session's if it has none.                             *)
LEMMA AnswerParsed ==
    ASSUME NEW body \in Seq(Sdp!Lines), Answers(body)
    PROVE  LET port == body[CHOOSE i \in AudioLines(body) : TRUE].port
           IN  Sdp!parse_answer(body) =
                  IF RfcAddr(body) = Sdp!NoAddr THEN Sdp!Refused
                  ELSE [addr |-> RfcAddr(body), port |-> port]
  <1> DEFINE n == Len(body)
             own == Connections(body, "audio")
             session == Connections(body, "session")
  <1>1. n \in Nat /\ DOMAIN body = 1 .. n
    BY LenProperties
  <1>2. PICK a : AudioLines(body) = {a}
    <2>1. AudioLines(body) \subseteq 1 .. n /\ Cardinality(AudioLines(body)) = 1
      BY <1>1 DEF AudioLines, Answers
    <2> QED
      BY <1>1, <2>1, ExactlyOne, Zenon
  <1>3. (CHOOSE i \in AudioLines(body) : TRUE) = a
    BY <1>2
  <1>4. OneAudio(body, a)
    <2>1. a \in AudioLines(body) /\ \A i \in AudioLines(body) : i = a
      BY <1>2
    <2> QED
      BY <1>1, <2>1 DEF OneAudio, AudioLines, Answers, IsConnection
  <1>5. /\ own \subseteq 1 .. n /\ session \subseteq 1 .. n
        /\ \A i \in own \cup session : IsConnection(body, i)
        /\ \A i \in own : Medium(body, i) = "audio"
        /\ \A i \in session : Medium(body, i) = "session"
    BY <1>1 DEF Connections, IsConnection
  <1>6. \A i \in 1 .. n : IsConnection(body, i) => i \in own \cup session
    <2> SUFFICES ASSUME NEW i \in 1 .. n, IsConnection(body, i)
                 PROVE  i \in own \cup session
      OBVIOUS
    <2>1. i \in Connections(body, Medium(body, i))
      BY <1>1, Zenon DEF Connections, IsConnection
    <2>2. Medium(body, i) \in {"session", "audio", "media"}
      BY MediumIs
    <2>3. Connections(body, "media") = {}
      BY DEF Answers
    <2> QED
      BY <2>1, <2>2, <2>3
  <1>7. /\ \A i, j \in own : i = j
        /\ \A i, j \in session : i = j
    <2>1. Cardinality(own) <= 1 /\ Cardinality(session) <= 1
      BY DEF Answers
    <2> HIDE DEF own, session
    <2> QED
      BY <1>1, <1>5, <2>1, AtMostOne, Zenon
  <1>8. ASSUME NEW i \in own, NEW j \in session PROVE j < i
    <2>1. i \in 1 .. n /\ j \in 1 .. n
      BY <1>5
    <2>2. MediaLines(body, i) # {}
      <3>1. Medium(body, i) # "session"
        BY <1>5
      <3> QED
        BY <2>1, <3>1, MediumIs
    <2>3. MediaLines(body, j) = {}
      <3>1. Medium(body, j) = "session"
        BY <1>5
      <3> QED
        BY <2>1, <3>1, MediumIs
    <2>4. CASE i <= j
      <3>1. 1 .. i \subseteq 1 .. j
        BY <2>1, <2>4
      <3> QED
        BY <2>2, <2>3, <3>1 DEF MediaLines
    <2> QED
      BY <2>1, <2>4
  <1>9. RfcAddr(body) = LET from == IF own # {} THEN own ELSE session
                        IN  IF from = {} THEN Sdp!NoAddr
                            ELSE body[CHOOSE i \in from : TRUE].addr
    BY Zenon DEF RfcAddr
  <1> HIDE DEF n, own, session
  <1>10. ASSUME NEW j \in 1 .. n, Last(body, j, n), RfcAddr(body) = body[j].addr
         PROVE  Sdp!parse_answer(body) =
                  IF RfcAddr(body) = Sdp!NoAddr THEN Sdp!Refused
                  ELSE [addr |-> RfcAddr(body), port |-> body[a].port]
    <2>1. body[j].addr # Sdp!NoAddr
      BY <1>4, <1>10 DEF Last, OneAudio, n
    <2>2. Sdp!parse_answer(body) = [addr |-> body[j].addr, port |-> body[a].port]
      BY <1>4, <1>10, ParsesLast DEF n
    <2> QED
      BY <1>10, <2>1, <2>2, Zenon
  <1>11. CASE own # {}
    <2>1. PICK j \in own : TRUE
      BY <1>11
    <2>2. own = {j}
      BY <1>7, <2>1
    <2>3. RfcAddr(body) = body[j].addr
      <3>1. (CHOOSE i \in own : TRUE) = j
        BY <2>2
      <3> QED
        BY <1>9, <1>11, <3>1, Zenon
    <2>4. j \in 1 .. n /\ IsConnection(body, j)
      BY <1>5
    <2>5. ASSUME NEW i \in j + 1 .. n PROVE ~IsConnection(body, i)
      <3>1. i \in 1 .. n /\ i > j
        BY <1>1, <2>4
      <3>2. i \notin own
        BY <2>2, <2>4, <3>1
      <3>3. i \notin session
        BY <1>8, <2>4, <3>1
      <3> QED
        BY <1>6, <3>1, <3>2, <3>3
    <2>6. Last(body, j, n)
      BY <2>4, <2>5 DEF Last
    <2> QED
      BY <1>3, <1>10, <2>3, <2>4, <2>6, Zenon
  <1>12. CASE own = {} /\ session # {}
    <2>1. PICK j \in session : TRUE
      BY <1>12
    <2>2. session = {j}
      BY <1>7, <2>1
    <2>3. RfcAddr(body) = body[j].addr
      <3>1. (CHOOSE i \in session : TRUE) = j
        BY <2>2
      <3> QED
        BY <1>9, <1>12, <3>1, Zenon
    <2>4. j \in 1 .. n /\ IsConnection(body, j)
      BY <1>5
    <2>5. ASSUME NEW i \in j + 1 .. n PROVE ~IsConnection(body, i)
      <3>1. i \in 1 .. n /\ i # j
        BY <1>1, <2>4
      <3> QED
        BY <1>6, <1>12, <2>2, <3>1
    <2>6. Last(body, j, n)
      BY <2>4, <2>5 DEF Last
    <2> QED
      BY <1>3, <1>10, <2>3, <2>4, <2>6, Zenon
  <1>13. CASE own = {} /\ session = {}
    <2>1. RfcAddr(body) = Sdp!NoAddr
      BY <1>9, <1>13, Zenon
    <2>2. \A i \in 1 .. n : ~IsConnection(body, i)
      BY <1>6, <1>13
    <2>3. Sdp!parse_answer(body) = Sdp!Refused
      BY <1>4, <2>2, ParsesLast DEF n
    <2> QED
      BY <2>1, <2>3, Zenon
  <1> QED
    BY <1>11, <1>12, <1>13
----------------------------------------------------------------------------
(* The properties of module Formats.  Nothing happens to an input.         *)
(* Powers of two up to 2^15, all that the codec needs.                     *)
TwoTo(e) == 2^e

LEMMA Powers ==
    /\ TwoTo(0) = 1 /\ TwoTo(1) = 2 /\ TwoTo(2) = 4 /\ TwoTo(3) = 8
    /\ TwoTo(4) = 16 /\ TwoTo(5) = 32 /\ TwoTo(6) = 64 /\ TwoTo(7) = 128
    /\ TwoTo(8) = 256 /\ TwoTo(9) = 512 /\ TwoTo(10) = 1024
    /\ TwoTo(11) = 2048 /\ TwoTo(12) = 4096 /\ TwoTo(13) = 8192
    /\ TwoTo(14) = 16384 /\ TwoTo(15) = 32768
  BY SMT DEF TwoTo

LEMMA Doubles ==
    ASSUME NEW e \in 0 .. 14
    PROVE  TwoTo(e) \in Nat /\ TwoTo(e + 1) = 2 * TwoTo(e)
  <1>1. \/ e = 0 \/ e = 1 \/ e = 2 \/ e = 3 \/ e = 4 \/ e = 5 \/ e = 6
        \/ e = 7 \/ e = 8 \/ e = 9 \/ e = 10 \/ e = 11 \/ e = 12 \/ e = 13
        \/ e = 14
    OBVIOUS
  <1> QED
    BY <1>1, Powers, SMT

LEMMA Grows ==
    ASSUME NEW d \in 0 .. 15, NEW e \in 0 .. 15, d < e
    PROVE  TwoTo(d + 1) <= TwoTo(e)
  <1>1. /\ d \in 0 .. 14
        /\ \/ d = 0 \/ d = 1 \/ d = 2 \/ d = 3 \/ d = 4 \/ d = 5 \/ d = 6
           \/ d = 7 \/ d = 8 \/ d = 9 \/ d = 10 \/ d = 11 \/ d = 12
           \/ d = 13 \/ d = 14
    OBVIOUS
  <1>2. \/ e = 1 \/ e = 2 \/ e = 3 \/ e = 4 \/ e = 5 \/ e = 6
        \/ e = 7 \/ e = 8 \/ e = 9 \/ e = 10 \/ e = 11 \/ e = 12 \/ e = 13
        \/ e = 14 \/ e = 15
    OBVIOUS
  <1>3. TwoTo(d + 1) = 2 * TwoTo(d)
    BY <1>1, Doubles
  <1> QED
    BY <1>1, <1>2, <1>3, Powers, SMT

(* A number lies between two powers of two in one place only.              *)
LEMMA OnePlace ==
    ASSUME NEW d \in 0 .. 14, NEW e \in 0 .. 14, NEW n \in Int,
           TwoTo(d) <= n, n < TwoTo(d + 1), TwoTo(e) <= n, n < TwoTo(e + 1)
    PROVE  d = e
  <1>1. /\ TwoTo(d) \in Nat /\ TwoTo(e) \in Nat
        /\ TwoTo(d + 1) \in Nat /\ TwoTo(e + 1) \in Nat
    BY Doubles
  <1>2. CASE d < e
    BY <1>1, <1>2, Grows
  <1>3. CASE e < d
    BY <1>1, <1>3, Grows
  <1> QED
    BY <1>2, <1>3

LEMMA TableIs ==
    ASSUME NEW e \in 0 .. 7, NEW i \in 1 .. 255,
           TwoTo(e) <= i, i < TwoTo(e + 1)
    PROVE  M!ExpLut(i) = e
  <1>1. CASE e = 0
    BY <1>1, Powers, SMT DEF M!ExpLut
  <1>2. CASE e # 0
    <2>1. e \in 1 .. 7 /\ 2 <= i
      BY <1>2, Grows, Doubles, Powers, SMT
    <2>2. M!ExpLut(i) = CHOOSE d \in 1 .. 7 : TwoTo(d) <= i /\ i < TwoTo(d + 1)
      BY <2>1 DEF M!ExpLut, TwoTo
    <2>3. \A d \in 1 .. 7 : TwoTo(d) <= i /\ i < TwoTo(d + 1) => d = e
      BY OnePlace
    <2> QED
      BY <2>1, <2>2, <2>3
  <1> QED
    BY <1>1, <1>2

(* The cells of the code: sixteen equal steps in each segment of the       *)
(* biased magnitude.                                                       *)
Cell(m, e, k) == /\ e \in 0 .. 7 /\ k \in 0 .. 15
                 /\ (16 + k) * 8 * TwoTo(e) <= m /\ m < (17 + k) * 8 * TwoTo(e)

(* What is heard of a cell, its middle without the bias.                   *)
Level(e, k) == (k * 8 + 132) * TwoTo(e) - 132

LEMMA Segment ==
    ASSUME NEW e \in 0 .. 7
    PROVE  <<e, TwoTo(e)>> \in {<<0, 1>>, <<1, 2>>, <<2, 4>>, <<3, 8>>,
                               <<4, 16>>, <<5, 32>>, <<6, 64>>, <<7, 128>>}
  <1>1. \/ e = 0 \/ e = 1 \/ e = 2 \/ e = 3 \/ e = 4 \/ e = 5 \/ e = 6
        \/ e = 7
    OBVIOUS
  <1> QED
    BY <1>1, Powers

LEMMA HasCell ==
    ASSUME NEW m \in Int, 132 <= m, m <= 32767
    PROVE  \E e \in 0 .. 7, k \in 0 .. 15 : Cell(m, e, k)
  <1>1. PICK e \in 0 .. 7 : 128 * TwoTo(e) <= m /\ m < 256 * TwoTo(e)
    <2>1. \/ m < 256
          \/ 256 <= m /\ m < 512
          \/ 512 <= m /\ m < 1024
          \/ 1024 <= m /\ m < 2048
          \/ 2048 <= m /\ m < 4096
          \/ 4096 <= m /\ m < 8192
          \/ 8192 <= m /\ m < 16384
          \/ 16384 <= m
      BY SMT
    <2> QED
      BY <2>1, Powers, SMT
  <1> DEFINE k == m \div (8 * TwoTo(e)) - 16
  <1>2. k \in 0 .. 15 /\ Cell(m, e, k)
    BY <1>1, Segment, SMT DEF Cell
  <1> QED
    BY <1>2

(* encode_ulaw finds the cell.                                             *)
LEMMA CellEncoded ==
    ASSUME NEW sample \in Int, NEW e, NEW k, M!Magnitude(sample) \in Int,
           Cell(M!Magnitude(sample), e, k)
    PROVE  M!slin_sample_to_ulaw(sample)
               = 255 - ((IF sample < 0 THEN 128 ELSE 0) + e * 16 + k)
  <1> DEFINE m == M!Magnitude(sample)
             i == (m \div 128) % 256
  <1>1. e \in 0 .. 7 /\ k \in 0 .. 15
    BY DEF Cell
  <1>2. m \in Int /\ Cell(m, e, k)
    OBVIOUS
  <1>3. M!slin_sample_to_ulaw(sample)
            = 255 - ((IF sample < 0 THEN 128 ELSE 0) + M!ExpLut(i) * 16
                     + ((m \div TwoTo(M!ExpLut(i) + 3)) % 16))
    BY Zenon DEF M!slin_sample_to_ulaw, TwoTo
  <1> HIDE DEF m
  <1>4. i \in 1 .. 255 /\ TwoTo(e) <= i /\ i < 2 * TwoTo(e)
    BY <1>1, <1>2, Segment, SMT DEF Cell
  <1> HIDE DEF i
  <1>5. M!ExpLut(i) = e
    <2>1. e \in 0 .. 7 /\ e \in 0 .. 14
      BY <1>1
    <2>2. TwoTo(e + 1) = 2 * TwoTo(e)
      BY <2>1, Doubles
    <2>3. i \in 1 .. 255 /\ TwoTo(e) <= i /\ i < TwoTo(e + 1)
      BY <1>4, <2>2
    <2> QED
      BY <2>1, <2>3, TableIs
  <1>6. TwoTo(e + 3) = 8 * TwoTo(e)
    BY <1>1, Segment, Powers, SMT
  <1>7. (m \div (8 * TwoTo(e))) % 16 = k
    BY <1>1, <1>2, Segment, SMT DEF Cell
  <1> QED
    BY <1>3, <1>5, <1>6, <1>7

(* decode_ulaw gives back the middle of it.                                *)
LEMMA CellDecoded ==
    ASSUME NEW e \in 0 .. 7, NEW k \in 0 .. 15, NEW sign \in {0, 128}
    PROVE  /\ Level(e, k) \in Nat /\ Level(e, k) <= M!Clip
           /\ M!ulaw_sample_to_slin(255 - (sign + e * 16 + k))
                  = IF sign = 128 THEN -Level(e, k) ELSE Level(e, k)
  <1> DEFINE u == sign + e * 16 + k
  <1>1. /\ 255 - (255 - u) = u /\ (u % 128) \div 16 = e /\ u % 16 = k
    BY SMT
  <1>5. u >= 128 <=> sign = 128
    BY SMT
  <1>2. M!ulaw_sample_to_slin(255 - u)
            = LET v == 255 - (255 - u)
                  s == ((v % 16) * 8 + 132) * TwoTo((v % 128) \div 16) - 132
              IN  IF v >= 128 THEN -s ELSE s
    BY Zenon DEF M!ulaw_sample_to_slin, TwoTo, M!Bias
  <1>3. Level(e, k) \in Nat /\ Level(e, k) <= M!Clip
    <2>1. TwoTo(e) \in {1, 2, 4, 8, 16, 32, 64, 128}
      BY Segment
    <2>2. k * 8 + 132 \in 132 .. 252
      OBVIOUS
    <2> QED
      BY <2>1, <2>2, SMT DEF Level, M!Clip
  <1> HIDE DEF u
  <1>4. M!ulaw_sample_to_slin(255 - u)
            = IF u >= 128 THEN -Level(e, k) ELSE Level(e, k)
    BY <1>1, <1>2 DEF Level
  <1> QED
    BY <1>3, <1>4, <1>5, Zenon DEF u

(* What 16 bits hold.                                                      *)
LEMMA SlinRange ==
    ASSUME NEW s
    PROVE  s \in M!Slin <=> s \in Int /\ -32768 <= s /\ s <= 32767
  <1> DEFINE low  == -32768
             high == 32767
  <1>1. M!Slin = low .. high
    BY DEF M!Slin
  <1>2. low \in Int /\ high \in Int
    BY SMT
  <1>3. ASSUME NEW a \in Int, NEW b \in Int
        PROVE  s \in a .. b <=> s \in Int /\ a <= s /\ s <= b
    BY SMT
  <1> HIDE DEF low, high
  <1>4. s \in M!Slin <=> s \in Int /\ low <= s /\ s <= high
    BY <1>1, <1>2, <1>3
  <1> QED
    BY <1>4, SMT DEF low, high

(* An encoded sample in its bytes, and back.                               *)
LEMMA ToLeBytes ==
    ASSUME NEW s \in M!Slin
    PROVE  /\ Len(M!ToLe(s)) = 2
           /\ M!FromLe(M!ToLe(s)[1], M!ToLe(s)[2]) = s
  <1> DEFINE u == IF s < 0 THEN s + 65536 ELSE s
  <1>1. M!ToLe(s) = <<u % 256, u \div 256>>
    BY SMT DEF M!ToLe
  <1>2. ASSUME NEW n \in Int
        PROVE  /\ n = (n % 256) + 256 * (n \div 256)
               /\ n % 256 \in Int /\ n \div 256 \in Int
               /\ n \div 256 < 128 <=> n < 32768
    BY SMT
  <1>3. s \in Int /\ -32768 <= s /\ s <= 32767
    BY SlinRange
  <1>4. /\ s < 0 => u = s + 65536 /\ u >= 32768
        /\ s >= 0 => u = s /\ u < 32768
        /\ u \in Int
    BY <1>3, SMT
  <1> HIDE DEF u
  <1>5. M!FromLe(u % 256, u \div 256) = s
    BY <1>2, <1>3, <1>4, SMT DEF M!FromLe
  <1> QED
    BY <1>1, <1>5

LEMMA HeardIs ==
    ASSUME NEW s \in M!Slin,
           M!ulaw_sample_to_slin(M!slin_sample_to_ulaw(s)) \in M!Slin
    PROVE  Heard(s) = M!ulaw_sample_to_slin(M!slin_sample_to_ulaw(s))
  <1> DEFINE c == M!slin_sample_to_ulaw(s)
             x == M!ulaw_sample_to_slin(c)
             e == M!encode_ulaw(M!ToLe(s))
             d == M!decode_ulaw(e)
  <1>1. Len(M!ToLe(s)) = 2 /\ M!FromLe(M!ToLe(s)[1], M!ToLe(s)[2]) = s
    BY ToLeBytes
  <1>2. e = [i \in 1 .. 1 |-> c]
    BY <1>1 DEF M!encode_ulaw
  <1>3. Len(e) = 1 /\ e[1] = c
    BY <1>2
  <1>4. d = [i \in 1 .. 2 |-> LET b == M!ToLe(M!ulaw_sample_to_slin(e[(i + 1) \div 2]))
                             IN  b[IF i % 2 = 1 THEN 1 ELSE 2]]
    BY <1>3 DEF M!decode_ulaw
  <1>5. d[1] = M!ToLe(x)[1] /\ d[2] = M!ToLe(x)[2]
    BY <1>3, <1>4
  <1>6. Heard(s) = M!FromLe(d[1], d[2])
    BY Zenon DEF Heard
  <1>7. x \in M!Slin
    OBVIOUS
  <1> HIDE DEF x, d
  <1> QED
    BY <1>5, <1>6, <1>7, ToLeBytes DEF x

(* A clipped and biased sample is in one cell, and heard as its middle.    *)
LEMMA ClippedIs ==
    ASSUME NEW s \in M!Slin
    PROVE  /\ Clipped(s) \in Int /\ (Clipped(s) < 0 <=> s < 0)
           /\ M!Magnitude(s) = Abs(Clipped(s)) + 132
           /\ M!Magnitude(s) \in Int
           /\ 132 <= M!Magnitude(s) /\ M!Magnitude(s) <= 32767
  <1>1. s \in Int /\ -32768 <= s /\ s <= 32767
    BY SlinRange
  <1> QED
    BY <1>1, SMT DEF Clipped, M!Magnitude, Abs, M!Clip, M!Bias

LEMMA SampleHeard ==
    ASSUME NEW s \in M!Slin
    PROVE  \E e \in 0 .. 7, k \in 0 .. 15 :
              /\ Cell(M!Magnitude(s), e, k)
              /\ Heard(s) = IF s < 0 THEN -Level(e, k) ELSE Level(e, k)
  <1>1. PICK e \in 0 .. 7, k \in 0 .. 15 : Cell(M!Magnitude(s), e, k)
    BY ClippedIs, HasCell
  <1> DEFINE sign == IF s < 0 THEN 128 ELSE 0
  <1>2. s \in Int /\ sign \in {0, 128} /\ (sign = 128 <=> s < 0)
    BY SlinRange
  <1>3. M!slin_sample_to_ulaw(s) = 255 - (sign + e * 16 + k)
    BY <1>1, <1>2, ClippedIs, CellEncoded
  <1> HIDE DEF sign
  <1>4. /\ Level(e, k) \in Nat /\ Level(e, k) <= M!Clip
        /\ M!ulaw_sample_to_slin(M!slin_sample_to_ulaw(s))
              = IF sign = 128 THEN -Level(e, k) ELSE Level(e, k)
    BY <1>2, <1>3, CellDecoded
  <1>5. M!ulaw_sample_to_slin(M!slin_sample_to_ulaw(s)) \in M!Slin
    <2> DEFINE x == M!ulaw_sample_to_slin(M!slin_sample_to_ulaw(s))
    <2>1. x \in Int /\ -32768 <= x /\ x <= 32767
      BY <1>4, SMT DEF M!Clip
    <2> QED
      BY <2>1, SlinRange
  <1> QED
    BY <1>1, <1>2, <1>4, <1>5, HeardIs

LEMMA StepIs ==
    ASSUME NEW n \in Nat, NEW e, NEW k, Cell(n + 132, e, k)
    PROVE  HalfStep(n) = 4 * TwoTo(e)
  <1>1. e \in 0 .. 7 /\ k \in 0 .. 15
    BY DEF Cell
  <1> DEFINE Between(d) == TwoTo(d) <= n + 132 /\ n + 132 < TwoTo(d + 1)
             top == CHOOSE d \in 7 .. 14 : Between(d)
  <1>2. HalfStep(n) = TwoTo(top - 5)
    BY Zenon DEF HalfStep, TwoTo, M!Bias
  <1>3. TwoTo(e + 7) = 128 * TwoTo(e) /\ TwoTo(e + 8) = 256 * TwoTo(e)
    BY <1>1, Segment, Powers, SMT
  <1>4. e + 7 \in 7 .. 14 /\ (e + 7) + 1 = e + 8
    BY <1>1
  <1>5. Between(e + 7)
    BY <1>1, <1>3, <1>4, Segment, SMT DEF Cell
  <1>6. \A d \in 7 .. 14 : Between(d) => d = e + 7
    BY <1>4, <1>5, OnePlace
  <1> HIDE DEF Between
  <1>7. top = e + 7
    BY <1>4, <1>5, <1>6
  <1>8. TwoTo(e + 2) = 4 * TwoTo(e) /\ (e + 7) - 5 = e + 2
    BY <1>1, Segment, Powers, SMT
  <1> QED
    BY <1>2, <1>7, <1>8

(* Cells are ordered as their middles.                                     *)
LEMMA LevelsGrow ==
    ASSUME NEW m \in Int, NEW n \in Int, m <= n,
           NEW d, NEW j, Cell(m, d, j), NEW e, NEW k, Cell(n, e, k)
    PROVE  Level(d, j) <= Level(e, k)
  <1>1. /\ d \in 0 .. 7 /\ j \in 0 .. 15 /\ e \in 0 .. 7 /\ k \in 0 .. 15
        /\ d \in 0 .. 15 /\ e \in 0 .. 15 /\ d \in 0 .. 14
    BY DEF Cell
  <1> DEFINE p == TwoTo(d)
             q == TwoTo(e)
  <1>2. p \in 1 .. 128 /\ q \in 1 .. 128
    BY <1>1, Segment
  <1>3. /\ (16 + j) * 8 * p <= m /\ m < (17 + j) * 8 * p
        /\ (16 + k) * 8 * q <= n /\ n < (17 + k) * 8 * q
    BY DEF Cell
  <1>4. d < e => 2 * p <= q
    BY <1>1, Doubles, Grows
  <1>5. e < d => 2 * q <= p
    BY <1>1, Doubles, Grows
  <1>6. \A x \in 0 .. 7 : TwoTo(x) \in {1, 2, 4, 8, 16, 32, 64, 128}
    BY Segment
  <1>7. p \in {1, 2, 4, 8, 16, 32, 64, 128} /\ q \in {1, 2, 4, 8, 16, 32, 64, 128}
    BY <1>1, <1>6
  <1>8. Level(d, j) = (j * 8 + 132) * p - 132
        /\ Level(e, k) = (k * 8 + 132) * q - 132
    BY DEF Level
  <1> HIDE DEF p, q
  <1>9. CASE d = e
    <2>1. p = q
      BY <1>9 DEF p, q
    <2>2. j <= k
      BY <1>1, <1>3, <1>7, <2>1, SMT
    <2> QED
      BY <1>1, <1>7, <1>8, <2>1, <2>2, SMT
  <1>10. CASE d < e
    BY <1>1, <1>4, <1>7, <1>8, <1>10, SMT
  <1>11. CASE e < d
    BY <1>1, <1>3, <1>5, <1>7, <1>11, SMT
  <1> QED
    BY <1>1, <1>9, <1>10, <1>11

LEMMA HeardClosely ==
    ASSUME NEW s \in M!Slin
    PROVE  Abs(Heard(s) - Clipped(s)) <= HalfStep(Abs(Clipped(s)))
  <1> DEFINE n == Abs(Clipped(s))
  <1>1. PICK e \in 0 .. 7, k \in 0 .. 15 :
           /\ Cell(M!Magnitude(s), e, k)
           /\ Heard(s) = IF s < 0 THEN -Level(e, k) ELSE Level(e, k)
    BY SampleHeard
  <1>2. /\ Clipped(s) \in Int /\ (Clipped(s) < 0 <=> s < 0)
        /\ n \in Nat /\ M!Magnitude(s) = n + 132
        /\ Clipped(s) = IF s < 0 THEN -n ELSE n
    BY ClippedIs DEF Abs
  <1> HIDE DEF n
  <1>3. Cell(n + 132, e, k)
    BY <1>1, <1>2
  <1>4. HalfStep(n) = 4 * TwoTo(e)
    BY <1>2, <1>3, StepIs
  <1>5. TwoTo(e) \in {1, 2, 4, 8, 16, 32, 64, 128}
    BY Segment
  <1>6. /\ Level(e, k) \in Int
        /\ Level(e, k) - n <= 4 * TwoTo(e) /\ n - Level(e, k) <= 4 * TwoTo(e)
    BY <1>2, <1>3, <1>5, SMT DEF Cell, Level
  <1>7. Abs(Heard(s) - Clipped(s)) <= 4 * TwoTo(e)
    BY <1>1, <1>2, <1>6, SMT DEF Abs
  <1> QED
    BY <1>4, <1>7 DEF n

LEMMA HeardInOrder ==
    ASSUME NEW s \in M!Slin, s + 1 \in M!Slin
    PROVE  Heard(s) <= Heard(s + 1)
  <1>1. PICK d \in 0 .. 7, j \in 0 .. 15 :
           /\ Cell(M!Magnitude(s), d, j)
           /\ Heard(s) = IF s < 0 THEN -Level(d, j) ELSE Level(d, j)
    BY SampleHeard
  <1>2. PICK e \in 0 .. 7, k \in 0 .. 15 :
           /\ Cell(M!Magnitude(s + 1), e, k)
           /\ Heard(s + 1) = IF s + 1 < 0 THEN -Level(e, k) ELSE Level(e, k)
    BY SampleHeard
  <1>3. /\ s \in Int /\ M!Magnitude(s) \in Int /\ M!Magnitude(s + 1) \in Int
        /\ s >= 0 => M!Magnitude(s) <= M!Magnitude(s + 1)
        /\ s + 1 < 0 => M!Magnitude(s + 1) <= M!Magnitude(s)
    BY SlinRange, SMT DEF M!Magnitude, M!Clip, M!Bias
  <1>4. Level(d, j) \in Nat /\ Level(e, k) \in Nat
    BY CellDecoded
  <1>5. CASE s >= 0
    BY <1>1, <1>2, <1>3, <1>4, <1>5, LevelsGrow
  <1>6. CASE s + 1 < 0
    <2>1. Level(e, k) <= Level(d, j)
      BY <1>1, <1>2, <1>3, <1>6, LevelsGrow
    <2> QED
      BY <1>1, <1>2, <1>3, <1>4, <1>6, <2>1
  <1>7. CASE s = -1
    BY <1>1, <1>2, <1>4, <1>7
  <1> QED
    BY <1>3, <1>5, <1>6, <1>7

(* A code is decoded to the middle of its cell, and found there again; the *)
(* two zeros become one.                                                   *)
LEMMA CodeSurvives ==
    ASSUME NEW c \in M!Byte
    PROVE  M!slin_sample_to_ulaw(M!ulaw_sample_to_slin(c))
               = IF c = 127 THEN 255 ELSE c
  <1> DEFINE u    == 255 - c
             sign == IF u >= 128 THEN 128 ELSE 0
             e    == (u % 128) \div 16
             k    == u % 16
             x    == M!ulaw_sample_to_slin(c)
  <1>1. /\ c \in 0 .. 255 /\ sign \in {0, 128} /\ e \in 0 .. 7 /\ k \in 0 .. 15
        /\ c = 255 - (sign + e * 16 + k)
    BY SMT DEF M!Byte
  <1> HIDE DEF u, sign, e, k
  <1>2. /\ Level(e, k) \in Nat /\ Level(e, k) <= M!Clip
        /\ x = IF sign = 128 THEN -Level(e, k) ELSE Level(e, k)
    BY <1>1, CellDecoded
  <1> HIDE DEF x
  <1>3. TwoTo(e) \in {1, 2, 4, 8, 16, 32, 64, 128} /\ (TwoTo(e) = 1 <=> e = 0)
    BY <1>1, Segment
  <1>4. /\ x \in Int /\ M!Magnitude(x) = Level(e, k) + 132
    BY <1>2, SMT DEF M!Magnitude, M!Bias, M!Clip
  <1>5. Cell(Level(e, k) + 132, e, k)
    BY <1>1, <1>3, SMT DEF Cell, Level
  <1>6. M!slin_sample_to_ulaw(x)
            = 255 - ((IF x < 0 THEN 128 ELSE 0) + e * 16 + k)
    BY <1>2, <1>4, <1>5, CellEncoded
  <1>7. Level(e, k) = 0 <=> e = 0 /\ k = 0
    BY <1>1, <1>3, SMT DEF Level
  <1>8. CASE Level(e, k) = 0
    BY <1>1, <1>2, <1>6, <1>7, <1>8 DEF x
  <1>9. CASE Level(e, k) # 0
    <2>1. c # 127
      BY <1>1, <1>7, <1>9
    <2> QED
      BY <1>1, <1>2, <1>6, <1>9, <2>1 DEF x
  <1> QED
    BY <1>8, <1>9
----------------------------------------------------------------------------
LEMMA InputsStay == Spec => []Init
  <1>1. Init /\ [Next]_input => Init'
    BY DEF Init, Next
  <1> QED
    BY <1>1, PTL DEF Spec

LEMMA Bounds ==
    /\ Sdp!NoAddr \notin Addrs /\ CsrcCounts \subseteq 0 .. 15
    /\ ExtensionWords \subseteq 0 .. MaxU16 /\ DialChars \subseteq D!Chars
    /\ SdpLimit \in Nat /\ DialLength \in Nat
  BY FormatsAssumption, Zenon

LEMMA PacketBounds ==
    /\ \A payload \in Payloads : payload \in Seq(Byte) /\ R!MaySend(payload)
    /\ Cuts \subseteq Nat /\ Sequences \subseteq U16 /\ Timestamps \subseteq U32
  <1>1. \A n \in 0 .. MaxU16 : n \in U16
    BY SMT DEF MaxU16, U16, Word
  <1>2. Sequences \subseteq U16
    BY <1>1, FormatsAssumption, Zenon
  <1>3. ASSUME NEW t \in Timestamps PROVE t \in U32
    <2>1. t \in Nat /\ t \div Word \in U16
      BY <1>1, FormatsAssumption, Zenon
    <2> QED
      BY <2>1, Zenon DEF U32
  <1>4. /\ \A payload \in Payloads : payload \in Seq(M!Byte) /\ R!MaySend(payload)
        /\ Cuts \subseteq Nat
    BY FormatsAssumption, Zenon
  <1>5. M!Byte = Byte
    BY Zenon DEF M!Byte, Byte
  <1> QED
    BY <1>2, <1>3, <1>4, <1>5, Zenon

LEMMA Kinds ==
    ASSUME Init
    PROVE  /\ input.kind = "sample" => input \in Samples
           /\ input.kind = "code" => input \in Codes
           /\ input.kind = "header" => input \in Headers
           /\ input.kind = "sent" => input \in Sent
           /\ input.kind = "body" => input \in Bodies
           /\ input.kind = "dialled" => input \in Dialled
           /\ input.kind = "asked" => input \in Asked
  BY DEF Init, Samples, Codes, Headers, Sent, Bodies, Dialled, Asked

LEMMA BoundedSeq ==
    ASSUME NEW S, NEW n \in Nat, NEW s \in BoundedSeqs(S, n)
    PROVE  s \in Seq(S)
  <1>1. PICK k \in 0 .. n : s \in [1 .. k -> S]
    BY DEF BoundedSeqs
  <1> QED
    BY <1>1, SeqDef

(* For any number of lines, addresses, ports and payload types: the relay  *)
(* sends to the endpoint that an answer means, wherever in the body it is  *)
(* named, and an answer that names none is refused.                        *)
THEOREM EndpointNamed == Spec => []AnswerNamesEndpoint
  <1>1. Init => AnswerNamesEndpoint
    <2> SUFFICES ASSUME Init, input.kind = "body", Answers(input.lines)
                 PROVE  AnswerNamesEndpoint
      BY DEF AnswerNamesEndpoint
    <2>1. input.lines \in BoundedSeqs(Sdp!Lines, SdpLimit)
      BY Kinds DEF Bodies
    <2>2. input.lines \in Seq(Sdp!Lines)
      BY <2>1, Bounds, BoundedSeq, Zenon
    <2> QED
      BY <2>2, AnswerParsed, Zenon DEF AnswerNamesEndpoint
  <1> QED
    BY <1>1, InputsStay, PTL

(* A dialled number reaches the INVITE as it was dialled, whatever is      *)
(* dialled: only its tone letters go, and only what cannot be dialled is   *)
(* refused.                                                                *)
THEOREM DialNumberKept == Spec => []DialKeepsNumber
  <1>1. Init => DialKeepsNumber
    <2> SUFFICES ASSUME Init, input.kind = "dialled" PROVE DialKeepsNumber
      BY DEF DialKeepsNumber
    <2> DEFINE chars == input.chars
    <2>1. chars \in Seq(DialChars)
      <3>1. input \in Dialled
        BY Kinds
      <3>2. chars \in BoundedSeqs(DialChars, DialLength)
        BY <3>1 DEF Dialled
      <3> QED
        BY <3>2, Bounds, BoundedSeq, Zenon
    <2>2. chars \in Seq(D!Chars)
      <3>1. DialChars \subseteq D!Chars
        BY Bounds
      <3>2. \A i \in 1 .. Len(chars) : chars[i] \in D!Chars
        BY <2>1, <3>1, ElementOfSeq
      <3> QED
        BY <2>1, <3>2, SeqDef, LenProperties
    <2> HIDE DEF chars
    <2>3. IF Splits(chars) = {} THEN D!parse(chars) = D!Refused
          ELSE \A n \in Splits(chars) :
                  D!parse(chars) = SubSeq(chars, n + 1, Len(chars))
      BY <2>2, SplitParses, NoSplitRefused
    <2> QED
      BY <2>3, Zenon DEF chars, Splits, DialKeepsNumber
  <1> QED
    BY <1>1, InputsStay, PTL

(* For payloads, cuts, numbers of contributing sources and lengths of an   *)
(* extension that are any sets: a packet without padding yields its        *)
(* payload and nothing else, and a cut one yields what is left of it.      *)
THEOREM PayloadParsed == Spec => []ParsesPayload
  <1>1. Init => ParsesPayload
    <2> SUFFICES ASSUME Init, input.kind = "header" PROVE ParsesPayload
      BY DEF ParsesPayload
    <2>1. /\ input.version \in {1, 2} /\ input.csrcs \in CsrcCounts
          /\ input.words \in ExtensionWords \cup {NoExtension}
          /\ input.payload \in Payloads /\ input.missing \in Cuts
      BY Kinds DEF Headers
    <2>2. WellFormed(input)
      <3>1. \A n \in 0 .. MaxU16 : n \in U16
        BY SMT DEF MaxU16, U16, Word
      <3>2. input.words = NoExtension \/ input.words \in U16
        BY <2>1, <3>1, Bounds
      <3>3. input.csrcs \in 0 .. 15
        BY <2>1, Bounds
      <3> QED
        BY <2>1, <3>2, <3>3, Zenon DEF WellFormed
    <2> DEFINE h == RfcHeader(input)
               b == input.payload
               n == Len(b)
               m == input.missing
               H == HeaderOf(input)
               l == Len(h) + n - m
               q == SubSeq(h \o b, 1, l)
    <2>3. IsRfcHeader(h, input)
      BY <2>2, RfcHeaderBytes, Zenon
    <2>4. b \in Seq(Byte) /\ m \in Nat
      BY <2>1, PacketBounds, Zenon
    <2> HIDE DEF h, b, m
    <2>5. IsBytes(b, n) /\ n \in Nat
      BY <2>4, LenProperties DEF IsBytes
    <2>6. IsBytes(h, H) /\ Len(h) = H
      BY <2>3 DEF IsRfcHeader, IsBytes
    <2>7. H \in Nat
      BY <2>2 DEF WellFormed, Before, HeaderOf, ExtLen, U16
    <2> HIDE DEF H
    <2>8. SUFFICES ASSUME l >= 0
                   PROVE  R!parse_packet(q) = IF input.version = 2 /\ l > Len(h)
                                              THEN SubSeq(b, 1, l - Len(h))
                                              ELSE R!NoPayload
      BY Zenon DEF ParsesPayload, h, b, m
    <2> HIDE DEF n
    <2>9. l \in 0 .. H + n
      BY <2>4, <2>5, <2>6, <2>7, <2>8
    <2> HIDE DEF l
    <2>10. IsCut(q, h, b, H, l)
      BY <2>5, <2>6, <2>7, <2>9, CutBytes, Zenon
    <2> HIDE DEF q
    <2>11. R!parse_packet(q) = IF input.version = 2 /\ l > H
                               THEN SubSeq(b, 1, l - H) ELSE R!NoPayload
      BY <2>2, <2>3, <2>5, <2>9, <2>10, CutParses, Zenon DEF H
    <2> QED
      BY <2>6, <2>11, Zenon
  <1> QED
    BY <1>1, InputsStay, PTL

(* For sequence numbers, timestamps and payloads that are any sets: what   *)
(* is sent can be read, the numbers in network order and the payload       *)
(* behind them.                                                            *)
THEOREM SentRead == Spec => []SentIsReadable
  <1>1. Init => SentIsReadable
    <2> SUFFICES ASSUME Init, input.kind = "sent" PROVE SentIsReadable
      BY DEF SentIsReadable
    <2>1. /\ input.seq \in Sequences /\ input.timestamp \in Timestamps
          /\ input.payload \in Payloads
      BY Kinds DEF Sent
    <2>2. /\ input.seq \in U16 /\ input.timestamp \in U32
          /\ input.payload \in Seq(Byte) /\ R!MaySend(input.payload)
      BY <2>1, PacketBounds, Zenon
    <2>3. Ssrc \in Nat /\ input.seq \in Nat /\ input.timestamp \in Nat
      BY <2>2 DEF Ssrc, U16, U32
    <2> DEFINE p == R!build_packet(input.seq, input.timestamp, Ssrc, input.payload)
    <2>4. R!parse_packet(p) = input.payload
      BY <2>2, <2>3, SentParses, Zenon
    <2>5. HasNumbers(p, input.seq, input.timestamp)
      BY <2>2, <2>3, NumbersInPlace, Zenon
    <2> QED
      BY <2>4, <2>5, Zenon DEF SentIsReadable, HasNumbers
  <1> QED
    BY <1>1, InputsStay, PTL

(* Every sample that slmodemd can send comes back from the far end within  *)
(* half a step of its segment, after clipping.                             *)
THEOREM SampleQuantised == Spec => []QuantisesClosely
  <1>1. Init => QuantisesClosely
    BY Kinds, HeardClosely, Zenon DEF QuantisesClosely, Samples
  <1> QED
    BY <1>1, InputsStay, PTL

(* The codec folds nowhere: what is louder is heard no softer.             *)
THEOREM SamplesOrdered == Spec => []QuantisesInOrder
  <1>1. ASSUME Init, input.kind = "sample"
        PROVE  input.value \in M!Slin
    BY <1>1, Kinds, Zenon DEF Samples
  <1>2. ASSUME NEW s \in M!Slin, s < 32767
        PROVE  s + 1 \in M!Slin
    <2>1. s \in Int /\ -32768 <= s
      BY SlinRange
    <2>2. s + 1 \in Int /\ -32768 <= s + 1 /\ s + 1 <= 32767
      BY <1>2, <2>1, SMT
    <2> QED
      BY <2>2, SlinRange
  <1>3. Init => QuantisesInOrder
    <2> SUFFICES ASSUME Init, input.kind = "sample", input.value < 32767
                 PROVE  Heard(input.value) <= Heard(input.value + 1)
      BY SMT DEF QuantisesInOrder
    <2>1. input.value \in M!Slin
      BY <1>1
    <2>2. input.value + 1 \in M!Slin
      BY <1>2, <2>1, SMT
    <2> QED
      BY <2>1, <2>2, HeardInOrder, SMT
  <1> QED
    BY <1>3, InputsStay, PTL

(* What was decoded is encoded to what it was, but for the negative zero.  *)
THEOREM CodeKept == Spec => []CodesSurvive
  <1>1. Init => CodesSurvive
    BY Kinds, CodeSurvives, Zenon DEF CodesSurvive, Codes
  <1> QED
    BY <1>1, InputsStay, PTL
=============================================================================
