--------------------------- MODULE SlSocketProofs ---------------------------
(***************************************************************************)
(* Proofs about module SlSocket: it goes through the phases of module      *)
(* CallPhases, and its relay carries audio as module AudioPipe says.       *)
(***************************************************************************)
EXTENDS SlSocket, SequenceTheorems, RecursionLemmas, TLAPS

Phases == {"start", "dial", "setup", "connect", "relay", "hangup", "fails",
           "over"}

(* The assertion of the loop has been passed wherever a line is awaited.   *)
Counted ==
    /\ phase \in Phases
    /\ calls_count \in 0 .. CallsLimit
    /\ phase = "start" => calls_count = 0
    /\ phase = "dial" => calls_count < CallsLimit

LEMMA CountedStep ==
    Counted /\ [Next]_vars
        => Counted' /\ [P!Dial \/ P!GoOn \/ P!Leave]_<<phase, calls_count>>
  <1> SUFFICES ASSUME Counted, [Next]_vars
               PROVE  /\ Counted'
                      /\ \/ P!Dial \/ P!GoOn \/ P!Leave
                         \/ phase' = phase /\ calls_count' = calls_count
    OBVIOUS
  <1>0. CallsLimit \in Nat
    BY SlSocketAssumption
  <1> USE <1>0 DEF Counted, Phases, P!Dial, P!GoOn, P!Leave, P!Successors,
                   LoopTop, runVars
  <1>1. CASE Slmodemd
    BY <1>1 DEF Slmodemd, SlDials, SlPlays, SlReads, SlCloses
  <1>2. CASE Starts
    BY <1>2 DEF Starts
  <1>3. CASE Dialling
    BY <1>3 DEF Dialling, DialReads, Selects
  <1>4. CASE DialEof
    BY <1>4 DEF DialEof, Selects
  <1>5. CASE SilenceTick \/ SilenceWritten
    BY <1>5 DEF SilenceTick, SilenceWritten, WritesSilence
  <1>6. CASE SilenceFails
    BY <1>6 DEF SilenceFails
  <1>7. CASE Draining
    BY <1>7 DEF Draining, DrainReads
  <1>8. CASE SetupEnds
    BY <1>8 DEF SetupEnds, Selects
  <1>9. CASE StartsRelay \/ ConnectFails
    BY <1>9 DEF StartsRelay, ConnectFails
  <1>10. CASE HungUp
    BY <1>10 DEF HungUp
  <1>11. CASE Relaying \/ RelayEof \/ RtpArrives \/ RtpWritten \/ RtpRecvFails
    BY <1>11 DEF Relaying, RelayReads, RelayEof, RtpArrives, RtpWritten,
       RtpRecvFails
  <1>12. CASE \/ RelayReadFails \/ RtpWriteFails
              \/ \E n \in ReadSizes(RelayBuf) : RelaySendFails(n)
    BY <1>12 DEF RelayReadFails, RtpWriteFails, RelaySendFails, RelayFails, Runs
  <1>13. CASE RelayReturns
    BY <1>13 DEF RelayReturns
  <1>14. CASE Stopped \/ UNCHANGED vars
    BY <1>14 DEF Stopped, vars
  <1> QED
    BY <1>1, <1>2, <1>3, <1>4, <1>5, <1>6, <1>7, <1>8, <1>9, <1>10, <1>11,
       <1>12, <1>13, <1>14 DEF Next

LEMMA CountedInvariant == Spec => []Counted
  <1>1. Init => Counted
    BY SlSocketAssumption DEF Init, Counted, Phases
  <1> QED
    BY <1>1, CountedStep, PTL DEF Spec

(* The side of run() that reads slmodemd's socket implements the loop of   *)
(* module CallPhases, as the side that speaks SIP does (BridgeProofs).     *)
THEOREM SocketImplementsPhases == Spec => PhasesOnly
  <1>1. Init => P!PhaseInit
    BY DEF Init, P!PhaseInit
  <1>2. Counted /\ [Next]_vars => [P!Dial \/ P!GoOn \/ P!Leave]_P!phaseVars
    <2> SUFFICES ASSUME Counted, [Next]_vars
                 PROVE  \/ P!Dial \/ P!GoOn \/ P!Leave
                        \/ UNCHANGED P!phaseVars
      OBVIOUS
    <2> QED
      BY CountedStep DEF P!phaseVars
  <1> QED
    BY <1>1, <1>2, CountedInvariant, PTL DEF Spec, PhasesOnly, P!PhaseSpec
----------------------------------------------------------------------------
(* Cutting and joining sequences.                                          *)

IsFirst(a, s)    == a = SubSeq(s, 1, Len(a))
IsAfter(c, a, s) == c = SubSeq(s, Len(a) + 1, Len(s))
IsEven(k)        == k % 2 = 0

LEMMA CutTyped ==
    ASSUME NEW T, NEW s \in Seq(T), NEW i \in 1 .. Len(s) + 1,
           NEW j \in i - 1 .. Len(s)
    PROVE  /\ SubSeq(s, i, j) \in Seq(T) /\ Len(SubSeq(s, i, j)) = j - i + 1
           /\ \A x \in 1 .. j - i + 1 : SubSeq(s, i, j)[x] = s[i + x - 1]
  <1>1. Len(s) \in Nat /\ i \in Int /\ j \in Int
    BY LenProperties
  <1>2. \A x \in i .. j : s[x] \in T
    BY <1>1, ElementOfSeq
  <1> DEFINE cut == SubSeq(s, i, j)
  <1>3. /\ cut \in Seq(T)
        /\ Len(cut) = IF i <= j THEN j - i + 1 ELSE 0
        /\ \A x \in 1 .. j - i + 1 : cut[x] = s[i + x - 1]
    BY <1>1, <1>2, SubSeqProperties, SMTT(60)
  <1> HIDE DEF cut
  <1>4. Len(cut) = j - i + 1
    <2>1. i - 1 <= j
      BY <1>1
    <2>2. CASE i <= j
      BY <1>3, <2>2, Zenon
    <2>3. CASE ~(i <= j)
      <3>1. j - i + 1 = 0
        BY <1>1, <2>1, <2>3
      <3> QED
        BY <1>3, <2>3, <3>1, Zenon
    <2> QED
      BY <2>2, <2>3
  <1> QED
    BY <1>3, <1>4, Zenon DEF cut

LEMMA CutOfFirst ==
    ASSUME NEW T, NEW s \in Seq(T), NEW m \in 0 .. Len(s),
           NEW i \in 1 .. m + 1, NEW j \in i - 1 .. m
    PROVE  SubSeq(SubSeq(s, 1, m), i, j) = SubSeq(s, i, j)
  <1> DEFINE first == SubSeq(s, 1, m)
  <1>0. Len(s) \in Nat
    BY LenProperties
  <1>1. /\ first \in Seq(T) /\ Len(first) = m
        /\ \A x \in 1 .. m : first[x] = s[x]
    BY <1>0, CutTyped
  <1> HIDE DEF first
  <1>2. /\ SubSeq(first, i, j) \in Seq(T) /\ Len(SubSeq(first, i, j)) = j - i + 1
        /\ \A x \in 1 .. j - i + 1 : SubSeq(first, i, j)[x] = first[i + x - 1]
    BY <1>0, <1>1, CutTyped
  <1>3. /\ SubSeq(s, i, j) \in Seq(T) /\ Len(SubSeq(s, i, j)) = j - i + 1
        /\ \A x \in 1 .. j - i + 1 : SubSeq(s, i, j)[x] = s[i + x - 1]
    BY <1>0, CutTyped
  <1>4. \A x \in 1 .. j - i + 1 : SubSeq(first, i, j)[x] = SubSeq(s, i, j)[x]
    BY <1>0, <1>1, <1>2, <1>3
  <1>5. SubSeq(first, i, j) = SubSeq(s, i, j)
    BY <1>2, <1>3, <1>4, SeqEqual
  <1> QED
    BY <1>5 DEF first

LEMMA CutOfSecond ==
    ASSUME NEW T, NEW r \in Seq(T), NEW q \in Seq(T),
           NEW n \in 0 .. Len(q)
    PROVE  SubSeq(r \o q, Len(r) + n + 1, Len(r \o q)) = SubSeq(q, n + 1, Len(q))
  <1> DEFINE p == r \o q
             a == SubSeq(p, Len(r) + n + 1, Len(p))
             c == SubSeq(q, n + 1, Len(q))
  <1>1. /\ p \in Seq(T) /\ Len(p) = Len(r) + Len(q)
        /\ Len(r) \in Nat /\ Len(q) \in Nat
        /\ \A i \in 1 .. Len(q) : p[Len(r) + i] = q[i]
    BY ConcatProperties, LenProperties
  <1> HIDE DEF p
  <1>2. /\ a \in Seq(T) /\ Len(a) = Len(q) - n
        /\ \A x \in 1 .. Len(q) - n : a[x] = p[Len(r) + n + x]
    BY <1>1, CutTyped
  <1>3. /\ c \in Seq(T) /\ Len(c) = Len(q) - n
        /\ \A x \in 1 .. Len(q) - n : c[x] = q[n + x]
    BY <1>1, CutTyped
  <1> HIDE DEF a, c
  <1>4. \A x \in 1 .. Len(q) - n : a[x] = c[x]
    BY <1>1, <1>2, <1>3
  <1>5. a = c
    BY <1>2, <1>3, <1>4, SeqEqual
  <1> QED
    BY <1>5 DEF a, c, p

LEMMA EvenPart ==
    ASSUME NEW n \in Nat
    PROVE  Even(n) \in 0 .. n /\ Even(n) % 2 = 0 /\ n - Even(n) \in 0 .. 1
  <1>1. n % 2 \in 0 .. 1 /\ n % 2 <= n
    OBVIOUS
  <1>2. (n - (n % 2)) % 2 = 0
    OBVIOUS
  <1> QED
    BY <1>1, <1>2 DEF Even

(* What align_slin_buffer gives of the odd byte and a read is a first part *)
(* of all that is waiting, of even length, and what it keeps is the rest.  *)
LEMMA AlignedParts ==
    ASSUME NEW T, NEW r \in Seq(T), NEW q \in Seq(T), NEW n \in 1 .. Len(q)
    PROVE  LET buf  == Aligned(r \o SubSeq(q, 1, n))
               left == SubSeq(q, n + 1, Len(q))
           IN  /\ buf.slin \in Seq(T) /\ buf.odd \in Seq(T) /\ left \in Seq(T)
               /\ Len(buf.slin) \in 0 .. Len(r) + n /\ IsEven(Len(buf.slin))
               /\ Len(buf.odd) \in 0 .. 1
               /\ IsFirst(buf.slin, r \o q)
               /\ IsAfter(buf.odd \o left, buf.slin, r \o q)
  <1> DEFINE p == r \o q
             b == r \o SubSeq(q, 1, n)
             m == Len(r) + n
             k == Even(m)
             buf == Aligned(b)
             left == SubSeq(q, n + 1, Len(q))
  <1>1. /\ p \in Seq(T) /\ Len(p) = Len(r) + Len(q)
        /\ Len(r) \in Nat /\ Len(q) \in Nat /\ m \in Nat /\ m <= Len(p)
    BY ConcatProperties, LenProperties
  <1>2. SubSeq(q, 1, n) \in Seq(T) /\ Len(SubSeq(q, 1, n)) = n
    BY <1>1, SubSeqProperties, ElementOfSeq
  <1>3. b \in Seq(T) /\ Len(b) = m
    BY <1>2, ConcatProperties
  <1>4. b = SubSeq(p, 1, m)
    <2>1. SubSeq(p, 1, m) \in Seq(T) /\ Len(SubSeq(p, 1, m)) = m
      BY <1>1, SubSeqProperties, ElementOfSeq
    <2>2. ASSUME NEW i \in 1 .. m PROVE b[i] = SubSeq(p, 1, m)[i]
      BY <1>1, <1>2, ConcatProperties, SubSeqProperties, ElementOfSeq
    <2> QED
      BY <1>3, <2>1, <2>2, SeqEqual
  <1>5. k \in 0 .. m /\ k % 2 = 0 /\ m - k \in 0 .. 1
    BY <1>1, EvenPart
  <1>6. buf.slin = SubSeq(b, 1, k) /\ buf.odd = SubSeq(b, k + 1, m)
    BY <1>3 DEF Aligned
  <1>7. left = SubSeq(p, m + 1, Len(p))
    BY <1>1, CutOfSecond
  <1> HIDE DEF buf, left, b, k, p, m
  <1>8. /\ k \in 0 .. m /\ k + 1 \in 1 .. m + 1 /\ k + 1 \in 1 .. Len(p) + 1
        /\ k \in 0 .. Len(p) /\ (k + 1) - 1 = k
        /\ m \in 0 .. Len(p) /\ m \in k .. m /\ m \in k .. Len(p)
        /\ Len(p) \in m .. Len(p) /\ m + 1 \in 1 .. Len(p) + 1
        /\ (m + 1) - 1 = m
    <2>1. k \in Nat /\ m \in Nat /\ Len(p) \in Nat /\ k <= m /\ m <= Len(p)
      BY <1>1, <1>5
    <2> QED
      BY <2>1
  <1>9. buf.slin = SubSeq(p, 1, k) /\ buf.odd = SubSeq(p, k + 1, m)
    BY <1>1, <1>4, <1>6, <1>8, CutOfFirst
  <1>10. /\ buf.slin \in Seq(T) /\ Len(buf.slin) = k
         /\ buf.odd \in Seq(T) /\ Len(buf.odd) = m - k
         /\ left \in Seq(T)
    <2>1. SubSeq(p, 1, k) \in Seq(T) /\ Len(SubSeq(p, 1, k)) = k
      BY <1>1, <1>8, CutTyped
    <2>2. SubSeq(p, k + 1, m) \in Seq(T) /\ Len(SubSeq(p, k + 1, m)) = m - k
      BY <1>1, <1>8, CutTyped
    <2>3. SubSeq(p, m + 1, Len(p)) \in Seq(T)
      BY <1>1, <1>8, CutTyped
    <2> QED
      BY <1>7, <1>9, <2>1, <2>2, <2>3
  <1>11. buf.odd \o left = SubSeq(p, k + 1, Len(p))
    <2>1. SubSeq(p, k + 1, m) \o SubSeq(p, m + 1, Len(p)) = SubSeq(p, k + 1, Len(p))
      <3>1. k + 1 \in 1 .. Len(p) + 1 /\ m \in (k + 1) - 1 .. Len(p)
        BY <1>8
      <3> QED
        BY <1>1, <1>8, <3>1, ConcatAdjacentSubSeq
    <2> QED
      BY <1>7, <1>9, <2>1
  <1>12. k \in 0 .. Len(r) + n
    BY <1>5 DEF m
  <1>13. /\ buf.slin \in Seq(T) /\ buf.odd \in Seq(T) /\ left \in Seq(T)
         /\ Len(buf.slin) \in 0 .. Len(r) + n /\ IsEven(Len(buf.slin))
         /\ Len(buf.odd) \in 0 .. 1
         /\ IsFirst(buf.slin, p)
         /\ IsAfter(buf.odd \o left, buf.slin, p)
    BY <1>5, <1>9, <1>10, <1>11, <1>12 DEF IsFirst, IsAfter, IsEven
  <1> QED
    BY <1>13, Zenon DEF buf, left, b, p
----------------------------------------------------------------------------
(* What the relay takes and keeps, with its types.                         *)
AudioTypeOK ==
    /\ queue \in Seq(Bytes)
    /\ residual \in Seq(Bytes) /\ Len(residual) \in 0 .. 1
    /\ rtp \in [seq : 0 .. SeqModulus - 1,
               timestamp : 0 .. TimestampModulus - 1]
    /\ sent \in Seq(Packets)
    /\ samples \in 0 .. SampleLimit

LEMMA CounterTypes ==
    /\ SeqModulus \in Nat \ {0} /\ TimestampModulus \in Nat \ {0}
    /\ FrameSamples \in Nat \ {0} /\ RelayBuf \in Nat \ {0}
    /\ DialBuf \in Nat \ {0} /\ DrainBuf \in Nat \ {0}
    /\ SampleLimit \in Nat
  BY SlSocketAssumption

LEMMA RtpTypes ==
    /\ NewRtp \in [seq : 0 .. SeqModulus - 1,
                   timestamp : 0 .. TimestampModulus - 1]
    /\ rtp \in [seq : 0 .. SeqModulus - 1,
                timestamp : 0 .. TimestampModulus - 1]
         => Advanced \in [seq : 0 .. SeqModulus - 1,
                          timestamp : 0 .. TimestampModulus - 1]
  <1>1. NewRtp \in [seq : 0 .. SeqModulus - 1,
                   timestamp : 0 .. TimestampModulus - 1]
    BY CounterTypes DEF NewRtp
  <1>2. \A a, b \in Nat : b # 0 => a % b \in 0 .. b - 1
    OBVIOUS
  <1>3. ASSUME rtp \in [seq : 0 .. SeqModulus - 1,
                       timestamp : 0 .. TimestampModulus - 1]
        PROVE  Advanced \in [seq : 0 .. SeqModulus - 1,
                             timestamp : 0 .. TimestampModulus - 1]
    <2>1. rtp.seq + 1 \in Nat /\ rtp.timestamp + FrameSamples \in Nat
      BY <1>3, CounterTypes
    <2>2. /\ (rtp.seq + 1) % SeqModulus \in 0 .. SeqModulus - 1
          /\ (rtp.timestamp + FrameSamples) % TimestampModulus
               \in 0 .. TimestampModulus - 1
      BY <1>2, <2>1, CounterTypes
    <2> QED
      BY <2>2 DEF Advanced
  <1> QED
    BY <1>1, <1>3

LEMMA WrittenTyped ==
    /\ \A d \in DialBodies : DialLine(d) \in Seq(Bytes) /\ DialLine(d) # <<>>
    /\ \A k \in 1 .. SampleLimit : Sample(k) \in Seq(Bytes) /\ Sample(k) # <<>>
  <1>1. ASSUME NEW d \in DialBodies
        PROVE  DialLine(d) \in Seq(Bytes) /\ DialLine(d) # <<>>
    <2>1. /\ Prefix \in Bytes /\ Newline \in Bytes
          /\ <<"number", 0>> \in Bytes /\ <<"letters", 0>> \in Bytes
      BY DEF Bytes
    <2>2. d \in {"number", "letters", "empty"}
      BY SlSocketAssumption
    <2> QED
      BY <2>1, <2>2 DEF DialLine
  <1>2. ASSUME NEW k \in 1 .. SampleLimit
        PROVE  Sample(k) \in Seq(Bytes) /\ Sample(k) # <<>>
    <2>1. <<"lo", k>> \in Bytes /\ <<"hi", k>> \in Bytes
      BY DEF Bytes
    <2> QED
      BY <2>1 DEF Sample
  <1> QED
    BY <1>1, <1>2

(* A turn of sl_to_rtp, in terms of all that is waiting for it.            *)
LEMMA RelayTurn ==
    ASSUME AudioTypeOK, NEW n \in ReadSizes(RelayBuf),
           NEW buf, buf = Aligned(residual \o Taken(n))
    PROVE  /\ buf.slin \in Seq(Bytes) /\ buf.odd \in Seq(Bytes)
           /\ Left(n) \in Seq(Bytes)
           /\ Len(buf.slin) \in 0 .. RelayBuf + 1 /\ IsEven(Len(buf.slin))
           /\ Len(buf.slin) <= Len(residual \o queue)
           /\ Len(buf.odd) \in 0 .. 1
           /\ IsFirst(buf.slin, residual \o queue)
           /\ IsAfter(buf.odd \o Left(n), buf.slin, residual \o queue)
  <1>1. /\ queue \in Seq(Bytes) /\ residual \in Seq(Bytes)
        /\ Len(residual) \in 0 .. 1
    BY DEF AudioTypeOK
  <1>2. n \in 1 .. Len(queue) /\ n <= RelayBuf /\ Len(queue) \in Nat
    BY <1>1, LenProperties DEF ReadSizes
  <1>3. Left(n) = SubSeq(queue, n + 1, Len(queue))
    BY DEF Left
  <1>4. buf = Aligned(residual \o SubSeq(queue, 1, n))
    BY DEF Taken
  <1>5. /\ buf.slin \in Seq(Bytes) /\ buf.odd \in Seq(Bytes)
        /\ Left(n) \in Seq(Bytes)
        /\ Len(buf.slin) \in 0 .. Len(residual) + n /\ IsEven(Len(buf.slin))
        /\ Len(buf.odd) \in 0 .. 1
        /\ IsFirst(buf.slin, residual \o queue)
        /\ IsAfter(buf.odd \o Left(n), buf.slin, residual \o queue)
    <2>1. LET b    == Aligned(residual \o SubSeq(queue, 1, n))
              left == SubSeq(queue, n + 1, Len(queue))
          IN  /\ b.slin \in Seq(Bytes) /\ b.odd \in Seq(Bytes)
              /\ left \in Seq(Bytes)
              /\ Len(b.slin) \in 0 .. Len(residual) + n /\ IsEven(Len(b.slin))
              /\ Len(b.odd) \in 0 .. 1
              /\ IsFirst(b.slin, residual \o queue)
              /\ IsAfter(b.odd \o left, b.slin, residual \o queue)
      BY <1>1, <1>2, AlignedParts
    <2> QED
      BY <2>1, <1>3, <1>4, Zenon
  <1>6. Len(residual \o queue) = Len(residual) + Len(queue)
    BY <1>1, ConcatProperties
  <1>7. RelayBuf \in Nat
    BY CounterTypes
  <1>8. /\ Len(buf.slin) \in Nat
        /\ Len(buf.slin) <= RelayBuf + 1 /\ Len(buf.slin) <= Len(residual \o queue)
    <2> DEFINE k == Len(buf.slin)
               l == Len(residual)
               m == Len(queue)
    <2>1. /\ k \in 0 .. l + n /\ l \in 0 .. 1 /\ m \in Nat
          /\ n \in 1 .. m /\ n <= RelayBuf /\ RelayBuf \in Nat
          /\ Len(residual \o queue) = l + m
      BY <1>1, <1>2, <1>5, <1>6, <1>7
    <2> HIDE DEF k, l, m
    <2>2. k \in Nat /\ k <= RelayBuf + 1 /\ k <= l + m
      BY <2>1
    <2> QED
      BY <2>1, <2>2 DEF k
  <1>9. Len(buf.slin) \in 0 .. RelayBuf + 1
    BY <1>7, <1>8
  <1> QED
    BY <1>5, <1>8, <1>9

LEMMA TakenTyped ==
    ASSUME AudioTypeOK, NEW b, NEW n \in ReadSizes(b)
    PROVE  Left(n) \in Seq(Bytes)
  <1>1. n \in 1 .. Len(queue) /\ Len(queue) \in Nat /\ queue \in Seq(Bytes)
    BY LenProperties DEF AudioTypeOK, ReadSizes
  <1>2. n + 1 \in 1 .. Len(queue) + 1 /\ Len(queue) \in (n + 1) - 1 .. Len(queue)
    BY <1>1
  <1> QED
    BY <1>1, <1>2, CutTyped DEF Left

(* The packet of a turn that found a whole sample.                         *)
LEMMA PacketTyped ==
    ASSUME AudioTypeOK, NEW slin \in Seq(Bytes)
    PROVE  Packet(slin) \in Packets /\ Packet(slin).payload = slin
  BY DEF AudioTypeOK, Packet, Packets

LEMMA AudioTypeStep == AudioTypeOK /\ [Next]_vars => AudioTypeOK'
  <1> SUFFICES ASSUME AudioTypeOK, [Next]_vars PROVE AudioTypeOK'
    OBVIOUS
  <1>0. <<>> \in Seq(Bytes) /\ Len(<<>>) \in 0 .. 1
    OBVIOUS
  <1> USE DEF AudioTypeOK
  <1>1. CASE \E d \in DialBodies : SlDials(d)
    BY <1>1, WrittenTyped, ConcatProperties DEF SlDials, relayVars
  <1>2. CASE SlPlays
    <2>1. samples + 1 \in 1 .. SampleLimit
      BY <1>2, CounterTypes DEF SlPlays
    <2> QED
      BY <1>2, <2>1, WrittenTyped, ConcatProperties DEF SlPlays, relayVars
  <1>3. CASE \/ SlReads \/ SlCloses \/ Starts \/ DialEof \/ SilenceTick
             \/ SilenceWritten \/ SilenceFails \/ SetupEnds \/ ConnectFails
             \/ HungUp \/ RelayReturns
    BY <1>3 DEF SlReads, SlCloses, Starts, DialEof, SilenceTick, SilenceWritten,
       WritesSilence, SilenceFails, SetupEnds, ConnectFails, HungUp,
       RelayReturns, relayVars, slVars
  <1>4. CASE Dialling \/ Draining
    BY <1>4, TakenTyped DEF Dialling, Draining, DialReads, DrainReads,
       relayVars, slVars
  <1>5. CASE StartsRelay
    BY <1>5, RtpTypes DEF StartsRelay, slVars
  <1>6. CASE Relaying
    <2>1. PICK n \in ReadSizes(RelayBuf) : RelayReads(n)
      BY <1>6 DEF Relaying
    <2> DEFINE buf == Aligned(residual \o Taken(n))
    <2>2. /\ buf.slin \in Seq(Bytes) /\ buf.odd \in Seq(Bytes)
          /\ Left(n) \in Seq(Bytes) /\ Len(buf.odd) \in 0 .. 1
      BY RelayTurn
    <2>3. Packet(buf.slin) \in Packets
      BY <2>2, PacketTyped
    <2>4. /\ queue' = Left(n) /\ residual' = buf.odd /\ samples' = samples
          /\ \/ sent' = sent /\ rtp' = rtp
             \/ sent' = Append(sent, Packet(buf.slin)) /\ rtp' = Advanced
      BY <2>1 DEF RelayReads, slVars
    <2> HIDE DEF buf
    <2> QED
      <3>1. sent' \in Seq(Packets)
        <4>1. sent \in Seq(Packets)
          OBVIOUS
        <4>2. Append(sent, Packet(buf.slin)) \in Seq(Packets)
          BY <4>1, <2>3, AppendProperties, Zenon
        <4> QED
          BY <4>1, <4>2, <2>4, Zenon
      <3>2. rtp' \in [seq : 0 .. SeqModulus - 1,
                     timestamp : 0 .. TimestampModulus - 1]
        BY <2>4, RtpTypes, Zenon
      <3> QED
        BY <2>2, <2>4, <3>1, <3>2
  <1>7. CASE \/ RelayReadFails \/ RtpWriteFails
             \/ \E n \in ReadSizes(RelayBuf) : RelaySendFails(n)
    BY <1>7, <1>0, TakenTyped DEF RelayReadFails, RtpWriteFails, RelaySendFails,
       RelayFails, slVars
  <1>8. CASE RelayEof
    BY <1>8, <1>0 DEF RelayEof, slVars
  <1>9. CASE RtpArrives \/ RtpWritten \/ RtpRecvFails
    BY <1>9 DEF RtpArrives, RtpWritten, RtpRecvFails, slVars
  <1>10. CASE Stopped \/ UNCHANGED vars
    BY <1>10 DEF Stopped, vars, relayVars, slVars
  <1> QED
    BY <1>1, <1>2, <1>3, <1>4, <1>5, <1>6, <1>7, <1>8, <1>9, <1>10
       DEF Next, Slmodemd

LEMMA AudioTypeInvariant == Spec => []AudioTypeOK
  <1>1. Init => AudioTypeOK
    <2> SUFFICES ASSUME Init PROVE AudioTypeOK
      OBVIOUS
    <2>1. /\ queue = <<>> /\ residual = <<>> /\ sent = <<>> /\ rtp = NewRtp
          /\ samples = 0
      BY DEF Init
    <2> QED
      BY <2>1, RtpTypes, CounterTypes DEF AudioTypeOK
  <1> QED
    BY <1>1, AudioTypeStep, PTL DEF Spec
----------------------------------------------------------------------------
(* The refinement: what the abstract pipe holds is the odd byte and what   *)
(* waits in the socket, while the relay reads it.                          *)
Waiting  == IF Gate = "open" THEN residual \o queue ELSE <<>>
Payloads == [i \in DOMAIN sent |-> sent[i].payload]

GateAt ==
    /\ Gate = "open" <=> phase = "relay" /\ "sl_to_rtp" \in halves
    /\ Gate = "ended" <=> phase = "relay" /\ "sl_to_rtp" \notin halves
    /\ Gate = "cut" <=> phase = "fails"
    /\ Gate = "shut" <=> phase \notin {"relay", "fails"}

LEMMA GateMeans == GateAt
  <1>1. CASE phase = "relay"
    BY <1>1 DEF Gate, GateAt
  <1>2. CASE phase = "fails"
    BY <1>2 DEF Gate, GateAt
  <1>3. CASE phase \notin {"relay", "fails"}
    BY <1>3 DEF Gate, GateAt
  <1> QED
    BY <1>1, <1>2, <1>3

LEMMA GateMeansNext == GateAt'
  BY GateMeans, PTL

(* A step that the pipe does not see.                                      *)
LEMMA PipeRests ==
    ASSUME Gate' = Gate, sent' = sent,
           Gate = "open" => residual' \o queue' = residual \o queue
    PROVE  UNCHANGED Pipe!pipeVars
  <1>1. Waiting' = Waiting
    BY DEF Waiting
  <1>2. Payloads' = Payloads
    BY DEF Payloads
  <1> QED
    BY <1>1, <1>2, Zenon DEF Pipe!pipeVars, Waiting, Payloads

(* A step that opens, shuts, ends or cuts it and sends nothing.            *)
LEMMA GateMoves ==
    ASSUME sent' = sent,
           \/ Gate = "shut" /\ Gate' = "open"
           \/ Gate \in {"ended", "cut"} /\ Gate' = "shut"
           \/ Gate \in {"open", "ended"} /\ Gate' = "cut"
           \/ Gate = "open" /\ Gate' = "ended" /\ Len(Waiting) < 2
    PROVE  Pipe!PipeNext
  <1>1. Payloads' = Payloads
    BY DEF Payloads
  <1>2. CASE Gate = "shut" /\ Gate' = "open"
    BY <1>1, <1>2 DEF Pipe!PipeNext, Pipe!Opens, Payloads
  <1>3. CASE Gate \in {"ended", "cut"} /\ Gate' = "shut"
    <2>1. Waiting = <<>> /\ Waiting' = <<>>
      BY <1>3 DEF Waiting
    <2> QED
      BY <1>1, <1>3, <2>1 DEF Pipe!PipeNext, Pipe!Shuts, Payloads, Waiting
  <1>4. CASE Gate \in {"open", "ended"} /\ Gate' = "cut"
    BY <1>1, <1>4 DEF Pipe!PipeNext, Pipe!Cuts, Payloads
  <1>5. CASE Gate = "open" /\ Gate' = "ended" /\ Len(Waiting) < 2
    BY <1>1, <1>5 DEF Pipe!PipeNext, Pipe!Ends, Payloads, Waiting
  <1> QED
    BY <1>2, <1>3, <1>4, <1>5

(* slmodemd writes.                                                        *)
LEMMA PipeFills ==
    ASSUME AudioTypeOK, Gate' = Gate, sent' = sent, residual' = residual,
           NEW x \in Seq(Bytes), x # <<>>, queue' = queue \o x
    PROVE  Pipe!PipeNext \/ UNCHANGED Pipe!pipeVars
  <1>1. Payloads' = Payloads
    BY DEF Payloads
  <1>2. CASE Gate = "open"
    <2> DEFINE p == residual \o queue
               q == residual \o (queue \o x)
    <2>1. residual \in Seq(Bytes) /\ queue \in Seq(Bytes)
      BY DEF AudioTypeOK
    <2>2. p \in Seq(Bytes) /\ q = p \o x
      BY <2>1, ConcatProperties, ConcatAssociative
    <2> HIDE DEF p, q
    <2>3. /\ Len(p) \in Nat /\ Len(x) \in Nat /\ Len(q) = Len(p) + Len(x)
          /\ q \in Seq(Bytes) /\ Len(x) # 0
          /\ \A i \in 1 .. Len(p) : q[i] = p[i]
      BY <2>2, ConcatProperties, LenProperties, EmptySeq
    <2>4. SubSeq(p, 1, Len(p)) = SubSeq(q, 1, Len(p))
      <3>1. /\ SubSeq(p, 1, Len(p)) \in Seq(Bytes)
            /\ Len(SubSeq(p, 1, Len(p))) = Len(p)
            /\ \A i \in 1 .. Len(p) : SubSeq(p, 1, Len(p))[i] = p[i]
        BY <2>2, <2>3, CutTyped
      <3>2. /\ SubSeq(q, 1, Len(p)) \in Seq(Bytes)
            /\ Len(SubSeq(q, 1, Len(p))) = Len(p)
            /\ \A i \in 1 .. Len(p) : SubSeq(q, 1, Len(p))[i] = q[i]
        BY <2>3, CutTyped
      <3> QED
        BY <2>3, <3>1, <3>2, SeqEqual
    <2>5. Pipe!IsStrictPrefix(p, q)
      BY <2>3, <2>4 DEF Pipe!IsStrictPrefix, Pipe!IsPrefix
    <2>6. Waiting = p /\ Waiting' = q
      BY <1>2 DEF Waiting, p, q
    <2>7. Pipe!IsStrictPrefix(Waiting, Waiting')
      BY <2>5, <2>6
    <2> QED
      BY <1>1, <1>2, <2>7 DEF Pipe!PipeNext, Pipe!Accepts, Waiting, Payloads
  <1>3. CASE Gate # "open"
    BY <1>3, PipeRests
  <1> QED
    BY <1>2, <1>3

(* One more packet is one more payload.                                    *)
LEMMA PayloadAppended ==
    ASSUME sent \in Seq(Packets), NEW p \in Packets, sent' = Append(sent, p)
    PROVE  Payloads' = Append(Payloads, p.payload)
  <1> DEFINE t == Append(sent, p)
             l == Len(sent)
  <1>1. /\ l \in Nat /\ DOMAIN sent = 1 .. l
        /\ \A i \in 1 .. l : sent[i] \in Packets
    BY LenProperties, ElementOfSeq
  <1>2. /\ t \in Seq(Packets) /\ Len(t) = l + 1 /\ DOMAIN t = 1 .. l + 1
        /\ \A i \in 1 .. l : t[i] = sent[i]
        /\ t[l + 1] = p
    BY AppendProperties, LenProperties
  <1>3. Payloads = [i \in 1 .. l |-> sent[i].payload]
    BY <1>1 DEF Payloads
  <1>4. Payloads' = [i \in 1 .. l + 1 |-> t[i].payload]
    BY <1>2 DEF Payloads
  <1> HIDE DEF t, l
  <1>5. Payloads \in Seq(Seq(Bytes)) /\ Len(Payloads) = l
    BY <1>1, <1>3 DEF Packets
  <1>6. Payloads' \in Seq(Seq(Bytes)) /\ Len(Payloads') = l + 1
    <2>1. \A i \in 1 .. l + 1 : t[i] \in Packets
      BY <1>2, ElementOfSeq
    <2> QED
      BY <1>1, <1>4, <2>1 DEF Packets
  <1>7. p.payload \in Seq(Bytes)
    BY DEF Packets
  <1>8. /\ Append(Payloads, p.payload) \in Seq(Seq(Bytes))
        /\ Len(Append(Payloads, p.payload)) = l + 1
        /\ \A i \in 1 .. l : Append(Payloads, p.payload)[i] = Payloads[i]
        /\ Append(Payloads, p.payload)[l + 1] = p.payload
    BY <1>5, <1>7, AppendProperties
  <1>9. \A i \in 1 .. l + 1 : Payloads'[i] = Append(Payloads, p.payload)[i]
    BY <1>1, <1>2, <1>3, <1>4, <1>8
  <1> QED
    BY <1>6, <1>8, <1>9, SeqEqual

(* The relay takes whole samples from the front of what waits, and leaves  *)
(* the rest where it is.                                                   *)
LEMMA PipeSends ==
    ASSUME AudioTypeOK, Gate = "open", Gate' = "open",
           NEW n \in ReadSizes(RelayBuf), RelayReads(n)
    PROVE  Pipe!PipeNext \/ UNCHANGED Pipe!pipeVars
  <1> DEFINE buf == Aligned(residual \o Taken(n))
             p   == residual \o queue
             k   == Len(buf.slin)
  <1>1. /\ buf.slin \in Seq(Bytes) /\ k <= Len(p) /\ k \in 0 .. RelayBuf + 1
        /\ IsEven(k) /\ IsFirst(buf.slin, p)
        /\ IsAfter(buf.odd \o Left(n), buf.slin, p)
    BY RelayTurn
  <1>2. p \in Seq(Bytes) /\ Len(p) \in Nat /\ k \in Nat
    BY <1>1, ConcatProperties, LenProperties DEF AudioTypeOK
  <1>3. /\ residual' = buf.odd /\ queue' = Left(n)
        /\ buf.slin = <<>> => sent' = sent
        /\ buf.slin # <<>> => sent' = Append(sent, Packet(buf.slin))
    BY DEF RelayReads
  <1>4. Waiting = p /\ Waiting' = buf.odd \o Left(n)
    BY <1>3 DEF Waiting
  <1>5. Packet(buf.slin) \in Packets /\ Packet(buf.slin).payload = buf.slin
    BY <1>1, PacketTyped
  <1> HIDE DEF buf, p
  <1>6. CASE buf.slin = <<>>
    <2>1. k = 0
      BY <1>6
    <2>2. buf.odd \o Left(n) = p
      BY <1>1, <1>2, <2>1, SubSeqFull DEF IsAfter
    <2> QED
      BY <1>3, <1>6, <2>2, PipeRests DEF p
  <1>7. CASE buf.slin # <<>>
    <2>1. k \in 1 .. Len(p) /\ k % 2 = 0
      <3>1. k \in Nat \ {0}
        BY <1>1, <1>7, EmptySeq
      <3> HIDE DEF k
      <3>2. k <= Len(p) /\ k % 2 = 0
        BY <1>1 DEF IsEven
      <3> QED
        BY <1>2, <3>1, <3>2
    <2>2. Waiting' = SubSeq(Waiting, k + 1, Len(Waiting))
      BY <1>1, <1>4 DEF IsAfter
    <2>3. Payloads' = Append(Payloads, SubSeq(Waiting, 1, k))
      <3>1. Payloads' = Append(Payloads, buf.slin)
        BY <1>3, <1>5, <1>7, PayloadAppended DEF AudioTypeOK
      <3>2. buf.slin = SubSeq(Waiting, 1, k)
        BY <1>1, <1>4 DEF IsFirst
      <3> QED
        BY <3>1, <3>2, Zenon
    <2> HIDE DEF k
    <2>4. PICK i \in 1 .. Len(Waiting) :
             /\ i % 2 = 0
             /\ Waiting' = SubSeq(Waiting, i + 1, Len(Waiting))
             /\ Payloads' = Append(Payloads, SubSeq(Waiting, 1, i))
      BY <1>4, <2>1, <2>2, <2>3, Zenon
    <2>5. Pipe!Sends(i)
      BY <2>4 DEF Pipe!Sends, Waiting, Payloads
    <2>6. i \in 1 .. Len(IF Gate = "open" THEN residual \o queue ELSE <<>>)
      BY Zenon DEF Waiting
    <2>7. Pipe!PipeNext
      BY <2>5, <2>6, Zenon DEF Pipe!PipeNext
    <2> QED
      BY <2>7
  <1> QED
    BY <1>6, <1>7

LEMMA PipeStep ==
    AudioTypeOK /\ [Next]_vars => Pipe!PipeNext \/ UNCHANGED Pipe!pipeVars
  <1> SUFFICES ASSUME AudioTypeOK, [Next]_vars
               PROVE  Pipe!PipeNext \/ UNCHANGED Pipe!pipeVars
    OBVIOUS
  <1>0. GateAt /\ GateAt'
    BY GateMeans, GateMeansNext
  <1> USE <1>0 DEF GateAt
  <1>1. CASE \E d \in DialBodies : SlDials(d)
    BY <1>1, WrittenTyped, PipeFills DEF SlDials, runVars, relayVars
  <1>2. CASE SlPlays
    <2>1. samples + 1 \in 1 .. SampleLimit
      BY <1>2, CounterTypes DEF SlPlays, AudioTypeOK
    <2> QED
      BY <1>2, <2>1, WrittenTyped, PipeFills
         DEF SlPlays, runVars, relayVars
  <1>3. CASE SlReads \/ SlCloses \/ SilenceTick \/ SilenceWritten
    BY <1>3, PipeRests DEF SlReads, SlCloses, SilenceTick,
       SilenceWritten, WritesSilence, runVars, relayVars
  <1>4. CASE \/ Starts \/ DialEof \/ SilenceFails \/ SetupEnds \/ ConnectFails
    BY <1>4, PipeRests DEF Starts, DialEof, SilenceFails, SetupEnds,
       ConnectFails, Selects, LoopTop, relayVars
  <1>5. CASE Dialling \/ Draining
    BY <1>5, PipeRests DEF Dialling, Draining, DialReads, DrainReads,
       Selects, LoopTop, relayVars, runVars
  <1>6. CASE StartsRelay
    BY <1>6, GateMoves DEF StartsRelay
  <1>7. CASE HungUp
    BY <1>7, GateMoves, PipeRests DEF HungUp, LoopTop, relayVars
  <1>8. CASE Relaying
    <2>1. PICK n \in ReadSizes(RelayBuf) : RelayReads(n)
      BY <1>8 DEF Relaying
    <2>2. Gate = "open" /\ Gate' = "open"
      BY <2>1 DEF RelayReads, Runs, runVars
    <2> QED
      BY <2>1, <2>2, PipeSends
  <1>9. CASE \/ RelayReadFails \/ RtpWriteFails
             \/ \E n \in ReadSizes(RelayBuf) : RelaySendFails(n)
    BY <1>9, GateMoves DEF RelayReadFails, RtpWriteFails,
       RelaySendFails, RelayFails, Runs
  <1>10. CASE RelayEof
    <2>1. Gate = "open" /\ Gate' = "ended" /\ sent' = sent /\ queue = <<>>
      BY <1>10 DEF RelayEof, Runs, runVars
    <2>2. Waiting = residual /\ Len(residual) < 2
      <3>1. residual \o queue = residual
        BY <2>1, ConcatEmptySeq DEF AudioTypeOK
      <3>2. Waiting = residual \o queue
        BY <2>1, Zenon DEF Waiting
      <3> QED
        BY <3>1, <3>2 DEF AudioTypeOK
    <2> QED
      BY <2>1, <2>2, GateMoves
  <1>11. CASE RtpArrives \/ RtpWritten \/ RtpRecvFails
    BY <1>11, PipeRests DEF RtpArrives, RtpWritten, RtpRecvFails,
       Runs, runVars
  <1>12. CASE RelayReturns
    BY <1>12, GateMoves DEF RelayReturns, relayVars
  <1>13. CASE Stopped \/ UNCHANGED vars
    BY <1>13, PipeRests DEF Stopped, vars, runVars, relayVars
  <1> QED
    BY <1>1, <1>2, <1>3, <1>4, <1>5, <1>6, <1>7, <1>8, <1>9, <1>10, <1>11,
       <1>12, <1>13 DEF Next, Slmodemd

(* Every byte that slmodemd wrote while the relay reads it leaves in order,*)
(* once, in packets of whole samples, for any sizes of reads and buffers.  *)
THEOREM AudioIsCarried == Spec => AudioArrivesInOrder
  <1>1. Init => Pipe!PipeInit
    <2> SUFFICES ASSUME Init PROVE Pipe!PipeInit
      OBVIOUS
    <2>1. Gate = "shut"
      BY GateMeans DEF Init, GateAt
    <2>2. Payloads = <<>>
      BY DEF Init, Payloads
    <2> QED
      BY <2>1, <2>2 DEF Pipe!PipeInit, Payloads
  <1>2. AudioTypeOK /\ [Next]_vars => [Pipe!PipeNext]_Pipe!pipeVars
    BY PipeStep
  <1> QED
    BY <1>1, <1>2, AudioTypeInvariant, PTL
       DEF Spec, AudioArrivesInOrder, Pipe!PipeSpec
----------------------------------------------------------------------------
(* Sums and remainders.                                                    *)
LEMMA TimesAtLeast ==
    ASSUME NEW m \in Nat \ {0}, NEW d \in Nat \ {0}
    PROVE  m * d >= m
  OBVIOUS

LEMMA ModUnique ==
    ASSUME NEW m \in Nat \ {0}, NEW y \in Nat, NEW k \in Nat, NEW r \in 0 .. m - 1,
           y = (m * k) + r
    PROVE  y % m = r
  <1> DEFINE d == y \div m
             s == y % m
  <1>1. d \in Int /\ s \in 0 .. m - 1 /\ y = (m * d) + s
    OBVIOUS
  <1> HIDE DEF d, s
  <1>2. m * k + r = m * d + s
    BY <1>1
  <1>3. CASE k > d
    <2>1. m * (k - d) >= m
      BY <1>1, <1>3, TimesAtLeast
    <2>2. m * (k - d) = s - r
      BY <1>1, <1>2
    <2> QED
      BY <1>1, <2>1, <2>2
  <1>4. CASE k < d
    <2>1. m * (d - k) >= m
      BY <1>1, <1>4, TimesAtLeast
    <2>2. m * (d - k) = r - s
      BY <1>1, <1>2
    <2> QED
      BY <1>1, <2>1, <2>2
  <1>5. CASE k = d
    BY <1>1, <1>2, <1>5 DEF s
  <1> QED
    BY <1>1, <1>3, <1>4, <1>5

LEMMA ModAdd ==
    ASSUME NEW m \in Nat \ {0}, NEW a \in Nat, NEW b \in Nat
    PROVE  ((a % m) + b) % m = (a + b) % m
  <1> DEFINE q == a \div m
             x == (a % m) + b
             e == x \div m
             r == x % m
  <1>1. q \in Nat /\ a % m \in 0 .. m - 1 /\ a = m * q + (a % m)
    OBVIOUS
  <1>2. x \in Nat
    BY <1>1
  <1> HIDE DEF x
  <1>3. e \in Nat /\ r \in 0 .. m - 1 /\ x = m * e + r
    BY <1>2
  <1> HIDE DEF q, e, r
  <1>4. a + b = m * q + x
    BY <1>1 DEF x
  <1>5. a + b = m * (q + e) + r
    BY <1>1, <1>2, <1>3, <1>4
  <1>6. (a + b) % m = r
    <2>1. a + b \in Nat /\ q + e \in Nat
      BY <1>1, <1>3
    <2> QED
      BY <1>3, <1>5, <2>1, ModUnique
  <1> QED
    BY <1>6 DEF r, x

----------------------------------------------------------------------------
(* A second relay would start its numbers anew, but there is none: a relay *)
(* that comes to its end leaves nothing to read, and so no line to dial.   *)
OneRelay ==
    /\ phase = "relay" /\ "sl_to_rtp" \notin halves => closed /\ queue = <<>>
    /\ phase \in {"hangup", "dial"} /\ sent # <<>> => closed /\ queue = <<>>
    /\ phase \in {"start", "setup", "connect"} => sent = <<>>

LEMMA OneRelayStep == AudioTypeOK /\ OneRelay /\ [Next]_vars => OneRelay'
  <1> SUFFICES ASSUME AudioTypeOK, OneRelay, [Next]_vars PROVE OneRelay'
    OBVIOUS
  <1> USE DEF OneRelay
  <1>1. CASE Slmodemd
    BY <1>1 DEF Slmodemd, SlDials, SlPlays, SlReads, SlCloses, runVars, relayVars
  <1>2. CASE Starts \/ DialEof \/ SilenceTick \/ SilenceWritten \/ ConnectFails
    BY <1>2 DEF Starts, DialEof, SilenceTick, SilenceWritten, WritesSilence,
       ConnectFails, Selects, LoopTop, runVars, relayVars, slVars
  <1>3. CASE SilenceFails \/ SetupEnds
    BY <1>3 DEF SilenceFails, SetupEnds, Selects, LoopTop, relayVars, slVars
  <1>4. CASE Dialling
    <2>1. PICK n \in ReadSizes(DialBuf) : DialReads(n)
      BY <1>4 DEF Dialling
    <2>2. n \in 1 .. Len(queue)
      BY DEF ReadSizes
    <2>3. queue # <<>>
      BY <2>2
    <2>4. sent = <<>> /\ sent' = sent /\ phase' \in {"dial", "setup", "over"}
      BY <2>1, <2>3 DEF DialReads, Selects, LoopTop, runVars, relayVars
    <2> QED
      BY <2>4
  <1>5. CASE Draining \/ StartsRelay \/ HungUp
    BY <1>5 DEF Draining, DrainReads, StartsRelay, HungUp, Selects, LoopTop,
       runVars, relayVars, slVars
  <1>6. CASE Relaying
    BY <1>6 DEF Relaying, RelayReads, Runs, runVars, slVars
  <1>7. CASE \/ RelayReadFails \/ RtpWriteFails
             \/ \E n \in ReadSizes(RelayBuf) : RelaySendFails(n)
    BY <1>7 DEF RelayReadFails, RtpWriteFails, RelaySendFails, RelayFails
  <1>8. CASE RelayEof \/ RtpArrives \/ RtpWritten \/ RtpRecvFails
    BY <1>8 DEF RelayEof, RtpArrives, RtpWritten, RtpRecvFails, Runs, runVars,
       slVars
  <1>9. CASE RelayReturns \/ Stopped \/ UNCHANGED vars
    BY <1>9 DEF RelayReturns, Stopped, vars, runVars, relayVars, slVars
  <1> QED
    BY <1>1, <1>2, <1>3, <1>4, <1>5, <1>6, <1>7, <1>8, <1>9 DEF Next

(* RtpSender continues the numbers of the packets that went out.           *)
Full(i) == Len(sent[i].payload) = 2 * FrameSamples

Continues ==
    phase = "relay" =>
        /\ sent # <<>> => rtp.seq = (sent[Len(sent)].seq + 1) % SeqModulus
        /\ (\A j \in 1 .. Len(sent) : Full(j))
              => rtp.timestamp = (Len(sent) * FrameSamples) % TimestampModulus

(* Nothing but the relay sends, and only its start makes a new sender.     *)
LEMMA NumbersRest ==
    ASSUME Continues, HeadersOrderPackets, sent' = sent,
           phase' = "relay" => phase = "relay" /\ rtp' = rtp
    PROVE  Continues' /\ HeadersOrderPackets'
  BY DEF Continues, HeadersOrderPackets, Full

(* One more packet, with the numbers that are due.                         *)
LEMMA NumbersContinue ==
    ASSUME AudioTypeOK, Continues, HeadersOrderPackets, phase = "relay",
           NEW slin \in Seq(Bytes),
           sent' = Append(sent, Packet(slin)), rtp' = Advanced
    PROVE  Continues' /\ HeadersOrderPackets'
  <1> DEFINE l == Len(sent)
             p == Packet(slin)
  <1>1. /\ l \in Nat /\ DOMAIN sent = 1 .. l
        /\ \A i \in 1 .. l : sent[i] \in Packets
    BY LenProperties, ElementOfSeq DEF AudioTypeOK
  <1>2. p \in Packets /\ p.seq = rtp.seq /\ p.timestamp = rtp.timestamp
    BY PacketTyped DEF Packet
  <1>3. /\ Len(sent') = l + 1 /\ DOMAIN sent' = 1 .. l + 1
        /\ \A i \in 1 .. l : sent'[i] = sent[i]
        /\ sent'[l + 1] = p
    <2>1. sent \in Seq(Packets) /\ sent' = Append(sent, p)
      BY DEF AudioTypeOK
    <2>2. Append(sent, p) \in Seq(Packets)
      BY <1>2, <2>1, AppendProperties
    <2> QED
      BY <1>1, <1>2, <2>1, <2>2, AppendProperties, LenProperties
  <1>4. /\ rtp.seq \in Nat /\ rtp.timestamp \in Nat
        /\ rtp.timestamp \in 0 .. TimestampModulus - 1
        /\ rtp'.seq = (rtp.seq + 1) % SeqModulus
        /\ rtp'.timestamp = (rtp.timestamp + FrameSamples) % TimestampModulus
    BY CounterTypes DEF AudioTypeOK, Advanced
  <1> HIDE DEF l, p
  <1>5. Continues'
    <2>1. rtp'.seq = (sent'[Len(sent')].seq + 1) % SeqModulus
      BY <1>2, <1>3, <1>4
    <2>2. ASSUME \A j \in 1 .. Len(sent') : Full(j)'
          PROVE  rtp'.timestamp = (Len(sent') * FrameSamples) % TimestampModulus
      <3>1. \A j \in 1 .. l : Full(j)
        BY <1>1, <1>3, <2>2 DEF Full
      <3>2. rtp.timestamp = (l * FrameSamples) % TimestampModulus
        BY <3>1 DEF Continues, l
      <3>3. l * FrameSamples \in Nat /\ (l + 1) * FrameSamples
                                          = l * FrameSamples + FrameSamples
        BY <1>1, CounterTypes
      <3>4. (((l * FrameSamples) % TimestampModulus) + FrameSamples)
               % TimestampModulus
             = (l * FrameSamples + FrameSamples) % TimestampModulus
        BY <3>3, CounterTypes, ModAdd
      <3> QED
        BY <1>3, <1>4, <3>2, <3>3, <3>4
    <2> QED
      BY <2>1, <2>2 DEF Continues
  <1>6. HeadersOrderPackets'
    <2> SUFFICES ASSUME NEW i \in 1 .. l + 1
                 PROVE  /\ i > 1 => sent'[i].seq
                                       = (sent'[i - 1].seq + 1) % SeqModulus
                        /\ (\A j \in 1 .. i - 1 : Full(j)')
                             => sent'[i].timestamp
                                  = ((i - 1) * FrameSamples) % TimestampModulus
      BY <1>3 DEF HeadersOrderPackets, Full
    <2>1. CASE i <= l
      <3>1. i \in DOMAIN sent
        BY <1>1, <2>1
      <3>2. i > 1 => sent[i].seq = (sent[i - 1].seq + 1) % SeqModulus
        BY <3>1 DEF HeadersOrderPackets
      <3>3. (\A j \in 1 .. i - 1 : Full(j))
              => sent[i].timestamp = ((i - 1) * FrameSamples) % TimestampModulus
        BY <3>1, Zenon DEF HeadersOrderPackets, Full
      <3>4. sent'[i] = sent[i]
        BY <1>1, <1>3, <2>1
      <3>5. i > 1 => sent'[i - 1] = sent[i - 1]
        BY <1>1, <1>3, <2>1
      <3>6. (\A j \in 1 .. i - 1 : Full(j)') => \A j \in 1 .. i - 1 : Full(j)
        BY <1>1, <1>3, <2>1 DEF Full
      <3> QED
        BY <3>2, <3>3, <3>4, <3>5, <3>6
    <2>2. CASE i = l + 1
      <3>1. i > 1 => sent'[i].seq = (sent'[i - 1].seq + 1) % SeqModulus
        <4> SUFFICES ASSUME i > 1
                     PROVE  sent'[i].seq = (sent'[i - 1].seq + 1) % SeqModulus
          OBVIOUS
        <4>1. l \in 1 .. l /\ i - 1 = l /\ sent # <<>>
          BY <1>1, <2>2 DEF l
        <4>2. rtp.seq = (sent[l].seq + 1) % SeqModulus
          BY <4>1 DEF Continues, l
        <4>3. sent'[i].seq = rtp.seq /\ sent'[i - 1] = sent[l]
          BY <1>2, <1>3, <2>2, <4>1
        <4> QED
          BY <4>2, <4>3
      <3>2. ASSUME \A j \in 1 .. i - 1 : Full(j)'
            PROVE  sent'[i].timestamp = ((i - 1) * FrameSamples) % TimestampModulus
        <4>1. i - 1 = l
          BY <1>1, <2>2
        <4>2. \A j \in 1 .. l : Full(j)
          BY <1>1, <1>3, <3>2, <4>1 DEF Full
        <4>3. rtp.timestamp = (l * FrameSamples) % TimestampModulus
          BY <4>2 DEF Continues, l
        <4> QED
          BY <1>2, <1>3, <2>2, <4>1, <4>3
      <3> QED
        BY <3>1, <3>2
    <2> QED
      BY <1>1, <2>1, <2>2
  <1> QED
    BY <1>5, <1>6

LEMMA NumbersStep ==
    /\ AudioTypeOK /\ OneRelay /\ Continues /\ HeadersOrderPackets /\ [Next]_vars
    => Continues' /\ HeadersOrderPackets'
  <1> SUFFICES ASSUME AudioTypeOK, OneRelay, Continues, HeadersOrderPackets,
                      [Next]_vars
               PROVE  Continues' /\ HeadersOrderPackets'
    OBVIOUS
  <1>1. CASE Slmodemd
    BY <1>1, NumbersRest DEF Slmodemd, SlDials, SlPlays, SlReads, SlCloses,
       runVars, relayVars
  <1>2. CASE \/ Starts \/ DialEof \/ SilenceTick \/ SilenceWritten
             \/ SilenceFails \/ SetupEnds \/ ConnectFails \/ HungUp
    BY <1>2, NumbersRest DEF Starts, DialEof, SilenceTick, SilenceWritten,
       WritesSilence, SilenceFails, SetupEnds, ConnectFails, HungUp, Selects,
       LoopTop, runVars, relayVars
  <1>3. CASE Dialling \/ Draining
    BY <1>3, NumbersRest DEF Dialling, Draining, DialReads, DrainReads, Selects,
       LoopTop, runVars, relayVars
  <1>4. CASE StartsRelay
    <2>1. sent = <<>> /\ sent' = sent /\ rtp' = NewRtp
      BY <1>4 DEF StartsRelay, OneRelay
    <2>2. (0 * FrameSamples) % TimestampModulus = 0
      BY CounterTypes
    <2>3. Len(sent') = 0 /\ rtp'.timestamp = 0
      BY <2>1 DEF NewRtp
    <2>4. Continues'
      BY <2>1, <2>2, <2>3 DEF Continues
    <2>5. HeadersOrderPackets'
      BY <2>1 DEF HeadersOrderPackets
    <2> QED
      BY <2>4, <2>5
  <1>5. CASE Relaying
    <2>1. PICK n \in ReadSizes(RelayBuf) : RelayReads(n)
      BY <1>5 DEF Relaying
    <2> DEFINE slin == Aligned(residual \o Taken(n)).slin
    <2>2. slin \in Seq(Bytes)
      BY RelayTurn
    <2>3. /\ phase = "relay" /\ phase' = "relay"
          /\ \/ sent' = sent /\ rtp' = rtp
             \/ sent' = Append(sent, Packet(slin)) /\ rtp' = Advanced
      BY <2>1 DEF RelayReads, Runs, runVars
    <2> HIDE DEF slin
    <2> QED
      BY <2>2, <2>3, NumbersRest, NumbersContinue
  <1>6. CASE \/ RelayReadFails \/ RtpWriteFails
             \/ \E n \in ReadSizes(RelayBuf) : RelaySendFails(n)
    BY <1>6, NumbersRest DEF RelayReadFails, RtpWriteFails, RelaySendFails,
       RelayFails
  <1>7. CASE RelayEof \/ RtpArrives \/ RtpWritten \/ RtpRecvFails
    BY <1>7, NumbersRest DEF RelayEof, RtpArrives, RtpWritten, RtpRecvFails,
       runVars
  <1>8. CASE RelayReturns \/ Stopped \/ UNCHANGED vars
    BY <1>8, NumbersRest DEF RelayReturns, Stopped, vars, runVars, relayVars
  <1> QED
    BY <1>1, <1>2, <1>3, <1>4, <1>5, <1>6, <1>7, <1>8 DEF Next

(* The headers of RtpSender put the packets back in order, for any moduli  *)
(* and any length of frame, across the wrap of either counter.             *)
THEOREM PacketsInOrder == Spec => []HeadersOrderPackets
  <1>1. Init => OneRelay /\ Continues /\ HeadersOrderPackets
    BY DEF Init, OneRelay, Continues, HeadersOrderPackets
  <1>2. /\ AudioTypeOK /\ OneRelay /\ Continues /\ HeadersOrderPackets
        /\ [Next]_vars
        => OneRelay' /\ Continues' /\ HeadersOrderPackets'
    BY OneRelayStep, NumbersStep
  <1> QED
    BY <1>1, <1>2, AudioTypeInvariant, PTL DEF Spec
----------------------------------------------------------------------------
(* What goes out is never empty, and no longer than a read and an odd byte.*)
Bounded(slin) == slin # <<>> /\ Len(slin) \in 0 .. RelayBuf + 1

BoundedSends == \A i \in DOMAIN sent : Bounded(sent[i].payload)

LEMMA BoundedAppended ==
    ASSUME AudioTypeOK, BoundedSends, NEW s \in Seq(Bytes), Bounded(s),
           sent' = Append(sent, Packet(s))
    PROVE  BoundedSends'
  <1>1. sent \in Seq(Packets) /\ Packet(s) \in Packets /\ Packet(s).payload = s
    BY PacketTyped DEF AudioTypeOK
  <1>2. /\ DOMAIN sent = 1 .. Len(sent) /\ Len(sent) \in Nat
        /\ DOMAIN sent' = 1 .. Len(sent) + 1
        /\ \A i \in 1 .. Len(sent) : sent'[i] = sent[i]
        /\ sent'[Len(sent) + 1] = Packet(s)
    BY <1>1, AppendProperties, LenProperties
  <1>3. ASSUME NEW i \in DOMAIN sent' PROVE Bounded(sent'[i].payload)
    <2>1. CASE i \in 1 .. Len(sent)
      BY <1>2, <2>1 DEF BoundedSends
    <2>2. CASE i = Len(sent) + 1
      BY <1>1, <1>2, <2>2
    <2> QED
      BY <1>2, <2>1, <2>2
  <1> QED
    BY <1>3 DEF BoundedSends, Bounded

LEMMA BoundedStep == AudioTypeOK /\ BoundedSends /\ [Next]_vars => BoundedSends'
  <1> SUFFICES ASSUME AudioTypeOK, BoundedSends, [Next]_vars
               PROVE  BoundedSends'
    OBVIOUS
  <1>1. CASE sent' = sent
    BY <1>1 DEF BoundedSends, Bounded
  <1>2. CASE Relaying
    <2>1. PICK n \in ReadSizes(RelayBuf) : RelayReads(n)
      BY <1>2 DEF Relaying
    <2> DEFINE buf == Aligned(residual \o Taken(n))
    <2>2. buf.slin \in Seq(Bytes) /\ Len(buf.slin) \in 0 .. RelayBuf + 1
      BY RelayTurn
    <2>3. \/ sent' = sent
          \/ buf.slin # <<>> /\ sent' = Append(sent, Packet(buf.slin))
      BY <2>1 DEF RelayReads
    <2> HIDE DEF buf
    <2>4. CASE buf.slin # <<>> /\ sent' = Append(sent, Packet(buf.slin))
      BY <2>2, <2>4, BoundedAppended DEF Bounded
    <2> QED
      BY <1>1, <2>3, <2>4
  <1>3. sent' = sent \/ Relaying
    BY DEF Next, Slmodemd, SlDials, SlPlays, SlReads, SlCloses, Starts,
       Dialling, DialReads, DialEof, SilenceTick, SilenceWritten,
       WritesSilence, SilenceFails, Draining, DrainReads, SetupEnds,
       StartsRelay, ConnectFails, HungUp, RelayEof, RelayReadFails,
       RelaySendFails, RelayFails, RtpArrives, RtpWritten, RtpWriteFails,
       RtpRecvFails, RelayReturns, Stopped, vars, relayVars
  <1> QED
    BY <1>1, <1>2, <1>3

(* The assertions of send_packet, whose payload has a byte for each sample.*)
Sendable(s) == s # <<>> /\ Len(s) \div 2 <= 1500 - 12

MaySend == \A i \in DOMAIN sent : Sendable(sent[i].payload)

LEMMA ReadsAreSendable ==
    ASSUME RelayBuf <= 2048, NEW s, Bounded(s)
    PROVE  Sendable(s)
  <1> DEFINE k == Len(s)
  <1>1. s # <<>> /\ k \in 0 .. RelayBuf + 1
    BY DEF Bounded
  <1> HIDE DEF k
  <1>2. k \div 2 <= 1500 - 12
    BY <1>1, CounterTypes
  <1> QED
    BY <1>1, <1>2 DEF k, Sendable

(* The relay reads into 2048 bytes, and an odd byte may be left of the     *)
(* read before: what comes out of that never fails an assertion of         *)
(* send_packet, which would end the bridge in the middle of a call.        *)
THEOREM RelayMaySend == ASSUME RelayBuf <= 2048 PROVE Spec => []MaySend
  <1>1. Init => BoundedSends
    BY DEF Init, BoundedSends
  <1>2. BoundedSends => MaySend
    <2> SUFFICES ASSUME BoundedSends, NEW i \in DOMAIN sent
                 PROVE  Sendable(sent[i].payload)
      BY DEF MaySend
    <2>1. Bounded(sent[i].payload)
      BY DEF BoundedSends
    <2> QED
      BY <2>1, ReadsAreSendable
  <1> QED
    BY <1>1, <1>2, AudioTypeInvariant, BoundedStep, PTL DEF Spec
----------------------------------------------------------------------------
(* wait_for_dial_string: what it makes of a read, byte by byte.            *)
Unfinished(l) == \A i \in 1 .. Len(l) : ~IsNewline(l[i])

LinesHeard == {l \in Seq(Bytes) : Len(l) <= LineBufLimit /\ Unfinished(l)}

Hearings == [line : LinesHeard, dial : Seq(Bytes)]

LEMMA LineHeard ==
    ASSUME NEW l \in LinesHeard
    PROVE  /\ <<>> \in LinesHeard /\ DialIn(l) \in Seq(Bytes)
           /\ l \in Seq(Bytes) /\ Len(l) \in Nat /\ Len(l) <= LineBufLimit
           /\ Unfinished(l)
           /\ \A b \in Bytes :
                 /\ Append(l, b) \in Seq(Bytes)
                 /\ ~IsNewline(b) /\ Len(l) + 1 <= LineBufLimit
                      => Append(l, b) \in LinesHeard
  <1>0. LineBufLimit \in Nat \ {0}
    BY SlSocketAssumption
  <1>1. /\ l \in Seq(Bytes) /\ Len(l) \in Nat /\ Len(l) <= LineBufLimit
        /\ Unfinished(l)
    BY LenProperties DEF LinesHeard
  <1>2. <<>> \in LinesHeard
    BY <1>0 DEF LinesHeard, Unfinished
  <1>3. DialIn(l) \in Seq(Bytes)
    BY <1>1, HeadTailProperties, EmptySeq DEF DialIn
  <1>4. ASSUME NEW b \in Bytes
        PROVE  /\ Append(l, b) \in Seq(Bytes)
               /\ ~IsNewline(b) /\ Len(l) + 1 <= LineBufLimit
                    => Append(l, b) \in LinesHeard
    <2> DEFINE a == Append(l, b)
    <2>1. /\ a \in Seq(Bytes) /\ Len(a) = Len(l) + 1
          /\ \A i \in 1 .. Len(l) : a[i] = l[i]
          /\ a[Len(l) + 1] = b
      BY <1>1, AppendProperties
    <2> HIDE DEF a
    <2>2. ASSUME ~IsNewline(b), NEW i \in 1 .. Len(a) PROVE ~IsNewline(a[i])
      <3>1. CASE i \in 1 .. Len(l)
        BY <1>1, <2>1, <3>1 DEF Unfinished
      <3>2. CASE i = Len(l) + 1
        BY <2>1, <2>2, <3>2
      <3> QED
        BY <1>1, <2>1, <3>1, <3>2
    <2>3. ~IsNewline(b) => Unfinished(a)
      BY <2>2 DEF Unfinished
    <2>4. /\ a \in Seq(Bytes)
          /\ ~IsNewline(b) /\ Len(l) + 1 <= LineBufLimit => a \in LinesHeard
      BY <2>1, <2>3 DEF LinesHeard
    <2> QED
      BY <2>4 DEF a
  <1> QED
    BY <1>1, <1>2, <1>3, <1>4

IsHearing(f, start, bytes) ==
    f = [k \in 0 .. Len(bytes) |-> IF k = 0 THEN start
                                   ELSE HearsByte(f[k - 1], bytes[k])]

LEMMA HearsByteTyped ==
    ASSUME NEW heard \in Hearings, NEW b \in Bytes
    PROVE  HearsByte(heard, b) \in Hearings
  <1> DEFINE l == heard.line
  <1>1. /\ l \in LinesHeard /\ heard.dial \in Seq(Bytes)
        /\ \A x : [heard EXCEPT !.line = x] = [line |-> x, dial |-> heard.dial]
    BY DEF Hearings
  <1>2. \A x \in LinesHeard, d \in Seq(Bytes) : [line |-> x, dial |-> d] \in Hearings
    BY DEF Hearings
  <1> HIDE DEF l
  <1>3. /\ <<>> \in LinesHeard /\ DialIn(l) \in Seq(Bytes)
        /\ Len(l) \in Nat /\ LineBufLimit \in Nat
        /\ ~IsNewline(b) /\ Len(l) + 1 <= LineBufLimit
             => Append(l, b) \in LinesHeard
    BY <1>1, LineHeard, SlSocketAssumption
  <1>4. ~(Len(l) + 1 > LineBufLimit) => Len(l) + 1 <= LineBufLimit
    BY <1>3
  <1> QED
    BY <1>1, <1>2, <1>3, <1>4, Zenon DEF HearsByte, l

LEMMA HearingExists ==
    ASSUME NEW start \in Hearings, NEW bytes \in Seq(Bytes)
    PROVE  \E f \in [0 .. Len(bytes) -> Hearings] : IsHearing(f, start, bytes)
  <1> DEFINE n == Len(bytes)
             T == [p \in Hearings \X (1 .. n) |-> HearsByte(p[1], bytes[p[2]])]
  <1>1. n \in Nat /\ \A k \in 1 .. n : bytes[k] \in Bytes
    BY LenProperties, ElementOfSeq
  <1> HIDE DEF n
  <1>2. \A h \in Hearings, k \in 1 .. n : T[<<h, k>>] = HearsByte(h, bytes[k])
    OBVIOUS
  <1>3. T \in [Hearings \X (1 .. n) -> Hearings]
    BY <1>1, HearsByteTyped
  <1> HIDE DEF T
  <1>4. PICK f \in [0 .. n -> Hearings] : IsRun(f, start, T, n)
    BY <1>1, <1>3, RunExists
  <1>5. ASSUME NEW k \in 0 .. n
        PROVE  f[k] = IF k = 0 THEN start ELSE HearsByte(f[k - 1], bytes[k])
    <2>1. f[k] = IF k = 0 THEN start ELSE T[<<f[k - 1], k>>]
      BY <1>4 DEF IsRun
    <2>2. k # 0 => k - 1 \in 0 .. n /\ k \in 1 .. n
      BY <1>1
    <2> QED
      BY <1>2, <2>1, <2>2
  <1>6. IsHearing(f, start, bytes)
    BY <1>5 DEF IsHearing, n
  <1> QED
    BY <1>6 DEF n

LEMMA HearingUnique ==
    ASSUME NEW start, NEW bytes \in Seq(Bytes), NEW f, NEW g,
           IsHearing(f, start, bytes), IsHearing(g, start, bytes)
    PROVE  f = g
  <1> DEFINE n == Len(bytes)
  <1>1. n \in Nat
    BY LenProperties
  <1>2. /\ \A k \in 0 .. n : f[k] = IF k = 0 THEN start
                                  ELSE HearsByte(f[k - 1], bytes[k])
        /\ \A k \in 0 .. n : g[k] = IF k = 0 THEN start
                                  ELSE HearsByte(g[k - 1], bytes[k])
    BY Zenon DEF IsHearing
  <1> HIDE DEF n
  <1>3. 0 \in 0 .. n /\ \A k \in 1 .. n : k \in 0 .. n /\ k # 0
    BY <1>1
  <1>4. f[0] = g[0]
    BY <1>2, <1>3
  <1>5. \A k \in 1 .. n : f[k - 1] = g[k - 1] => f[k] = g[k]
    BY <1>2, <1>3
  <1>6. \A k \in 0 .. n : f[k] = g[k]
    BY <1>1, <1>4, <1>5, Agree, Zenon
  <1>7. /\ f = [k \in 0 .. n |-> f[k]]
        /\ g = [k \in 0 .. n |-> g[k]]
    <2>1. ASSUME NEW e, IsHearing(e, start, bytes)
          PROVE  e = [k \in 0 .. n |-> e[k]]
      <3> DEFINE body == [k \in 0 .. n |-> IF k = 0 THEN start
                                         ELSE HearsByte(e[k - 1], bytes[k])]
      <3>1. body = [k \in 0 .. n |-> body[k]]
        OBVIOUS
      <3>2. e = body
        BY <2>1, Zenon DEF IsHearing, n
      <3> HIDE DEF body
      <3> QED
        BY <3>1, <3>2
    <2> QED
      BY <2>1
  <1> QED
    BY <1>6, <1>7

LEMMA HeardOverRuns ==
    ASSUME NEW start \in Hearings, NEW bytes \in Seq(Bytes)
    PROVE  \E f \in [0 .. Len(bytes) -> Hearings] :
              IsHearing(f, start, bytes) /\ HeardOver(start, bytes) = f[Len(bytes)]
  <1> DEFINE h == CHOOSE h : IsHearing(h, start, bytes)
  <1>1. PICK f \in [0 .. Len(bytes) -> Hearings] : IsHearing(f, start, bytes)
    BY HearingExists
  <1>2. IsHearing(h, start, bytes)
    BY <1>1, Zenon
  <1>3. HeardOver(start, bytes) = h[Len(bytes)]
    BY Zenon DEF HeardOver, IsHearing
  <1> HIDE DEF h
  <1>4. h = f
    BY <1>1, <1>2, HearingUnique
  <1> QED
    BY <1>1, <1>3, <1>4

(* Both parts of a read, with their types.                                 *)
LEMMA ReadTyped ==
    ASSUME NEW b, NEW n \in ReadSizes(b), queue \in Seq(Bytes)
    PROVE  /\ n \in 1 .. Len(queue) /\ Len(queue) \in Nat
           /\ Taken(n) \in Seq(Bytes) /\ Len(Taken(n)) = n
           /\ \A k \in 1 .. n : Taken(n)[k] = queue[k]
           /\ Left(n) \in Seq(Bytes) /\ Len(Left(n)) = Len(queue) - n
           /\ \A k \in 1 .. Len(queue) - n : Left(n)[k] = queue[n + k]
  <1>1. n \in 1 .. Len(queue) /\ Len(queue) \in Nat
    BY LenProperties DEF ReadSizes
  <1>2. /\ 1 \in 1 .. Len(queue) + 1 /\ n \in 1 - 1 .. Len(queue)
        /\ n + 1 \in 1 .. Len(queue) + 1
        /\ Len(queue) \in (n + 1) - 1 .. Len(queue)
    BY <1>1
  <1>3. /\ SubSeq(queue, 1, n) \in Seq(Bytes)
        /\ Len(SubSeq(queue, 1, n)) = n - 1 + 1
        /\ \A k \in 1 .. n - 1 + 1 : SubSeq(queue, 1, n)[k] = queue[1 + k - 1]
    BY <1>2, CutTyped
  <1>4. /\ SubSeq(queue, n + 1, Len(queue)) \in Seq(Bytes)
        /\ Len(SubSeq(queue, n + 1, Len(queue))) = Len(queue) - (n + 1) + 1
        /\ \A k \in 1 .. Len(queue) - (n + 1) + 1 :
              SubSeq(queue, n + 1, Len(queue))[k] = queue[(n + 1) + k - 1]
    BY <1>2, CutTyped
  <1>5. /\ n - 1 + 1 = n /\ Len(queue) - (n + 1) + 1 = Len(queue) - n
        /\ \A k \in 1 .. n : 1 + k - 1 = k
        /\ \A k \in 1 .. Len(queue) - n : (n + 1) + k - 1 = n + k
    BY <1>1
  <1>6. /\ Taken(n) \in Seq(Bytes) /\ Len(Taken(n)) = n
        /\ \A k \in 1 .. n : Taken(n)[k] = queue[k]
    BY <1>3, <1>5, Zenon DEF Taken
  <1>7. /\ Left(n) \in Seq(Bytes) /\ Len(Left(n)) = Len(queue) - n
        /\ \A k \in 1 .. Len(queue) - n : Left(n)[k] = queue[n + k]
    BY <1>4, <1>5, Zenon DEF Left
  <1> QED
    BY <1>1, <1>6, <1>7

LEMMA HeardTyped ==
    ASSUME queue \in Seq(Bytes), line_buf \in LinesHeard,
           NEW b, NEW n \in ReadSizes(b)
    PROVE  Hears(Taken(n)).line \in LinesHeard /\ <<>> \in LinesHeard
  <1>1. /\ [line |-> line_buf, dial |-> <<>>] \in Hearings
        /\ Taken(n) \in Seq(Bytes) /\ Len(Taken(n)) \in Nat
    BY ReadTyped DEF Hearings
  <1>2. Hears(Taken(n)) \in Hearings
    <2>1. PICK f \in [0 .. Len(Taken(n)) -> Hearings] :
                 HeardOver([line |-> line_buf, dial |-> <<>>], Taken(n))
                    = f[Len(Taken(n))]
      BY <1>1, HeardOverRuns
    <2>2. f[Len(Taken(n))] \in Hearings
      BY <1>1
    <2> QED
      BY <2>1, <2>2 DEF Hears
  <1>3. Hears(Taken(n)).line \in LinesHeard
    BY <1>2 DEF Hearings
  <1> QED
    BY <1>3, LineHeard

(* What AudioTypeOK and Counted leave of the types.                        *)
SocketFlags ==
    /\ writing \in BOOLEAN /\ rtp_writing \in BOOLEAN /\ closed \in BOOLEAN
    /\ halves \subseteq {"sl_to_rtp", "rtp_to_sl"}

SocketBounds ==
    /\ Len(queue) <= Capacity /\ feed \in 0 .. FeedCapacity
    /\ line_buf \in LinesHeard /\ dialled \in 0 .. DialLimit

LEMMA SocketFlagsStep == SocketFlags /\ [Next]_vars => SocketFlags'
  <1> SUFFICES ASSUME SocketFlags, [Next]_vars PROVE SocketFlags'
    OBVIOUS
  <1> USE DEF SocketFlags
  <1>1. CASE Slmodemd
    BY <1>1, Zenon DEF Slmodemd, SlDials, SlPlays, SlReads, SlCloses, relayVars,
       slVars
  <1>2. CASE \/ Starts \/ DialEof \/ SetupEnds \/ ConnectFails \/ HungUp
             \/ RelayReturns \/ Dialling \/ Draining
    BY <1>2, Zenon DEF Starts, DialEof, SetupEnds, ConnectFails, HungUp,
       RelayReturns, Dialling, DialReads, Draining, DrainReads, relayVars, slVars
  <1>3. CASE SilenceTick \/ SilenceWritten \/ SilenceFails
    BY <1>3, Zenon DEF SilenceTick, SilenceWritten, SilenceFails, WritesSilence,
       relayVars, slVars
  <1>4. CASE \/ StartsRelay \/ Relaying \/ RelayReadFails \/ RtpWriteFails
             \/ \E n \in ReadSizes(RelayBuf) : RelaySendFails(n)
    BY <1>4, Zenon DEF StartsRelay, Relaying, RelayReads, RelayReadFails,
       RtpWriteFails, RelaySendFails, RelayFails, slVars
  <1>5. CASE RelayEof \/ RtpArrives \/ RtpWritten \/ RtpRecvFails
    BY <1>5, Zenon DEF RelayEof, RtpArrives, RtpWritten, RtpRecvFails, slVars
  <1>6. CASE Stopped \/ UNCHANGED vars
    BY <1>6, Zenon DEF Stopped, vars, relayVars, slVars
  <1> QED
    BY <1>1, <1>2, <1>3, <1>4, <1>5, <1>6, Zenon DEF Next

(* What a step may do to the bytes that wait, in either direction.         *)
QueueMoves ==
    \/ queue' = queue
    \/ \E d \in DialBodies : /\ queue' = queue \o DialLine(d)
                             /\ Len(queue) + Len(DialLine(d)) <= Capacity
    \/ /\ queue' = queue \o Sample(samples + 1) /\ samples < SampleLimit
       /\ Len(queue) + 2 <= Capacity
    \/ \E b, n : n \in ReadSizes(b) /\ queue' = Left(n)

FeedMoves == \/ feed' = feed
             \/ feed' = feed + 1 /\ feed < FeedCapacity
             \/ feed' = feed - 1 /\ feed > 0

LineMoves == \/ line_buf' = line_buf \/ line_buf' = <<>>
             \/ \E b, n : n \in ReadSizes(b) /\ line_buf' = Hears(Taken(n)).line

DialledMoves == \/ dialled' = dialled
                \/ dialled' = dialled + 1 /\ dialled < DialLimit

LEMMA SocketMoves ==
    [Next]_vars => QueueMoves /\ FeedMoves /\ LineMoves /\ DialledMoves
  <1> SUFFICES ASSUME [Next]_vars
               PROVE  QueueMoves /\ FeedMoves /\ LineMoves /\ DialledMoves
    OBVIOUS
  <1> USE DEF QueueMoves, FeedMoves, LineMoves, DialledMoves
  <1>1. CASE Slmodemd
    BY <1>1, Zenon DEF Slmodemd, SlDials, SlPlays, SlReads, SlCloses, slVars
  <1>2. CASE \/ Starts \/ DialEof \/ SetupEnds \/ ConnectFails \/ HungUp
             \/ RelayReturns \/ Draining
    BY <1>2, Zenon DEF Starts, DialEof, SetupEnds, ConnectFails, HungUp,
       RelayReturns, Draining, DrainReads, slVars
  <1>3. CASE Dialling
    BY <1>3, Zenon DEF Dialling, DialReads, slVars
  <1>4. CASE SilenceTick \/ SilenceWritten \/ SilenceFails
    BY <1>4, Zenon DEF SilenceTick, SilenceWritten, SilenceFails, WritesSilence,
       slVars
  <1>5. CASE \/ StartsRelay \/ Relaying \/ RelayReadFails \/ RtpWriteFails
             \/ \E n \in ReadSizes(RelayBuf) : RelaySendFails(n)
    BY <1>5, Zenon DEF StartsRelay, Relaying, RelayReads, RelayReadFails,
       RtpWriteFails, RelaySendFails, RelayFails, slVars
  <1>6. CASE RelayEof \/ RtpArrives \/ RtpWritten \/ RtpRecvFails
    BY <1>6, Zenon DEF RelayEof, RtpArrives, RtpWritten, RtpRecvFails, slVars
  <1>7. CASE Stopped \/ UNCHANGED vars
    BY <1>7, Zenon DEF Stopped, vars, slVars
  <1> QED
    BY <1>1, <1>2, <1>3, <1>4, <1>5, <1>6, <1>7, Zenon DEF Next

LEMMA SocketBoundsStep ==
    AudioTypeOK /\ SocketBounds /\ [Next]_vars => SocketBounds'
  <1> SUFFICES ASSUME AudioTypeOK, SocketBounds, [Next]_vars
               PROVE  SocketBounds'
    OBVIOUS
  <1>0. /\ FeedCapacity \in Nat /\ DialLimit \in Nat /\ Capacity \in Nat
        /\ queue \in Seq(Bytes) /\ Len(queue) \in Nat
        /\ line_buf \in LinesHeard /\ <<>> \in LinesHeard
    BY SlSocketAssumption, LenProperties, LineHeard DEF AudioTypeOK, SocketBounds
  <1>1. Len(queue') <= Capacity
    <2>1. CASE queue' = queue
      BY <2>1 DEF SocketBounds
    <2>2. ASSUME NEW d \in DialBodies, queue' = queue \o DialLine(d),
                 Len(queue) + Len(DialLine(d)) <= Capacity
          PROVE  Len(queue') <= Capacity
      BY <1>0, <2>2, WrittenTyped, ConcatProperties
    <2>3. CASE /\ queue' = queue \o Sample(samples + 1) /\ samples < SampleLimit
               /\ Len(queue) + 2 <= Capacity
      <3>1. samples + 1 \in 1 .. SampleLimit
        BY <2>3, CounterTypes DEF AudioTypeOK
      <3>2. Sample(samples + 1) \in Seq(Bytes)
        BY <3>1, WrittenTyped
      <3>3. Len(Sample(samples + 1)) = 2
        BY DEF Sample
      <3>4. Len(queue \o Sample(samples + 1))
              = Len(queue) + Len(Sample(samples + 1))
        BY <1>0, <3>2, ConcatProperties
      <3> QED
        BY <2>3, <3>3, <3>4, Zenon
    <2>4. ASSUME NEW b, NEW n \in ReadSizes(b), queue' = Left(n)
          PROVE  Len(queue') <= Capacity
      BY <1>0, <2>4, ReadTyped DEF SocketBounds
    <2> QED
      BY <2>1, <2>2, <2>3, <2>4, SocketMoves DEF QueueMoves
  <1>2. feed' \in 0 .. FeedCapacity
    BY <1>0, SocketMoves DEF FeedMoves, SocketBounds
  <1>3. line_buf' \in LinesHeard
    BY <1>0, SocketMoves, HeardTyped DEF LineMoves
  <1>4. dialled' \in 0 .. DialLimit
    BY <1>0, SocketMoves DEF DialledMoves, SocketBounds
  <1> QED
    BY <1>1, <1>2, <1>3, <1>4 DEF SocketBounds

LEMMA SocketInvariant == Spec => [](SocketFlags /\ SocketBounds)
  <1>1. Init => SocketFlags
    BY Zenon DEF Init, SocketFlags
  <1>2. Init => SocketBounds
    <2> SUFFICES ASSUME Init PROVE SocketBounds
      OBVIOUS
    <2>1. /\ FeedCapacity \in Nat /\ DialLimit \in Nat /\ Capacity \in Nat
          /\ LineBufLimit \in Nat
      BY SlSocketAssumption
    <2>2. <<>> \in LinesHeard /\ Len(<<>>) = 0
      BY <2>1 DEF LinesHeard, Unfinished
    <2>3. queue = <<>> /\ feed = 0 /\ line_buf = <<>> /\ dialled = 0
      BY Zenon DEF Init
    <2> QED
      BY <2>1, <2>2, <2>3 DEF SocketBounds
  <1> QED
    BY <1>1, <1>2, SocketFlagsStep, SocketBoundsStep, AudioTypeInvariant, PTL
       DEF Spec

(* The state of the socket stays in its types; no read makes a line longer *)
(* than LINE_BUF_LIMIT, and neither direction holds more than it can.      *)
THEOREM SocketTypeCorrect == Spec => []SocketTypeOK
  <1>1. AudioTypeOK /\ Counted /\ SocketFlags /\ SocketBounds => SocketTypeOK
    <2> SUFFICES ASSUME AudioTypeOK, Counted, SocketFlags, SocketBounds
                 PROVE  SocketTypeOK
      OBVIOUS
    <2>1. line_buf \in Seq(Bytes) /\ Len(line_buf) <= LineBufLimit
      BY LineHeard DEF SocketBounds
    <2>2. Len(residual) < 2
      <3> DEFINE l == Len(residual)
      <3>1. l \in 0 .. 1
        BY DEF AudioTypeOK
      <3> HIDE DEF l
      <3>2. l < 2
        BY <3>1
      <3> QED
        BY <3>2 DEF l
    <2> QED
      BY <2>1, <2>2, Zenon DEF AudioTypeOK, Counted, SocketFlags, SocketBounds,
         SocketTypeOK, Phases
  <1> QED
    BY <1>1, AudioTypeInvariant, CountedInvariant, SocketInvariant, PTL
----------------------------------------------------------------------------
(* The reads of wait_for_dial_string.                                      *)
LEMMA HeardOverIs ==
    ASSUME NEW start \in Hearings, NEW bytes \in Seq(Bytes),
           NEW f, IsHearing(f, start, bytes)
    PROVE  HeardOver(start, bytes) = f[Len(bytes)]
  <1>1. PICK g : IsHearing(g, start, bytes)
                 /\ HeardOver(start, bytes) = g[Len(bytes)]
    BY HeardOverRuns
  <1>2. g = f
    BY <1>1, HearingUnique
  <1> QED
    BY <1>1, <1>2

(* The line that dials a number, and what is made of its first m bytes and *)
(* of whatever follows it in the same read.                                *)
Number == <<"number", 0>>

HeardOfLine(m) ==
    [line |-> IF m = 1 THEN <<Prefix>> ELSE IF m = 2 THEN <<Prefix, Number>>
              ELSE <<>>,
     dial |-> IF m < 3 THEN <<>> ELSE <<Number>>]

StartsLine(w) == /\ w \in Seq(Bytes) /\ 3 <= Len(w)
                 /\ w[1] = Prefix /\ w[2] = Number /\ w[3] = Newline

(* No byte of the prefix or of a number is a newline, and the limit is one *)
(* that a line with a number can keep.                                     *)
NumbersFit == /\ LineBufLimit >= 2 /\ Prefix \notin NewlineBytes
              /\ Number \notin NewlineBytes

LEMMA AppendToOne ==
    ASSUME NEW T, NEW x \in T, NEW y \in T
    PROVE  Len(<<x>>) = 1 /\ Append(<<x>>, y) = <<x, y>>
  <1> DEFINE s == <<x>>
             p == <<x, y>>
  <1>1. /\ s \in Seq(T) /\ Len(s) = 1 /\ s[1] = x
        /\ p \in Seq(T) /\ Len(p) = 2 /\ p[1] = x /\ p[2] = y
    OBVIOUS
  <1> HIDE DEF s, p
  <1> DEFINE a == Append(s, y)
  <1>2. /\ a \in Seq(T) /\ Len(a) = Len(s) + 1
        /\ \A i \in 1 .. Len(s) : a[i] = s[i]
        /\ a[Len(s) + 1] = y
    <2>1. s \in Seq(T) /\ y \in T
      BY <1>1
    <2> QED
      BY <2>1, AppendProperties
  <1> HIDE DEF a
  <1>3. Len(a) = 2 /\ a[1] = x /\ a[2] = y
    BY <1>1, <1>2
  <1>4. \A i \in 1 .. 2 : i = 1 \/ i = 2
    OBVIOUS
  <1>5. \A i \in 1 .. 2 : a[i] = p[i]
    BY <1>1, <1>3, <1>4, Zenon
  <1>6. a = p
    BY <1>1, <1>2, <1>3, <1>5, SeqEqual
  <1> QED
    BY <1>1, <1>6, Zenon DEF a, s, p

LEMMA HeardOfLineStep ==
    ASSUME NumbersFit, NEW w, StartsLine(w), NEW m \in 0 .. Len(w) - 1
    PROVE  HearsByte(HeardOfLine(m), w[m + 1]) = HeardOfLine(m + 1)
  <1>0. Len(w) \in Nat /\ Prefix # Newline /\ Number # Newline /\ <<>> # <<Number>>
    BY LenProperties DEF StartsLine, Prefix, Newline, Number
  <1>1. ~IsNewline(Prefix) /\ ~IsNewline(Number) /\ IsNewline(Newline)
    BY <1>0 DEF IsNewline, NumbersFit
  <1>2. CASE m = 0
    <2>1. HeardOfLine(m) = [line |-> <<>>, dial |-> <<>>] /\ w[m + 1] = Prefix
      BY <1>2 DEF HeardOfLine, StartsLine
    <2>2. HeardOfLine(m + 1) = [line |-> <<Prefix>>, dial |-> <<>>]
      BY <1>2 DEF HeardOfLine
    <2>3. ~(Len(<<>>) + 1 > LineBufLimit) /\ Append(<<>>, Prefix) = <<Prefix>>
      BY SlSocketAssumption DEF NumbersFit
    <2> QED
      BY <1>1, <2>1, <2>2, <2>3 DEF HearsByte
  <1>3. CASE m = 1
    <2>1. HeardOfLine(m) = [line |-> <<Prefix>>, dial |-> <<>>] /\ w[m + 1] = Number
      BY <1>3 DEF HeardOfLine, StartsLine
    <2>2. HeardOfLine(m + 1) = [line |-> <<Prefix, Number>>, dial |-> <<>>]
      BY <1>3 DEF HeardOfLine
    <2>3. /\ ~(Len(<<Prefix>>) + 1 > LineBufLimit)
          /\ Append(<<Prefix>>, Number) = <<Prefix, Number>>
      <3>1. Len(<<Prefix>>) = 1 /\ Append(<<Prefix>>, Number) = <<Prefix, Number>>
        <4>1. Prefix \in Bytes /\ Number \in Bytes
          BY DEF Bytes, Number
        <4> QED
          BY <4>1, AppendToOne
      <3>2. ~(1 + 1 > LineBufLimit)
        BY SlSocketAssumption DEF NumbersFit
      <3> QED
        BY <3>1, <3>2, Zenon
    <2> QED
      BY <1>1, <2>1, <2>2, <2>3 DEF HearsByte
  <1>4. CASE m = 2
    <2>1. /\ HeardOfLine(m) = [line |-> <<Prefix, Number>>, dial |-> <<>>]
          /\ w[m + 1] = Newline
      BY <1>4 DEF HeardOfLine, StartsLine
    <2>2. HeardOfLine(m + 1) = [line |-> <<>>, dial |-> <<Number>>]
      BY <1>4 DEF HeardOfLine
    <2>3. DialIn(<<Prefix, Number>>) = <<Number>>
      BY DEF DialIn
    <2> QED
      BY <1>1, <2>1, <2>2, <2>3 DEF HearsByte
  <1>5. CASE m > 2
    <2>1. /\ HeardOfLine(m) = [line |-> <<>>, dial |-> <<Number>>]
          /\ HeardOfLine(m + 1) = [line |-> <<>>, dial |-> <<Number>>]
      BY <1>0, <1>5 DEF HeardOfLine
    <2> QED
      BY <1>0, <2>1 DEF HearsByte
  <1> QED
    BY <1>0, <1>2, <1>3, <1>4, <1>5

(* A line that dials starts a line, so what was kept of it is its start.   *)
LEMMA KeptOfLine ==
    ASSUME line_buf \in LinesHeard, queue \in Seq(Bytes),
           StartsLine(line_buf \o queue)
    PROVE  /\ Len(line_buf) \in 0 .. 2
           /\ [line |-> line_buf, dial |-> <<>>] = HeardOfLine(Len(line_buf))
  <1> DEFINE l == Len(line_buf)
             w == line_buf \o queue
  <1>1. /\ line_buf \in Seq(Bytes) /\ l \in Nat /\ Len(queue) \in Nat
        /\ \A i \in 1 .. l + Len(queue) : w[i] = IF i <= l THEN line_buf[i]
                                                 ELSE queue[i - l]
        /\ w[1] = Prefix /\ w[2] = Number /\ w[3] = Newline
        /\ \A i \in 1 .. l : ~IsNewline(line_buf[i])
    BY LineHeard, LenProperties, ConcatProperties DEF StartsLine, Unfinished
  <1> HIDE DEF w
  <1>2. \A i \in 1 .. l : line_buf[i] = w[i]
    BY <1>1
  <1>3. l \in 0 .. 2
    <2>1. CASE 3 <= l
      <3>1. line_buf[3] = Newline /\ ~IsNewline(line_buf[3])
        BY <1>1, <1>2, <2>1
      <3> QED
        BY <3>1 DEF IsNewline
    <2>2. CASE ~(3 <= l)
      <3> HIDE DEF l
      <3> QED
        BY <1>1, <2>2
    <2> QED
      BY <2>1, <2>2
  <1>4. CASE l = 0
    <2>1. line_buf = <<>>
      BY <1>1, <1>4, EmptySeq
    <2>2. HeardOfLine(0) = [line |-> <<>>, dial |-> <<>>]
      BY DEF HeardOfLine
    <2> QED
      BY <1>3, <1>4, <2>1, <2>2, Zenon
  <1>5. CASE l = 1
    <2>1. line_buf[1] = Prefix
      BY <1>1, <1>2, <1>5
    <2>2. <<Prefix>> \in Seq(Bytes) /\ Len(<<Prefix>>) = 1 /\ <<Prefix>>[1] = Prefix
      BY DEF Bytes
    <2>3. line_buf = <<Prefix>>
      BY <1>1, <1>5, <2>1, <2>2, SeqEqual
    <2>4. HeardOfLine(1) = [line |-> <<Prefix>>, dial |-> <<>>]
      BY DEF HeardOfLine
    <2> QED
      BY <1>3, <1>5, <2>3, <2>4, Zenon
  <1>6. CASE l = 2
    <2>1. line_buf[1] = Prefix /\ line_buf[2] = Number
      BY <1>1, <1>2, <1>6
    <2> DEFINE p == <<Prefix, Number>>
    <2>2. p \in Seq(Bytes) /\ Len(p) = 2 /\ p[1] = Prefix /\ p[2] = Number
      BY DEF Bytes, Number
    <2> HIDE DEF p
    <2>3. line_buf = p
      BY <1>1, <1>6, <2>1, <2>2, SeqEqual
    <2>4. HeardOfLine(2) = [line |-> p, dial |-> <<>>]
      BY DEF HeardOfLine, p
    <2> QED
      BY <1>3, <1>6, <2>3, <2>4, Zenon
  <1> QED
    BY <1>3, <1>4, <1>5, <1>6

(* A read then hears as much more of it as it takes.                       *)
LEMMA HearsOfLine ==
    ASSUME NumbersFit, line_buf \in LinesHeard, queue \in Seq(Bytes),
           StartsLine(line_buf \o queue), NEW b, NEW n \in ReadSizes(b)
    PROVE  Hears(Taken(n)) = HeardOfLine(Len(line_buf) + n)
  <1> DEFINE l == Len(line_buf)
             w == line_buf \o queue
             start == [line |-> line_buf, dial |-> <<>>]
             f == [k \in 0 .. n |-> HeardOfLine(l + k)]
  <1>1. /\ n \in 1 .. Len(queue) /\ Len(queue) \in Nat /\ l \in 0 .. 2
        /\ Taken(n) \in Seq(Bytes) /\ Len(Taken(n)) = n
        /\ \A k \in 1 .. n : Taken(n)[k] = queue[k]
    BY ReadTyped, KeptOfLine
  <1>2. /\ line_buf \in Seq(Bytes) /\ Len(w) = l + Len(queue)
        /\ \A k \in 1 .. Len(queue) : w[l + k] = queue[k]
    BY <1>1, LineHeard, ConcatProperties
  <1>3. start = HeardOfLine(l) /\ start \in Hearings
    BY KeptOfLine DEF Hearings
  <1>4. StartsLine(w)
    OBVIOUS
  <1> HIDE DEF l, w, start
  <1>5. ASSUME NEW k \in 0 .. n
        PROVE  f[k] = IF k = 0 THEN start ELSE HearsByte(f[k - 1], Taken(n)[k])
    <2>1. CASE k = 0
      <3>1. l + 0 = l /\ f[0] = HeardOfLine(l + 0)
        BY <1>1
      <3> QED
        BY <1>3, <2>1, <3>1, Zenon
    <2>2. CASE k # 0
      <3>1. /\ k \in 1 .. n /\ k - 1 \in 0 .. n /\ k \in 1 .. Len(queue)
            /\ l + (k - 1) \in 0 .. Len(w) - 1 /\ (l + (k - 1)) + 1 = l + k
        BY <1>1, <1>2, <2>2
      <3>2. Taken(n)[k] = w[l + k]
        BY <1>1, <1>2, <3>1
      <3>3. HearsByte(HeardOfLine(l + (k - 1)), w[(l + (k - 1)) + 1])
              = HeardOfLine((l + (k - 1)) + 1)
        BY <1>4, <3>1, HeardOfLineStep
      <3>4. f[k] = HeardOfLine(l + k) /\ f[k - 1] = HeardOfLine(l + (k - 1))
        BY <3>1
      <3> HIDE DEF f
      <3> QED
        BY <2>2, <3>1, <3>2, <3>3, <3>4
    <2> QED
      BY <2>1, <2>2
  <1>6. f = [k \in 0 .. n |-> f[k]]
    OBVIOUS
  <1>7. f[n] = HeardOfLine(l + n)
    BY <1>1
  <1> HIDE DEF f
  <1>8. IsHearing(f, start, Taken(n))
    BY <1>1, <1>5, <1>6 DEF IsHearing
  <1>9. HeardOver(start, Taken(n)) = f[n]
    BY <1>1, <1>3, <1>8, HeardOverIs
  <1> QED
    BY <1>7, <1>9, Zenon DEF Hears, start, l

LEMMA PrefixIsStart ==
    ASSUME NEW w \in Seq(Bytes)
    PROVE  IsPrefix(DialLine("number"), w) <=> StartsLine(w)
  <1> DEFINE d == <<Prefix, Number, Newline>>
  <1>1. DialLine("number") = d
    BY DEF DialLine, Number
  <1>2. /\ d \in Seq(Bytes) /\ Len(d) = 3 /\ Len(w) \in Nat
        /\ d[1] = Prefix /\ d[2] = Number /\ d[3] = Newline
    BY LenProperties DEF Bytes, Number
  <1> HIDE DEF d
  <1>3. CASE 3 <= Len(w)
    <2>1. 1 \in 1 .. 3 + 1 /\ 3 \in 1 - 1 .. 3 /\ 1 \in 1 .. Len(w) + 1 /\ 3 \in 1 - 1 .. Len(w)
      BY <1>2, <1>3
    <2> DEFINE e == SubSeq(d, 1, 3)
               v == SubSeq(w, 1, 3)
    <2>2. /\ e \in Seq(Bytes) /\ Len(e) = 3 - 1 + 1
          /\ \A x \in 1 .. 3 - 1 + 1 : e[x] = d[1 + x - 1]
      BY <1>2, <2>1, CutTyped
    <2>3. /\ v \in Seq(Bytes) /\ Len(v) = 3 - 1 + 1
          /\ \A x \in 1 .. 3 - 1 + 1 : v[x] = w[1 + x - 1]
      BY <1>2, <2>1, CutTyped
    <2> HIDE DEF e, v
    <2>4. /\ Len(e) = 3 /\ Len(v) = 3
          /\ e[1] = Prefix /\ e[2] = Number /\ e[3] = Newline
          /\ v[1] = w[1] /\ v[2] = w[2] /\ v[3] = w[3]
      BY <1>2, <2>2, <2>3
    <2>5. e = v => w[1] = Prefix /\ w[2] = Number /\ w[3] = Newline
      BY <2>4, Zenon
    <2>6. ASSUME w[1] = Prefix, w[2] = Number, w[3] = Newline PROVE e = v
      <3>1. \A x \in 1 .. 3 : x = 1 \/ x = 2 \/ x = 3
        OBVIOUS
      <3>2. \A x \in 1 .. 3 : e[x] = v[x]
        BY <2>4, <2>6, <3>1, Zenon
      <3> QED
        BY <2>2, <2>3, <2>4, <3>2, SeqEqual
    <2>7. IsPrefix(d, w) <=> e = v
      BY <1>2, <1>3, Zenon DEF IsPrefix, e, v
    <2> QED
      BY <1>1, <1>3, <2>5, <2>6, <2>7, Zenon DEF StartsLine
  <1>4. CASE ~(3 <= Len(w))
    BY <1>1, <1>2, <1>4, Zenon DEF IsPrefix, StartsLine
  <1> QED
    BY <1>3, <1>4

LEMMA StartStays ==
    ASSUME line_buf \in LinesHeard, queue \in Seq(Bytes),
           StartsLine(line_buf \o queue), NEW x \in Seq(Bytes)
    PROVE  StartsLine(line_buf \o (queue \o x))
  <1> DEFINE w == line_buf \o queue
             v == w \o x
  <1>1. line_buf \in Seq(Bytes)
    BY LineHeard
  <1>2. w \in Seq(Bytes)
    BY <1>1, ConcatProperties
  <1>3. line_buf \o (queue \o x) = v
    BY <1>1, ConcatAssociative
  <1>4. StartsLine(w)
    OBVIOUS
  <1> HIDE DEF w
  <1>5. /\ v \in Seq(Bytes) /\ Len(v) = Len(w) + Len(x)
        /\ Len(w) \in Nat /\ Len(x) \in Nat
        /\ \A i \in 1 .. Len(w) + Len(x) : v[i] = IF i <= Len(w) THEN w[i]
                                                  ELSE x[i - Len(w)]
    BY <1>2, ConcatProperties, LenProperties
  <1> HIDE DEF v
  <1>6. \A i \in 1 .. 3 : v[i] = w[i]
    BY <1>4, <1>5 DEF StartsLine
  <1>7. StartsLine(v)
    BY <1>4, <1>5, <1>6 DEF StartsLine
  <1> QED
    BY <1>3, <1>7, Zenon

(* A read that ends inside the line leaves the start of it in line_buf.    *)
LEMMA StartMoves ==
    ASSUME line_buf \in LinesHeard, queue \in Seq(Bytes),
           StartsLine(line_buf \o queue), NEW b, NEW n \in ReadSizes(b),
           Len(line_buf) + n < 3
    PROVE  StartsLine(HeardOfLine(Len(line_buf) + n).line \o Left(n))
  <1> DEFINE l == Len(line_buf)
             q == Len(queue)
             w == line_buf \o queue
             kept == HeardOfLine(l + n).line
             v == kept \o Left(n)
  <1>1. /\ n \in 1 .. q /\ q \in Nat /\ l \in 0 .. 2
        /\ Left(n) \in Seq(Bytes) /\ Len(Left(n)) = q - n
        /\ \A k \in 1 .. q - n : Left(n)[k] = queue[n + k]
    BY ReadTyped, KeptOfLine
  <1>2. /\ line_buf \in Seq(Bytes) /\ Len(w) = l + q
        /\ \A k \in 1 .. q : w[l + k] = queue[k]
    BY <1>1, LineHeard, ConcatProperties
  <1>3. l + n < 3 /\ StartsLine(w)
    OBVIOUS
  <1> HIDE DEF l, q, w
  <1>4. 3 <= l + q /\ w[1] = Prefix /\ w[2] = Number /\ w[3] = Newline
    BY <1>2, <1>3 DEF StartsLine
  <1>5. l + n = 1 \/ l + n = 2
    BY <1>1, <1>3
  <1>6. /\ kept \in Seq(Bytes) /\ Len(kept) = l + n
        /\ \A i \in 1 .. l + n : kept[i] = w[i]
    <2>1. Prefix \in Bytes /\ Number \in Bytes
      BY DEF Bytes, Number
    <2>2. CASE l + n = 1
      <3>1. kept = <<Prefix>>
        BY <2>2 DEF HeardOfLine
      <3>2. <<Prefix>> \in Seq(Bytes) /\ Len(<<Prefix>>) = 1 /\ <<Prefix>>[1] = Prefix
        BY <2>1
      <3>3. \A i \in 1 .. 1 : i = 1
        OBVIOUS
      <3> QED
        BY <1>4, <2>2, <3>1, <3>2, <3>3, Zenon
    <2>3. CASE l + n = 2
      <3> DEFINE p == <<Prefix, Number>>
      <3>1. kept = p
        BY <2>3 DEF HeardOfLine
      <3>2. p \in Seq(Bytes) /\ Len(p) = 2 /\ p[1] = Prefix /\ p[2] = Number
        BY <2>1
      <3> HIDE DEF p
      <3>3. \A i \in 1 .. 2 : i = 1 \/ i = 2
        OBVIOUS
      <3>4. \A i \in 1 .. 2 : kept[i] = w[i]
        BY <1>4, <3>1, <3>2, <3>3, Zenon
      <3> QED
        BY <2>3, <3>1, <3>2, <3>4, Zenon
    <2> QED
      BY <1>5, <2>2, <2>3
  <1> HIDE DEF kept
  <1>7. /\ v \in Seq(Bytes) /\ Len(v) = l + q
        /\ \A i \in 1 .. l + q : v[i] = IF i <= l + n THEN kept[i]
                                        ELSE Left(n)[i - (l + n)]
    <2>1. /\ v \in Seq(Bytes) /\ Len(v) = Len(kept) + Len(Left(n))
          /\ \A i \in 1 .. Len(kept) + Len(Left(n)) :
                v[i] = IF i <= Len(kept) THEN kept[i] ELSE Left(n)[i - Len(kept)]
      BY <1>1, <1>6, ConcatProperties
    <2>2. Len(kept) + Len(Left(n)) = l + q /\ Len(kept) = l + n
      BY <1>1, <1>6
    <2> QED
      BY <2>1, <2>2, Zenon
  <1> HIDE DEF v
  <1>8. ASSUME NEW i \in 1 .. 3 PROVE v[i] = w[i]
    <2>1. i \in 1 .. l + q
      BY <1>1, <1>4
    <2>2. CASE i <= l + n
      BY <1>1, <1>6, <1>7, <2>1, <2>2
    <2>3. CASE ~(i <= l + n)
      <3>1. /\ i - (l + n) \in 1 .. q - n /\ n + (i - (l + n)) = i - l
            /\ i - l \in 1 .. q /\ l + (i - l) = i
        BY <1>1, <2>1, <2>3
      <3>2. v[i] = Left(n)[i - (l + n)]
        BY <1>7, <2>1, <2>3
      <3>3. Left(n)[i - (l + n)] = queue[i - l] /\ w[i] = queue[i - l]
        BY <1>1, <1>2, <3>1
      <3> QED
        BY <3>2, <3>3
    <2> QED
      BY <2>2, <2>3
  <1>9. StartsLine(v)
    BY <1>4, <1>7, <1>8 DEF StartsLine
  <1> QED
    BY <1>9, Zenon DEF v, kept, l

LEMMA PendingStep ==
    ASSUME NumbersFit, AudioTypeOK, SocketBounds, DialPending, [Next]_vars
    PROVE  DialPending' \/ phase' = "setup" \/ closed
  <1>1. /\ line_buf \in LinesHeard /\ queue \in Seq(Bytes) /\ phase = "dial"
        /\ line_buf \in Seq(Bytes)
    BY LineHeard DEF SocketBounds, AudioTypeOK, DialPending
  <1>2. StartsLine(line_buf \o queue)
    <2>1. line_buf \o queue \in Seq(Bytes)
      BY <1>1, ConcatProperties
    <2> QED
      BY <2>1, PrefixIsStart DEF DialPending
  <1>3. ASSUME phase' = "dial", StartsLine(line_buf' \o queue') PROVE DialPending'
    <2>1. line_buf' \o queue' \in Seq(Bytes)
      BY <1>3 DEF StartsLine
    <2>2. IsPrefix(DialLine("number"), line_buf' \o queue')
      BY <1>3, <2>1, PrefixIsStart
    <2> QED
      BY <1>3, <2>2 DEF DialPending
  <1>4. CASE Dialling
    <2>1. PICK n \in ReadSizes(DialBuf) : DialReads(n)
      BY <1>4 DEF Dialling
    <2>2. Hears(Taken(n)) = HeardOfLine(Len(line_buf) + n)
      BY <1>1, <1>2, HearsOfLine
    <2>3. n \in Nat /\ Len(line_buf) \in Nat
      BY <1>1, LenProperties DEF ReadSizes
    <2>4. CASE Len(line_buf) + n < 3
      <3>1. Hears(Taken(n)).dial = <<>>
        BY <2>2, <2>4 DEF HeardOfLine
      <3>2. phase' = phase /\ line_buf' = Hears(Taken(n)).line /\ queue' = Left(n)
        BY <2>1, <3>1, Zenon DEF DialReads, runVars
      <3>3. StartsLine(HeardOfLine(Len(line_buf) + n).line \o Left(n))
        BY <1>1, <1>2, <2>4, StartMoves
      <3> QED
        BY <1>1, <1>3, <2>2, <3>2, <3>3, Zenon
    <2>5. CASE ~(Len(line_buf) + n < 3)
      <3>1. Hears(Taken(n)).dial = <<Number>> /\ <<Number>> # <<>>
        BY <2>2, <2>5 DEF HeardOfLine
      <3>2. ValidDial(Hears(Taken(n)).dial)
        BY <3>1 DEF ValidDial, Number
      <3>3. phase' = "setup"
        BY <2>1, <3>1, <3>2, Zenon DEF DialReads
      <3> QED
        BY <3>3
    <2> QED
      BY <2>4, <2>5
  <1>5. CASE ~Dialling /\ ~closed
    <2>1. /\ phase' = "dial" /\ line_buf' = line_buf
          /\ queue' = queue \/ (\E x \in Seq(Bytes) : queue' = queue \o x)
      <3>1. CASE \E d \in DialBodies : SlDials(d)
        BY <1>1, <3>1, WrittenTyped DEF SlDials, runVars
      <3>2. CASE SlPlays
        <4>1. samples + 1 \in 1 .. SampleLimit
          BY <3>2, CounterTypes DEF SlPlays, AudioTypeOK
        <4> QED
          BY <1>1, <3>2, <4>1, WrittenTyped DEF SlPlays, runVars
      <3>3. CASE SlReads \/ SlCloses \/ SilenceTick \/ SilenceWritten \/ Stopped
                 \/ UNCHANGED vars
        BY <1>1, <3>3, Zenon DEF SlReads, SlCloses, SilenceTick, SilenceWritten,
           WritesSilence, Stopped, vars, runVars
      <3>4. ~(\/ Starts \/ DialEof \/ SilenceFails \/ Draining \/ SetupEnds
              \/ StartsRelay \/ ConnectFails \/ HungUp \/ RelayReturns)
        BY <1>1, <1>5 DEF Starts, DialEof, SilenceFails, Draining, DrainReads,
           SetupEnds, StartsRelay, ConnectFails, HungUp, RelayReturns, Selects
      <3>5. ~(\/ Relaying \/ RelayEof \/ RelayReadFails \/ RtpArrives
              \/ RtpWriteFails \/ RtpRecvFails
              \/ \E n \in ReadSizes(RelayBuf) : RelaySendFails(n))
        BY <1>1 DEF Relaying, RelayReads, RelayEof, RelayReadFails, RtpArrives,
           RtpWriteFails, RtpRecvFails, RelaySendFails, Runs
      <3>6. CASE RtpWritten
        BY <1>1, <3>6, Zenon DEF RtpWritten, runVars
      <3> QED
        BY <1>5, <3>1, <3>2, <3>3, <3>4, <3>5, <3>6, Zenon DEF Next, Slmodemd
    <2>2. StartsLine(line_buf' \o queue')
      BY <1>1, <1>2, <2>1, StartStays, Zenon
    <2> QED
      BY <1>3, <2>1, <2>2
  <1> QED
    BY <1>4, <1>5

(* A line that dials a number is never lost on the way: however the reads  *)
(* cut it up, whatever slmodemd writes behind it and however often silence *)
(* is sent meanwhile, it goes on waiting until it starts the set-up of its *)
(* call, or slmodemd closes.                                               *)
THEOREM DialIsKept ==
    ASSUME NumbersFit
    PROVE  Spec => [][DialPending => DialPending' \/ phase' = "setup" \/ closed]_vars
  <1>1. AudioTypeOK /\ SocketFlags /\ SocketBounds /\ [Next]_vars
          => [DialPending => DialPending' \/ phase' = "setup" \/ closed]_vars
    BY PendingStep
  <1> QED
    BY <1>1, AudioTypeInvariant, SocketInvariant, PTL DEF Spec
=============================================================================
