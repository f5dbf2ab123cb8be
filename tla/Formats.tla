------------------------------- MODULE Formats -------------------------------
(***************************************************************************)
(* The pure functions of the bridge against reference definitions: G.711   *)
(* for module Mulaw, RFC 3550 for RtpPacket, RFC 4566 for SdpAnswer, the   *)
(* comments of the code for DialString, RFC 2617 for Digest.  There is one *)
(* initial state for each input, and nothing happens in it.                *)
(***************************************************************************)
EXTENDS Integers, Sequences, FiniteSets

CONSTANTS
    Payloads,                      \* what RTP packets carry
    CsrcCounts, ExtensionWords,    \* headers of received packets
    Cuts,                          \* bytes missing at their ends
    Sequences, Timestamps,         \* numbers of packets sent
    Addrs, Ports, PayloadTypes,    \* SDP
    SdpLimit,                      \* lines of a body
    DialChars, DialLength,         \* dialled strings
    Realms, Nonces, Methods        \* challenges, and what they are for

M   == INSTANCE Mulaw
R   == INSTANCE RtpPacket
Sdp == INSTANCE SdpAnswer
D   == INSTANCE DialString
A   == INSTANCE Digest

Word   == 65536         \* values of 16 bits
MaxU16 == Word - 1

ASSUME FormatsAssumption ==
    /\ Sdp!NoAddr \notin Addrs /\ Ports \subseteq 0 .. MaxU16
    /\ PayloadTypes \subseteq 0 .. 127
    /\ \A payload \in Payloads : payload \in Seq(M!Byte) /\ R!MaySend(payload)
    /\ CsrcCounts \subseteq 0 .. 15 /\ ExtensionWords \subseteq 0 .. MaxU16
    /\ Cuts \subseteq Nat /\ Sequences \subseteq 0 .. MaxU16
    /\ \A t \in Timestamps : t \in Nat /\ t \div Word \in 0 .. MaxU16
    /\ DialChars \subseteq D!Chars /\ SdpLimit \in Nat /\ DialLength \in Nat

VARIABLE input
----------------------------------------------------------------------------
(* The inputs.                                                             *)

BoundedSeqs(S, n) == UNION {[1 .. k -> S] : k \in 0 .. n}

NoExtension == Word     \* more words than there can be

Samples == [kind : {"sample"}, value : M!Slin]
Codes   == [kind : {"code"}, value : M!Byte]
Headers == [kind : {"header"}, version : {1, 2}, csrcs : CsrcCounts,
            words : ExtensionWords \cup {NoExtension},
            payload : Payloads, missing : Cuts]
Sent    == [kind : {"sent"}, seq : Sequences, timestamp : Timestamps,
            payload : Payloads]
Bodies  == [kind : {"body"}, lines : BoundedSeqs(Sdp!Lines, SdpLimit)]
Dialled == [kind : {"dialled"}, chars : BoundedSeqs(DialChars, DialLength)]
Asked   == [kind : {"asked"}, qop : A!Qops, realm : Realms, nonce : Nonces,
            method : Methods]

Init == \/ input \in Samples \/ input \in Codes \/ input \in Headers
        \/ input \in Sent \/ input \in Bodies \/ input \in Dialled
        \/ input \in Asked

Next == UNCHANGED input

Spec == Init /\ [][Next]_input
----------------------------------------------------------------------------
(* Audio.                                                                  *)

Abs(n) == IF n < 0 THEN -n ELSE n

(* A sample, as bytes from slmodemd, after its way to the far end and back.*)
Heard(sample) ==
    LET bytes == M!decode_ulaw(M!encode_ulaw(M!ToLe(sample)))
    IN  M!FromLe(bytes[1], bytes[2])

Clipped(sample) == IF sample > M!Clip THEN M!Clip
                   ELSE IF sample < -M!Clip THEN -M!Clip ELSE sample

(* Half a step of the segment that a magnitude lies in: the segments start *)
(* at powers of two of the biased magnitude.                               *)
HalfStep(magnitude) ==
    LET top == CHOOSE e \in 7 .. 14 : /\ 2^e <= magnitude + M!Bias
                                      /\ magnitude + M!Bias < 2^(e + 1)
    IN  2^(top - 5)

(* Every sample, -32768 and the clipped ones included, comes back within   *)
(* half a quantisation step of itself.                                     *)
QuantisesClosely ==
    input.kind = "sample" =>
        Abs(Heard(input.value) - Clipped(input.value))
            <= HalfStep(Abs(Clipped(input.value)))

(* A louder sample never comes back softer: there is no fold at the ends   *)
(* of the segments, at zero, or where 16 bits end.                         *)
QuantisesInOrder ==
    input.kind = "sample" /\ input.value < 32767 =>
        Heard(input.value) <= Heard(input.value + 1)

(* Decoding and encoding again changes no byte, save for the negative zero.*)
CodesSurvive ==
    input.kind = "code" =>
        M!slin_sample_to_ulaw(M!ulaw_sample_to_slin(input.value))
            = IF input.value = 127 THEN 255 ELSE input.value
----------------------------------------------------------------------------
(* RTP.                                                                    *)

Fill(n) == [i \in 1 .. n |-> 85]

(* RFC 3550, 5.1 and 5.3.1: what precedes the payload of a packet without  *)
(* padding.  parse_packet does not look at the padding bit: it takes the   *)
(* padding of a packet that has some for payload.                          *)
RfcHeader(h) ==
    << h.version * 64 + (IF h.words = NoExtension THEN 0 ELSE 16) + h.csrcs >>
    \o Fill(11) \o Fill(4 * h.csrcs)
    \o (IF h.words = NoExtension THEN <<>>
        ELSE <<190, 222, h.words \div 256, h.words % 256>> \o Fill(4 * h.words))

(* However many contributing sources and words of extension its header     *)
(* has, a packet without padding yields its payload and nothing else; one  *)
(* that was cut yields what is left of the payload, or nothing.            *)
ParsesPayload ==
    input.kind = "header" =>
        LET header  == RfcHeader(input)
            length  == Len(header) + Len(input.payload) - input.missing
            packet  == SubSeq(header \o input.payload, 1, length)
        IN  length >= 0 =>
            R!parse_packet(packet) =
                IF input.version = 2 /\ length > Len(header)
                THEN SubSeq(input.payload, 1, length - Len(header))
                ELSE R!NoPayload

Ssrc == ((83 * 256 + 76) * 256 + 77) * 256 + 68

(* What is sent can be read: sequence number and timestamp in network      *)
(* order, and the payload behind them.                                     *)
SentIsReadable ==
    input.kind = "sent" =>
        LET p == R!build_packet(input.seq, input.timestamp, Ssrc, input.payload)
        IN  /\ R!parse_packet(p) = input.payload
            /\ p[3] * 256 + p[4] = input.seq
            /\ p[5] * 256 + p[6] = input.timestamp \div Word
            /\ p[7] * 256 + p[8] = input.timestamp % Word
----------------------------------------------------------------------------
(* SDP: lines belong to the session until the first m-line, then to the    *)
(* medium of the last one.                                                 *)

Medium(body, i) ==
    LET ms == {j \in 1 .. i : body[j].kind # "c"}
    IN  IF ms = {} THEN "session"
        ELSE body[CHOOSE j \in ms : \A k \in ms : k <= j].kind

Connections(body, medium) ==
    {i \in DOMAIN body : body[i].kind = "c" /\ Medium(body, i) = medium}

AudioLines(body) == {i \in DOMAIN body : body[i].kind = "audio"}

(* An answer to our offer: one audio line with PCMU and one connection     *)
(* line at most in each section, none of them for another medium.          *)
Answers(body) ==
    /\ Cardinality(AudioLines(body)) = 1
    /\ \A i \in AudioLines(body) : body[i].port # Sdp!NoPort /\ 0 \in body[i].types
    /\ \A medium \in {"session", "audio"} : Cardinality(Connections(body, medium)) <= 1
    /\ Connections(body, "media") = {}
    /\ \A i \in DOMAIN body : body[i].kind = "c" => body[i].addr # Sdp!NoAddr

(* The address of the audio section, and only without one the session's.   *)
RfcAddr(body) ==
    LET own == Connections(body, "audio")
        from == IF own # {} THEN own ELSE Connections(body, "session")
    IN  IF from = {} THEN Sdp!NoAddr ELSE body[CHOOSE i \in from : TRUE].addr

(* The relay sends to the endpoint that the answer means, wherever in the  *)
(* body it is named; an answer that names none is refused.                 *)
AnswerNamesEndpoint ==
    input.kind = "body" /\ Answers(input.lines) =>
        LET port == input.lines[CHOOSE i \in AudioLines(input.lines) : TRUE].port
        IN  Sdp!parse_answer(input.lines) =
                IF RfcAddr(input.lines) = Sdp!NoAddr THEN Sdp!Refused
                ELSE [addr |-> RfcAddr(input.lines), port |-> port]
----------------------------------------------------------------------------
(* Dial strings and credentials.                                           *)

(* What goes into the INVITE is what was dialled without its tone letters: *)
(* never empty, never with a character that cannot be dialled, and never   *)
(* refused for the letters before it.                                      *)
DialKeepsNumber ==
    input.kind = "dialled" =>
        LET splits == {n \in 0 .. Len(input.chars) - 1 :
                         /\ \A i \in 1 .. n : input.chars[i] \in D!TonePulse
                         /\ \A i \in n + 1 .. Len(input.chars) :
                               input.chars[i] \in D!Allowed}
        IN  IF splits = {} THEN D!parse(input.chars) = D!Refused
            ELSE \A n \in splits :
                    D!parse(input.chars)
                        = SubSeq(input.chars, n + 1, Len(input.chars))

(* RFC 2617, 3.2.2: what the registrar computes from the header.           *)
Verifies(challenge, header, method) ==
    LET ha1 == A!Ha1(challenge.realm)
        ha2 == A!Ha2(method, header.uri)
    IN  /\ header.nonce = challenge.nonce
        /\ header.response =
             IF header.qop = A!Absent THEN <<ha1, header.nonce, ha2>>
             ELSE <<ha1, header.nonce, header.nc, header.cnonce, header.qop, ha2>>

(* The credentials pass for a challenge without qop and for the qop that   *)
(* the code knows.                                                         *)
CredentialsVerify ==
    input.kind = "asked" /\ input.qop \in {A!Absent, "auth"} =>
        LET challenge == [realm |-> input.realm, nonce |-> input.nonce, qop |-> input.qop]
        IN  Verifies(challenge, A!AuthHeader(challenge, input.method, "uri", "cnonce"),
                     input.method)
=============================================================================
