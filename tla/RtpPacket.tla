------------------------------ MODULE RtpPacket ------------------------------
(***************************************************************************)
(* src/src/rtp.rs: the packets of RtpSender::build_packet and what         *)
(* parse_packet takes out of a received one.  A packet is a sequence of    *)
(* bytes; data[i] of the code is data[i + 1] here.                         *)
(***************************************************************************)
EXTENDS Naturals, Sequences

RtpHeaderSize    == 12                  \* RTP_HEADER_SIZE
MaxRtpPacketSize == 1500                \* MAX_RTP_PACKET_SIZE
MinRtpPacketSize == RtpHeaderSize + 1   \* MIN_RTP_PACKET_SIZE
RelayBufSize     == 2048                \* `buf' of sl_to_rtp in bridge.rs

NoPayload == <<>>       \* parse_packet: None; Some is never empty

Be16(n) == <<(n \div 256) % 256, n % 256>>
Be32(n) == <<(n \div 16777216) % 256, (n \div 65536) % 256>> \o Be16(n)

(* Mutation of build_packet: the timestamp is in the order of the machine. *)
build_packet_le(seq, timestamp, ssrc, payload) ==
    <<128, 0>> \o Be16(seq)
    \o <<timestamp % 256, (timestamp \div 256) % 256,
         (timestamp \div 65536) % 256, (timestamp \div 16777216) % 256>>
    \o Be32(ssrc) \o payload

(* V = 2 and nothing else in the first byte, PT = 0 in the second.         *)
build_packet(seq, timestamp, ssrc, payload) ==
    <<128, 0>> \o Be16(seq) \o Be32(timestamp) \o Be32(ssrc) \o payload

Version(data)      == data[1] \div 64
CsrcCount(data)    == data[1] % 16
HasExtension(data) == (data[1] \div 16) % 2 = 1

HeaderLen(data) == RtpHeaderSize + CsrcCount(data) * 4

(* Mutation of ExtensionLen: the words are counted as bytes.               *)
ExtensionLenBytes(data) ==
    LET at == HeaderLen(data) IN 4 + (data[at + 3] * 256 + data[at + 4])

ExtensionLen(data) ==
    LET at == HeaderLen(data) IN 4 + (data[at + 3] * 256 + data[at + 4]) * 4

Offset(data) == HeaderLen(data) + (IF HasExtension(data) THEN ExtensionLen(data) ELSE 0)

(* Everything in the packet that an index looks at is there.               *)
HeaderComplete(data) ==
    /\ Len(data) >= MinRtpPacketSize
    /\ Version(data) = 2
    /\ Len(data) >= HeaderLen(data)
    /\ HasExtension(data) => Len(data) >= HeaderLen(data) + 4

parse_packet(data) ==
    IF HeaderComplete(data) /\ Offset(data) < Len(data)
    THEN SubSeq(data, Offset(data) + 1, Len(data))
    ELSE NoPayload

(* The assertions of send_packet.                                          *)
MaySend(payload) == /\ payload # <<>>
                    /\ Len(payload) <= MaxRtpPacketSize - RtpHeaderSize
=============================================================================
