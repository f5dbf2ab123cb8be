------------------------------ MODULE SlSocket ------------------------------
(***************************************************************************)
(* The socket between slmodemd and the bridge, with its bytes: how         *)
(* wait_for_dial_string, drain_during_sip_setup and relay_media            *)
(* (src/src/bridge.rs) read and write it, one after the other, with the    *)
(* sample alignment of src/src/codec.rs and the RtpSender of               *)
(* src/src/rtp.rs.  The SIP side, which decides how a set-up ends, is      *)
(* module Bridge; here it is any outcome.                                  *)
(*                                                                         *)
(* The stream towards the bridge is a bounded sequence of bytes, a read    *)
(* takes any number of them up to the size of its buffer, and slmodemd     *)
(* writes DIAL lines and samples of two bytes.  In the other direction     *)
(* only the number of frames that wait for slmodemd matters.  A write_all  *)
(* that finds no room goes on when slmodemd reads.                         *)
(***************************************************************************)
EXTENDS Naturals, Sequences, FiniteSets, SequencesExt

CONSTANTS
    Capacity,          \* bytes the socket holds towards the bridge
    FeedCapacity,      \* frames it holds towards slmodemd
    DialBuf, DrainBuf, RelayBuf,   \* sizes of the read buffers
    LineBufLimit,      \* LINE_BUF_LIMIT
    CallsLimit,        \* CALLS_LIMIT
    FrameSamples,      \* TIMESTAMP_INCREMENT: samples in 20 ms
    SeqModulus,        \* 2^16 in the code
    TimestampModulus,  \* 2^32
    DialBodies,        \* what slmodemd writes between DIAL: and the newline
    NewlineBytes,      \* audio bytes that happen to be 0x0A
    DialLimit,         \* bound: DIAL lines slmodemd writes
    SampleLimit        \* bound: samples it writes

ASSUME SlSocketAssumption ==
    /\ {Capacity, FeedCapacity, DialBuf, DrainBuf, RelayBuf, LineBufLimit,
        FrameSamples, SeqModulus, TimestampModulus} \subseteq Nat \ {0}
    /\ {CallsLimit, DialLimit, SampleLimit} \subseteq Nat
    /\ DialBodies \subseteq {"number", "letters", "empty"}

VARIABLES
    phase,        \* where run() is; "fails" is the hang-up on the way out
    calls_count,
    writing,      \* the silence write_all is blocked, and with it the select!
    queue,        \* bytes from slmodemd that nobody has read
    feed,         \* frames that slmodemd has not read
    line_buf,     \* wait_for_dial_string: the line so far
    residual,     \* relay: the odd byte, a sequence of at most one
    halves,       \* relay: the futures of try_join! that still run
    rtp_writing,  \* relay: the write_all of rtp_to_sl is blocked
    rtp,          \* RtpSender: seq and timestamp
    sent,         \* history: the packets sent to the far end
    closed,       \* slmodemd has closed its end
    dialled, samples    \* what slmodemd has written, to bound it

runVars   == <<phase, calls_count>>
relayVars == <<residual, halves, rtp_writing, rtp, sent>>
slVars    == <<closed, dialled, samples>>
vars == <<runVars, writing, queue, feed, line_buf, relayVars, slVars>>
----------------------------------------------------------------------------
(* Bytes.  The five of `DIAL:' and the dialled string count as one each.   *)

Prefix  == <<"DIAL:", 0>>
Newline == <<"newline", 0>>
Sample(k) == << <<"lo", k>>, <<"hi", k>> >>
DialLine(d) == IF d = "empty" THEN <<Prefix, Newline>>
                              ELSE <<Prefix, <<d, 0>>, Newline>>

IsNewline(b) == b = Newline \/ b \in NewlineBytes

(* strip_prefix and trim: what was dialled, <<>> if nothing was.           *)
DialIn(line) == IF line # <<>> /\ Head(line) = Prefix THEN Tail(line) ELSE <<>>

(* DialString::parse accepts it.                                           *)
ValidDial(dial) == dial = << <<"number", 0>> >>

(* Mutation of HearsByte: a line may grow without limit.                   *)
HearsByteUnlimited(heard, b) ==
    IF heard.dial # <<>> THEN heard
    ELSE IF IsNewline(b) THEN [line |-> <<>>, dial |-> DialIn(heard.line)]
    ELSE [heard EXCEPT !.line = Append(@, b)]

(* One turn of the loop over the bytes of a read; the rest of the read is  *)
(* dropped once a line has dialled.                                        *)
HearsByte(heard, b) ==
    IF heard.dial # <<>> THEN heard
    ELSE IF IsNewline(b) THEN [line |-> <<>>, dial |-> DialIn(heard.line)]
    ELSE IF Len(heard.line) + 1 > LineBufLimit THEN [heard EXCEPT !.line = <<>>]
    ELSE [heard EXCEPT !.line = Append(@, b)]

(* The whole loop over the bytes of a read.                                *)
HeardOver(start, bytes) ==
    LET heard[k \in 0 .. Len(bytes)] ==
            IF k = 0 THEN start ELSE HearsByte(heard[k - 1], bytes[k])
    IN  heard[Len(bytes)]

(* Mutation of Hears: every read starts a new line.                        *)
HearsAnew(bytes) == HeardOver([line |-> <<>>, dial |-> <<>>], bytes)

Hears(bytes) == HeardOver([line |-> line_buf, dial |-> <<>>], bytes)

(* A read returns what there is, up to the buffer, or less of it.          *)
ReadSizes(buf) == {n \in 1 .. Len(queue) : n <= buf}
Taken(n) == SubSeq(queue, 1, n)
Left(n)  == SubSeq(queue, n + 1, Len(queue))

(* align_slin_buffer: whole samples now, an odd byte later.                *)
Even(n) == n - (n % 2)

(* Mutation of Aligned: the odd byte is not kept for the next read.        *)
AlignedLossy(buf) == [slin |-> SubSeq(buf, 1, Even(Len(buf))), odd |-> <<>>]

Aligned(buf) == [slin |-> SubSeq(buf, 1, Even(Len(buf))),
                 odd  |-> SubSeq(buf, Even(Len(buf)) + 1, Len(buf))]

Packet(slin) == [seq |-> rtp.seq, timestamp |-> rtp.timestamp, payload |-> slin]

(* Mutation of Advanced: the counters stop at their limit.                 *)
AdvancedSaturating ==
    [seq |-> IF rtp.seq + 1 < SeqModulus THEN rtp.seq + 1 ELSE rtp.seq,
     timestamp |-> IF rtp.timestamp + FrameSamples < TimestampModulus
                   THEN rtp.timestamp + FrameSamples ELSE rtp.timestamp]

(* build_packet: both counters wrap, and the timestamp advances by one     *)
(* frame whatever the payload.                                             *)
Advanced == [seq |-> (rtp.seq + 1) % SeqModulus,
             timestamp |-> (rtp.timestamp + FrameSamples) % TimestampModulus]

NewRtp == [seq |-> 0, timestamp |-> 0]

(* The assertion at the top of the loop.                                   *)
LoopTop(calls) == IF calls < CallsLimit THEN "dial" ELSE "over"
----------------------------------------------------------------------------
Init ==
    /\ phase = "start" /\ calls_count = 0 /\ writing = FALSE
    /\ queue = <<>> /\ feed = 0 /\ line_buf = <<>>
    /\ residual = <<>> /\ halves = {} /\ rtp_writing = FALSE
    /\ rtp = NewRtp /\ sent = <<>>
    /\ closed = FALSE /\ dialled = 0 /\ samples = 0

(* REGISTER succeeded or failed; slmodemd waits for the `R' written here.  *)
Starts ==
    /\ phase = "start" /\ phase' \in {LoopTop(0), "over"}
    /\ UNCHANGED <<calls_count, writing, queue, feed, line_buf, relayVars, slVars>>
----------------------------------------------------------------------------
(* slmodemd (external): its modem starts with the line that dials, and     *)
(* goes on until it closes.  A write waits until there is room for it.     *)

SlDials(d) ==
    /\ phase # "start" /\ ~closed /\ dialled < DialLimit
    /\ Len(queue) + Len(DialLine(d)) <= Capacity
    /\ queue' = queue \o DialLine(d) /\ dialled' = dialled + 1
    /\ UNCHANGED <<runVars, writing, feed, line_buf, relayVars, closed, samples>>

SlPlays ==
    /\ dialled > 0 /\ ~closed /\ samples < SampleLimit
    /\ Len(queue) + 2 <= Capacity
    /\ queue' = queue \o Sample(samples + 1) /\ samples' = samples + 1
    /\ UNCHANGED <<runVars, writing, feed, line_buf, relayVars, closed, dialled>>

SlReads ==
    /\ feed > 0 /\ ~closed /\ feed' = feed - 1
    /\ UNCHANGED <<runVars, writing, queue, line_buf, relayVars, slVars>>

SlCloses ==
    /\ phase # "start" /\ ~closed /\ closed' = TRUE
    /\ UNCHANGED <<runVars, writing, queue, feed, line_buf, relayVars, dialled,
                   samples>>
----------------------------------------------------------------------------
(* wait_for_dial_string and drain_during_sip_setup: a select! of reading,  *)
(* writing silence and, in the drain, the invite future.  None of its arms *)
(* runs while write_all waits inside one of them.                          *)

Selects(p) == phase = p /\ ~writing

DialReads(n) ==
    /\ Selects("dial")
    /\ LET heard == Hears(Taken(n)) IN
       \/ /\ heard.dial = <<>> /\ line_buf' = heard.line /\ UNCHANGED runVars
       \/ /\ heard.dial # <<>> /\ line_buf' = <<>>
          /\ calls_count' = calls_count + 1
          /\ phase' = IF ValidDial(heard.dial) THEN "setup"
                                               ELSE LoopTop(calls_count + 1)
    /\ queue' = Left(n)
    /\ UNCHANGED <<writing, feed, relayVars, slVars>>

DialEof ==
    /\ Selects("dial") /\ closed /\ queue = <<>>
    /\ phase' = "over"
    /\ UNCHANGED <<calls_count, writing, queue, feed, line_buf, relayVars, slVars>>

(* The DSP of slmodemd is fed every 20 ms, if there is room.               *)
WritesSilence ==
    /\ ~closed
    /\ IF feed < FeedCapacity THEN feed' = feed + 1 /\ writing' = FALSE
                              ELSE feed' = feed /\ writing' = TRUE
    /\ UNCHANGED <<runVars, queue, line_buf, relayVars, slVars>>

(* Mutation of SilenceTick: the drain only reads.                          *)
SilenceTickDialOnly == Selects("dial") /\ WritesSilence

SilenceTick == (Selects("dial") \/ Selects("setup")) /\ WritesSilence

SilenceWritten == writing /\ feed < FeedCapacity /\ WritesSilence

(* write_all fails: the dial wait ends the bridge, the drain ends the call.*)
SilenceFails ==
    /\ phase \in {"dial", "setup"} /\ closed
    /\ phase' = IF phase = "dial" THEN "over" ELSE LoopTop(calls_count)
    /\ writing' = FALSE /\ line_buf' = <<>>
    /\ UNCHANGED <<calls_count, queue, feed, relayVars, slVars>>

DrainReads(n) ==
    /\ Selects("setup") /\ queue' = Left(n)
    /\ UNCHANGED <<runVars, writing, feed, line_buf, relayVars, slVars>>

(* The invite future is ready, successful or not, or the drain finds the   *)
(* socket at its end, or an assertion or an error ends the bridge.         *)
SetupEnds ==
    /\ Selects("setup")
    /\ phase' \in {LoopTop(calls_count), "connect", "hangup", "over"}
    /\ UNCHANGED <<calls_count, writing, queue, feed, line_buf, relayVars, slVars>>
----------------------------------------------------------------------------
(* From the set-up to the relay, and bye(): nobody reads the socket.       *)

StartsRelay ==
    /\ phase = "connect" /\ phase' = "relay"
    /\ halves' = {"sl_to_rtp", "rtp_to_sl"} /\ rtp' = NewRtp
    /\ UNCHANGED <<calls_count, writing, queue, feed, line_buf, residual,
                   rtp_writing, sent, slVars>>

(* ack() fails.                                                            *)
ConnectFails ==
    /\ phase = "connect" /\ phase' = "over"
    /\ UNCHANGED <<calls_count, writing, queue, feed, line_buf, relayVars, slVars>>

HungUp ==
    /\ phase \in {"hangup", "fails"}
    /\ phase' = IF phase = "hangup" THEN LoopTop(calls_count) ELSE "over"
    /\ UNCHANGED <<calls_count, writing, queue, feed, line_buf, relayVars, slVars>>
----------------------------------------------------------------------------
(* relay_media.                                                            *)

Runs(half) == phase = "relay" /\ half \in halves

(* try_join! drops the other half on the first error, and run() hangs up.  *)
RelayFails ==
    /\ phase' = "fails" /\ halves' = {}
    /\ residual' = <<>> /\ rtp_writing' = FALSE
    /\ UNCHANGED <<calls_count, writing, line_buf, rtp, sent, slVars>>

(* One turn of sl_to_rtp; a packet goes out unless there is no whole       *)
(* sample.                                                                 *)
RelayReads(n) ==
    LET buf == Aligned(residual \o Taken(n)) IN
    /\ Runs("sl_to_rtp") /\ queue' = Left(n) /\ residual' = buf.odd
    /\ IF buf.slin = <<>> THEN UNCHANGED <<rtp, sent>>
       ELSE sent' = Append(sent, Packet(buf.slin)) /\ rtp' = Advanced
    /\ UNCHANGED <<runVars, writing, feed, line_buf, halves, rtp_writing, slVars>>

RelaySendFails(n) ==
    /\ Runs("sl_to_rtp") /\ Aligned(residual \o Taken(n)).slin # <<>>
    /\ queue' = Left(n) /\ RelayFails /\ UNCHANGED feed

(* slmodemd closed without reading all of its feed: the read is an error.  *)
RelayReadFails ==
    /\ Runs("sl_to_rtp") /\ closed /\ queue = <<>>
    /\ RelayFails /\ UNCHANGED <<queue, feed>>

(* Mutation of RelayEof: the end is seen before what was written.          *)
RelayEofEarly ==
    /\ Runs("sl_to_rtp") /\ closed
    /\ halves' = halves \ {"sl_to_rtp"} /\ residual' = <<>>
    /\ UNCHANGED <<runVars, writing, queue, feed, line_buf, rtp_writing, rtp,
                   sent, slVars>>

RelayEof ==
    /\ Runs("sl_to_rtp") /\ closed /\ queue = <<>>
    /\ halves' = halves \ {"sl_to_rtp"} /\ residual' = <<>>
    /\ UNCHANGED <<runVars, writing, queue, feed, line_buf, rtp_writing, rtp,
                   sent, slVars>>

(* A valid RTP packet arrives: its audio is written, at once or when there *)
(* is room, or the write fails.                                            *)
RtpArrives ==
    /\ Runs("rtp_to_sl") /\ ~rtp_writing /\ ~closed
    /\ IF feed < FeedCapacity THEN feed' = feed + 1 /\ UNCHANGED rtp_writing
                              ELSE rtp_writing' = TRUE /\ UNCHANGED feed
    /\ UNCHANGED <<runVars, writing, queue, line_buf, residual, halves, rtp,
                   sent, slVars>>

RtpWritten ==
    /\ rtp_writing /\ ~closed /\ feed < FeedCapacity
    /\ feed' = feed + 1 /\ rtp_writing' = FALSE
    /\ UNCHANGED <<runVars, writing, queue, line_buf, residual, halves, rtp,
                   sent, slVars>>

RtpWriteFails ==
    Runs("rtp_to_sl") /\ closed /\ RelayFails /\ UNCHANGED <<queue, feed>>

(* recv_from fails.                                                        *)
RtpRecvFails ==
    /\ Runs("rtp_to_sl") /\ ~rtp_writing
    /\ halves' = halves \ {"rtp_to_sl"}
    /\ UNCHANGED <<runVars, writing, queue, feed, line_buf, residual,
                   rtp_writing, rtp, sent, slVars>>

(* Mutation of RelayReturns: the call is not hung up.                      *)
RelayReturnsAtOnce ==
    /\ phase = "relay" /\ halves = {} /\ phase' = LoopTop(calls_count)
    /\ UNCHANGED <<calls_count, writing, queue, feed, line_buf, relayVars, slVars>>

(* try_join! has both results, and run() goes on to bye().                 *)
RelayReturns ==
    /\ phase = "relay" /\ halves = {} /\ phase' = "hangup"
    /\ UNCHANGED <<calls_count, writing, queue, feed, line_buf, relayVars, slVars>>

Stopped == phase = "over" /\ UNCHANGED vars
----------------------------------------------------------------------------
Slmodemd == (\E d \in DialBodies : SlDials(d)) \/ SlPlays \/ SlReads \/ SlCloses

Dialling == \E n \in ReadSizes(DialBuf) : DialReads(n)
Draining == \E n \in ReadSizes(DrainBuf) : DrainReads(n)

(* Mutation of Relaying: one loop serves both directions.                  *)
RelayingInTurn == ~rtp_writing /\ \E n \in ReadSizes(RelayBuf) : RelayReads(n)

Relaying == \E n \in ReadSizes(RelayBuf) : RelayReads(n)

Next ==
    \/ Slmodemd \/ Starts
    \/ Dialling \/ DialEof \/ SilenceTick \/ SilenceWritten \/ SilenceFails
    \/ Draining \/ SetupEnds
    \/ StartsRelay \/ ConnectFails \/ HungUp
    \/ Relaying \/ RelayEof \/ RelayReadFails
    \/ \E n \in ReadSizes(RelayBuf) : RelaySendFails(n)
    \/ RtpArrives \/ RtpWritten \/ RtpWriteFails \/ RtpRecvFails
    \/ RelayReturns \/ Stopped

Spec == Init /\ [][Next]_vars

(* The runtime polls what is ready.  select! picks one of the arms that    *)
(* are ready at random, and the timer is not always among them: an arm     *)
(* that is ready again and again is taken.                                 *)
FairSpec == /\ Spec
            /\ SF_vars(Dialling) /\ WF_vars(SilenceTick) /\ WF_vars(SilenceWritten)
            /\ WF_vars(Relaying)
----------------------------------------------------------------------------
(* Properties.                                                             *)

Bytes == {Prefix, Newline, <<"number", 0>>, <<"letters", 0>>}
         \cup {<<half, k>> : half \in {"lo", "hi"}, k \in 1 .. SampleLimit}

Packets == [seq : 0 .. SeqModulus - 1, timestamp : 0 .. TimestampModulus - 1,
            payload : Seq(Bytes)]

SocketTypeOK ==
    /\ phase \in {"start", "dial", "setup", "connect", "relay", "hangup",
                  "fails", "over"}
    /\ calls_count \in 0 .. CallsLimit
    /\ writing \in BOOLEAN /\ rtp_writing \in BOOLEAN /\ closed \in BOOLEAN
    /\ queue \in Seq(Bytes) /\ Len(queue) <= Capacity
    /\ feed \in 0 .. FeedCapacity
    /\ line_buf \in Seq(Bytes) /\ Len(line_buf) <= LineBufLimit
    /\ residual \in Seq(Bytes) /\ Len(residual) < 2
    /\ halves \subseteq {"sl_to_rtp", "rtp_to_sl"}
    /\ rtp \in [seq : 0 .. SeqModulus - 1, timestamp : 0 .. TimestampModulus - 1]
    /\ sent \in Seq(Packets)
    /\ dialled \in 0 .. DialLimit /\ samples \in 0 .. SampleLimit

(* The audio of slmodemd reaches the far end byte for byte, whatever the   *)
(* sizes of the reads: align_slin_buffer neither loses nor doubles the     *)
(* half of a sample, and the relay sees the end only after the last byte.  *)
Gate == CASE phase = "relay" -> IF "sl_to_rtp" \in halves THEN "open" ELSE "ended"
          [] phase = "fails" -> "cut"
          [] OTHER           -> "shut"

Pipe == INSTANCE AudioPipe WITH
            gate    <- Gate,
            pipe    <- IF Gate = "open" THEN residual \o queue ELSE <<>>,
            packets <- [i \in DOMAIN sent |-> sent[i].payload]

AudioArrivesInOrder == Pipe!PipeSpec

(* This side of the bridge goes through the phases of run(), too.          *)
P == INSTANCE CallPhases WITH
         phase <- IF phase = "fails" THEN "hangup" ELSE phase

PhasesOnly == P!PhaseSpec

(* A far end can put the packets back in order, also where the sequence    *)
(* number wraps; and as long as every packet carried one frame, the        *)
(* timestamp is the number of samples before it.                           *)
HeadersOrderPackets ==
    \A i \in DOMAIN sent :
        /\ i > 1 => sent[i].seq = (sent[i - 1].seq + 1) % SeqModulus
        /\ (\A j \in 1 .. i - 1 : Len(sent[j].payload) = 2 * FrameSamples) =>
              sent[i].timestamp = ((i - 1) * FrameSamples) % TimestampModulus

(* A DIAL line that starts a line is heard, however the reads cut it up,   *)
(* if slmodemd reads the silence it is sent meanwhile and stays.           *)
DialPending ==
    /\ phase = "dial"
    /\ IsPrefix(DialLine("number"), line_buf \o queue)

DialHeard == []<>(feed < FeedCapacity)
                => (DialPending ~> phase = "setup" \/ closed)

(* While a call is dialled or set up the DSP does not starve: whatever it  *)
(* sends, there is soon another frame for it.                              *)
SilenceFed == phase \in {"dial", "setup"} /\ feed = 0
                ~> feed > 0 \/ phase \notin {"dial", "setup"} \/ closed

(* In the relay, audio gets out even if slmodemd reads nothing: the half   *)
(* that is blocked writing to it does not hold up the other.               *)
AudioGetsOut ==
    \A k \in 1 .. SampleLimit :
        Gate = "open" /\ Contains(queue, <<"hi", k>>)
            ~> phase # "relay" \/ ~Contains(queue, <<"hi", k>>)
=============================================================================
