-------------------------------- MODULE Sip --------------------------------
(***************************************************************************)
(* SipClient (src/src/sip.rs): the methods invite, poll_answer, ack and    *)
(* bye, over one UDP socket, against a SIP trunk.                          *)
(*                                                                         *)
(* The network is the pair of sets of every datagram ever sent.  Nothing   *)
(* is removed from them, so a datagram may be delivered late, out of       *)
(* order, more than once or never, and a retransmission by the trunk is a  *)
(* second delivery.  A datagram carries what the code looks at: whose      *)
(* Call-ID it has, the number of its CSeq, and for a response the status,  *)
(* the tag of its To header and its SDP body.  A To tag is the pair of the *)
(* call and the CSeq of the INVITE in answer to which it was made up.  A   *)
(* request also records whether the BYE of its call was already out when   *)
(* it was sent (`dialog', for the properties only): a repetition of any    *)
(* request after the BYE is a datagram of its own.                         *)
(* Every response has a status line and a CSeq header: the code ignores a  *)
(* datagram that has no status line, as it ignores silence.                *)
(*                                                                         *)
(* Time is not modelled here: a deadline or a retransmission timer may     *)
(* expire whenever the code looks at it.                                   *)
(***************************************************************************)
EXTENDS Naturals

CONSTANTS
    CallsLimit,             \* CALLS_LIMIT of bridge.rs: calls per lifetime
    ResponseLoopLimit,      \* RESPONSE_LOOP_LIMIT
    InviteRetransmitLimit,  \* INVITE_RETRANSMIT_LIMIT
    Addrs,                  \* RTP endpoints that an SDP answer can name
    Sdps,                   \* bodies the trunk's responses have
    Provisionals,           \* 1xx statuses the trunk uses
    Finals,                 \* final statuses the trunk uses
    RegisterResidue,        \* are answers to REGISTER still under way?
    SendErrors              \* may send_to fail?

NoSdp  == "no sdp"          \* no body, or not application/sdp
BadSdp == "bad sdp"         \* a body that sdp::parse_answer refuses
NoAddr == "no addr"         \* remote_rtp: None
NoTag  == <<0, 0>>          \* remote_tag: None

ASSUME SipAssumption ==
    /\ CallsLimit \in Nat /\ ResponseLoopLimit \in Nat
    /\ InviteRetransmitLimit \in Nat
    /\ {NoSdp, BadSdp, NoAddr} \cap Addrs = {}
    /\ Sdps \subseteq Addrs \cup {NoSdp, BadSdp} /\ NoSdp \in Sdps
    /\ Provisionals \subseteq 100..199 /\ Finals \subseteq 200..699
    /\ RegisterResidue \in BOOLEAN /\ SendErrors \in BOOLEAN

VARIABLES
    op,         \* the await point of the method under way, or "none"
    outcome,    \* what the last method returned
    call,       \* the Call in the hands of the bridge, or NoCall
    loop,       \* the locals of invite()
    placed,     \* number of calls invite() was asked for so far
    requests,   \* datagrams sent to the trunk
    responses   \* datagrams sent by the trunk

sipVars == <<op, outcome, call, loop, placed, requests, responses>>
----------------------------------------------------------------------------
(* The datagrams. Call 0 is the Call-ID of the REGISTER transactions.      *)

Ids  == 0 .. CallsLimit
Tags == Ids \X Nat

Request == [method : {"INVITE", "ACK", "BYE"}, call : Ids, cseq : Nat,
            auth : BOOLEAN, tag : Tags, dialog : {"open", "closed"}]

Response == [call : Ids, cseq : Nat, status : 100..699, tag : Tags,
             sdp : Addrs \cup {NoSdp, BadSdp}]

IsBye(q) == q.method = "BYE"
IsAck(q) == q.method = "ACK"

Dialog(id) == IF \E b \in requests : IsBye(b) /\ b.call = id
              THEN "closed" ELSE "open"

InviteMsg(id, cseq, auth) ==
    [method |-> "INVITE", call |-> id, cseq |-> cseq, auth |-> auth,
     tag |-> NoTag, dialog |-> Dialog(id)]

(* Mutation of AckMsg: the CSeq is the next one, as if ACK were a request  *)
(* of its own.                                                             *)
AckMsgOwnCseq(c) ==
    [method |-> "ACK", call |-> c.id, cseq |-> c.cseq + 1, auth |-> FALSE,
     tag |-> c.tag, dialog |-> Dialog(c.id)]

AckMsg(c) ==
    [method |-> "ACK", call |-> c.id, cseq |-> c.cseq, auth |-> FALSE,
     tag |-> c.tag, dialog |-> Dialog(c.id)]

(* Mutation of ByeMsg: the CSeq is not incremented.                        *)
ByeMsgSameCseq(c) ==
    [method |-> "BYE", call |-> c.id, cseq |-> c.cseq, auth |-> FALSE,
     tag |-> c.tag, dialog |-> Dialog(c.id)]

ByeMsg(c) ==
    [method |-> "BYE", call |-> c.id, cseq |-> c.cseq + 1, auth |-> FALSE,
     tag |-> c.tag, dialog |-> Dialog(c.id)]

Reply(id, cseq, status, sdp) ==
    [call |-> id, cseq |-> cseq, status |-> status, sdp |-> sdp,
     tag |-> IF status = 100 THEN NoTag ELSE <<id, cseq>>]

(* Answers to REGISTER that may still come, a second time: what ended the  *)
(* registration (module Register), with or without a challenge before it.  *)
Residues ==
    IF RegisterResidue
    THEN {{Reply(0, 1, 401, NoSdp), Reply(0, 2, 200, NoSdp)},
          {Reply(0, 1, 200, NoSdp)}}
    ELSE {{}}
----------------------------------------------------------------------------
(* The Call and the locals of invite().                                    *)

Calls == [id : Ids, cseq : Nat, tag : Tags, rtp : Addrs \cup {NoAddr},
          state : {"None", "Trying", "EarlyMedia", "Answered"}]

Loops == [iterations : Nat, retransmit_count : Nat,
          got_provisional : BOOLEAN, auth_retry_done : BOOLEAN]

NoCall == [id |-> 0, cseq |-> 0, tag |-> NoTag, rtp |-> NoAddr,
           state |-> "None"]

NewCall(id) == [id |-> id, cseq |-> 1, tag |-> NoTag, rtp |-> NoAddr,
                state |-> "Trying"]

FreshLoop == [iterations |-> 0, retransmit_count |-> 0,
              got_provisional |-> FALSE, auth_retry_done |-> FALSE]

(* `if call.remote_tag.is_none()': the first tag seen is the one kept.     *)
WithTag(c, m) == IF c.tag = NoTag THEN [c EXCEPT !.tag = m.tag] ELSE c

(* Mutation of RtpIn: the body is taken without being parsed.              *)
RtpInUnparsed(m) == m.sdp

(* extract_sdp_body and parse_answer: the address, if the body has one.    *)
RtpIn(m) == IF m.sdp \in Addrs THEN m.sdp ELSE NoAddr

WithRtp(c, m) == IF RtpIn(m) # NoAddr THEN [c EXCEPT !.rtp = RtpIn(m)] ELSE c

(* invite() takes a response for its own when the CSeq numbers agree.      *)
Fresh(m) == m.cseq = call.cseq

(* Mutation of Success: ringing counts as an answer.                       *)
SuccessFromRinging(m) == m.status \in {180, 183, 200}

(* Only a 200 answers the call; any other 2xx is not recognised.           *)
Success(m) == m.status = 200

(* Mutation of MayRetryAuth: every challenge is answered.                  *)
MayRetryAuthAlways == TRUE

(* One retry with credentials per call.                                    *)
MayRetryAuth == ~loop.auth_retry_done

Sends == IF SendErrors THEN BOOLEAN ELSE {TRUE}

Return(result, c) == /\ op' = "none" /\ outcome' = result
                     /\ call' = c /\ loop' = FreshLoop

Fail(result) == Return(result, NoCall) /\ UNCHANGED <<placed, responses>>
----------------------------------------------------------------------------
(* invite().                                                               *)

Invite(sent) ==
    /\ op = "none" /\ call = NoCall /\ placed < CallsLimit
    /\ placed' = placed + 1
    /\ \/ /\ sent
          /\ requests' = requests \cup {InviteMsg(placed + 1, 1, FALSE)}
          /\ op' = "invite_top" /\ outcome' = "none"
          /\ call' = NewCall(placed + 1) /\ loop' = FreshLoop
       \/ /\ ~sent
          /\ Return("send_error", NoCall) /\ UNCHANGED requests
    /\ UNCHANGED responses

(* assert!(iterations < RESPONSE_LOOP_LIMIT)                               *)
InvitePanics ==
    /\ op = "invite_top" /\ loop.iterations >= ResponseLoopLimit
    /\ op' = "panic"
    /\ UNCHANGED <<outcome, call, loop, placed, requests, responses>>

InviteTimesOut ==
    /\ op = "invite_top" /\ loop.iterations < ResponseLoopLimit
    /\ Fail("timeout") /\ UNCHANGED requests

(* Mutation of InviteListens: the turns are not counted.                   *)
InviteListensUncounted ==
    /\ op = "invite_top" /\ loop.iterations < ResponseLoopLimit
    /\ op' = "invite_recv"
    /\ UNCHANGED <<outcome, call, loop, placed, requests, responses>>

(* The turn starts and goes to try_recv_response.                          *)
InviteListens ==
    /\ op = "invite_top" /\ loop.iterations < ResponseLoopLimit
    /\ op' = "invite_recv" /\ loop' = [loop EXCEPT !.iterations = @ + 1]
    /\ UNCHANGED <<outcome, call, placed, requests, responses>>

(* The turn starts with a retransmission, of the datagram that `invite'    *)
(* was first bound to, and goes to try_recv_response.                      *)
InviteRetransmits(sent) ==
    /\ op = "invite_top" /\ loop.iterations < ResponseLoopLimit
    /\ ~loop.got_provisional /\ loop.retransmit_count < InviteRetransmitLimit
    /\ \/ /\ sent
          /\ requests' = requests \cup {InviteMsg(call.id, 1, FALSE)}
          /\ op' = "invite_recv"
          /\ loop' = [loop EXCEPT !.iterations = @ + 1,
                                  !.retransmit_count = @ + 1]
          /\ UNCHANGED <<outcome, call, placed, responses>>
       \/ /\ ~sent /\ Fail("send_error") /\ UNCHANGED requests

(* `continue', or falling out of the match: the next turn starts.          *)
NextTurn(c, got) ==
    /\ op' = "invite_top" /\ call' = c
    /\ loop' = [loop EXCEPT !.got_provisional = @ \/ got]
    /\ UNCHANGED <<outcome, placed, requests, responses>>

(* No datagram within RECV_TIMEOUT, or one that is no response at all.     *)
InviteHearsNothing == op = "invite_recv" /\ NextTurn(call, FALSE)

InviteRecv(m) == op = "invite_recv" /\ m \in responses

InviteSkipsStale(m) ==
    InviteRecv(m) /\ ~Fresh(m) /\ NextTurn(call, FALSE)

InviteTrying(m) ==
    /\ InviteRecv(m) /\ Fresh(m) /\ m.status = 100
    /\ NextTurn(WithTag(call, m), TRUE)

InviteRinging(m) ==
    /\ InviteRecv(m) /\ Fresh(m) /\ m.status \in {180, 183}
    /\ RtpIn(m) = NoAddr
    /\ NextTurn(WithTag(call, m), TRUE)

InviteEarlyMedia(m) ==
    /\ InviteRecv(m) /\ Fresh(m) /\ m.status \in {180, 183}
    /\ RtpIn(m) # NoAddr
    /\ Return("ok", [WithRtp(WithTag(call, m), m) EXCEPT !.state = "EarlyMedia"])
    /\ UNCHANGED <<placed, requests, responses>>

InviteAnswered(m) ==
    /\ InviteRecv(m) /\ Fresh(m) /\ Success(m)
    /\ Return("ok", [WithRtp(WithTag(call, m), m) EXCEPT !.state = "Answered"])
    /\ UNCHANGED <<placed, requests, responses>>

(* A challenge once the credentials were sent, or one whose header is      *)
(* missing or without realm and nonce, ends the call without an ACK.       *)
InviteAuthFails(m) ==
    /\ InviteRecv(m) /\ Fresh(m) /\ m.status \in {401, 407}
    /\ \/ ~MayRetryAuth /\ Fail("auth_failed")
       \/ MayRetryAuth /\ Fail("bad_challenge")
    /\ UNCHANGED requests

(* The first challenge: ACK it, then INVITE again with credentials and the *)
(* next CSeq.  Either send may fail.                                       *)
InviteChallenged(m, acked, sent) ==
    LET c == WithTag(call, m) IN
    /\ InviteRecv(m) /\ Fresh(m) /\ m.status \in {401, 407}
    /\ MayRetryAuth
    /\ \/ /\ ~acked /\ Fail("send_error") /\ UNCHANGED requests
       \/ /\ acked /\ ~sent /\ Fail("send_error")
          /\ requests' = requests \cup {AckMsg(c)}
       \/ /\ acked /\ sent
          /\ requests' = requests \cup
                           {AckMsg(c), InviteMsg(c.id, c.cseq + 1, TRUE)}
          /\ call' = [c EXCEPT !.cseq = @ + 1]
          /\ loop' = [loop EXCEPT !.retransmit_count = 0,
                                  !.got_provisional = FALSE,
                                  !.auth_retry_done = TRUE]
          /\ op' = "invite_top"
          /\ UNCHANGED <<outcome, placed, responses>>

(* Mutation of InviteRejected: the error is returned before the ACK.       *)
InviteRejectedUnacked(m, acked) ==
    /\ InviteRecv(m) /\ Fresh(m) /\ m.status \in (400..699) \ {401, 407}
    /\ Fail("rejected") /\ UNCHANGED requests

InviteRejected(m, acked) ==
    /\ InviteRecv(m) /\ Fresh(m) /\ m.status \in (400..699) \ {401, 407}
    /\ \/ /\ acked /\ Fail("rejected")
          /\ requests' = requests \cup {AckMsg(WithTag(call, m))}
       \/ /\ ~acked /\ Fail("send_error") /\ UNCHANGED requests

InviteUnexpected(m) ==
    /\ InviteRecv(m) /\ Fresh(m)
    /\ m.status \notin {100, 180, 183, 200} \cup (400..699)
    /\ NextTurn(WithTag(call, m), FALSE)

(* The future is dropped while it waits for a datagram.                    *)
InviteCancelled ==
    op = "invite_recv" /\ Fail("cancelled") /\ UNCHANGED requests
----------------------------------------------------------------------------
(* ack(), poll_answer() and bye().                                         *)

Ack(sent) ==
    /\ op = "none" /\ call.state = "Answered"
    /\ \/ /\ sent /\ requests' = requests \cup {AckMsg(call)}
          /\ outcome' = "acked"
       \/ /\ ~sent /\ UNCHANGED requests /\ outcome' = "send_error"
    /\ UNCHANGED <<op, call, loop, placed, responses>>

(* poll_answer() that received a 200.  Silence and a provisional change    *)
(* nothing and have no action.                                             *)
PollAnswered(m, sent) ==
    LET c == [WithTag(WithRtp(call, m), m) EXCEPT !.state = "Answered"] IN
    /\ op = "none" /\ call.state = "EarlyMedia"
    /\ m \in responses /\ Success(m)
    /\ call' = c
    /\ \/ sent /\ outcome' = "acked" /\ requests' = requests \cup {AckMsg(c)}
       \/ ~sent /\ outcome' = "send_error" /\ UNCHANGED requests
    /\ UNCHANGED <<op, loop, placed, responses>>

(* Mutation of PollFailed: everything but a 200 is a failure.              *)
PollFailedEarly(m) ==
    /\ op = "none" /\ call.state = "EarlyMedia"
    /\ m \in responses /\ ~Success(m)
    /\ outcome' = "call_failed"
    /\ UNCHANGED <<op, call, loop, placed, requests, responses>>

PollFailed(m) ==
    /\ op = "none" /\ call.state = "EarlyMedia"
    /\ m \in responses /\ m.status >= 200 /\ ~Success(m)
    /\ outcome' = "call_failed"
    /\ UNCHANGED <<op, call, loop, placed, requests, responses>>

(* bye() sends once and waits up to 3 s for any one datagram.  The bridge  *)
(* drops the Call as soon as bye() has returned.                           *)
Bye(sent) ==
    /\ op = "none" /\ call # NoCall
    /\ \/ /\ sent /\ op' = "bye_recv" /\ requests' = requests \cup {ByeMsg(call)}
          /\ UNCHANGED <<outcome, call, loop, placed, responses>>
       \/ /\ ~sent /\ Fail("send_error") /\ UNCHANGED requests

(* Mutation of ByeReturns: the Call is still in use after the BYE.         *)
ByeReturnsAlive ==
    /\ op = "bye_recv" /\ op' = "none" /\ outcome' = "bye_done"
    /\ UNCHANGED <<call, loop, placed, requests, responses>>

ByeReturns == op = "bye_recv" /\ Fail("bye_done") /\ UNCHANGED requests
----------------------------------------------------------------------------
(* The trunk (external).  It answers each INVITE transaction with          *)
(* provisional responses, each status once, and one final response.        *)

Open(q) == ~ \E r \in responses : /\ r.call = q.call /\ r.cseq = q.cseq
                                  /\ r.status >= 200

TrunkReplies ==
    \E q \in requests, s \in Provisionals \cup Finals, body \in Sdps :
        /\ q.method = "INVITE" /\ Open(q)
        /\ body = NoSdp \/ s \in {180, 183, 200}
        /\ \A r \in responses :
              r.call = q.call /\ r.cseq = q.cseq => r.status # s
        /\ responses' = responses \cup {Reply(q.call, q.cseq, s, body)}
        /\ UNCHANGED <<op, outcome, call, loop, placed, requests>>

TrunkAcceptsBye ==
    \E q \in requests :
        /\ q.method = "BYE"
        /\ responses' = responses \cup {Reply(q.call, q.cseq, 200, NoSdp)}
        /\ UNCHANGED <<op, outcome, call, loop, placed, requests>>

Trunk == TrunkReplies \/ TrunkAcceptsBye
----------------------------------------------------------------------------
SipInit ==
    /\ op = "none" /\ outcome = "none"
    /\ call = NoCall /\ loop = FreshLoop /\ placed = 0
    /\ requests = {} /\ responses \in Residues

(* What goes on inside invite() and bye() once they were called.           *)
InviteStep ==
    \/ InvitePanics \/ InviteTimesOut \/ InviteListens \/ InviteHearsNothing
    \/ \E sent \in Sends : InviteRetransmits(sent)
    \/ \E m \in responses :
          \/ InviteSkipsStale(m) \/ InviteTrying(m) \/ InviteRinging(m)
          \/ InviteEarlyMedia(m) \/ InviteAnswered(m)
          \/ InviteAuthFails(m) \/ InviteUnexpected(m)
          \/ \E acked \in Sends : InviteRejected(m, acked)
          \/ \E acked, sent \in Sends : InviteChallenged(m, acked, sent)

Poll == \E m \in responses :
            PollFailed(m) \/ \E sent \in Sends : PollAnswered(m, sent)

(* The caller: any legal use of the methods, one call at a time.           *)
Caller == \/ \E sent \in Sends : Invite(sent) \/ Ack(sent) \/ Bye(sent)
          \/ Poll \/ InviteCancelled

SipNext == Caller \/ InviteStep \/ ByeReturns \/ Trunk

SipSpec == SipInit /\ [][SipNext]_sipVars
----------------------------------------------------------------------------
(* Properties.                                                             *)

SipTypeOK ==
    /\ op \in {"none", "invite_top", "invite_recv", "bye_recv", "panic"}
    /\ outcome \in {"none", "ok", "timeout", "rejected", "auth_failed",
                    "bad_challenge", "cancelled", "send_error", "acked",
                    "call_failed", "bye_done"}
    /\ call \in Calls
    /\ loop \in Loops
    /\ placed \in Ids
    /\ requests \subseteq Request
    /\ responses \subseteq Response

SameTransaction(x, y) == x.call = y.call /\ x.cseq = y.cseq

Own(r) == r.call = call.id /\ r.cseq = call.cseq

ErrorsAcked ==
    \A r \in responses : r.call = placed /\ r.status >= 400 =>
        \E a \in requests : IsAck(a) /\ SameTransaction(r, a)

(* Within a call the BYE has the highest CSeq of all the requests, and     *)
(* there is only one: the trunk never sees the end of a dialog overtaken   *)
(* by another of its requests.                                             *)
ByeIsLast ==
    \A b, q \in requests : IsBye(b) /\ q.call = b.call /\ q # b
                              => q.cseq < b.cseq

(* Once BYE went out the client sends nothing more for that call: no INVITE*)
(* again, no ACK for a late or repeated answer, no second BYE, not even a  *)
(* repetition of a request that was sent before.                           *)
NothingAfterBye == \A q \in requests : q.dialog = "open"

(* The password goes out in at most one INVITE of a call, the second one,  *)
(* and only when some transaction was challenged: no challenge loop.       *)
CredentialsOnce ==
    \A q \in requests : q.auth =>
        /\ q.cseq = 2
        /\ \E r \in responses : r.cseq = 1 /\ r.status \in {401, 407}

(* An ACK is only sent for a transaction that the trunk has finished.      *)
AckIsOwed ==
    \A a \in requests : IsAck(a) =>
        \E r \in responses : SameTransaction(r, a) /\ r.status >= 200

(* The bridge holds a call to be answered only if the trunk has answered   *)
(* the very INVITE it has outstanding.                                     *)
AnsweredIsReal ==
    call.state = "Answered" => \E r \in responses : Own(r) /\ r.status = 200

(* invite() reports a rejection only once every error response of the call *)
(* was acknowledged, the challenge included.                               *)
RejectionIsAcked == outcome = "rejected" => ErrorsAcked

(* poll_answer() reports a failed call only if the trunk has ended the     *)
(* INVITE that is outstanding with an error.                               *)
PollFailureIsReal ==
    outcome = "call_failed" => \E r \in responses : Own(r) /\ r.status >= 300

(* The same of a call that was never challenged, whose INVITE is the only  *)
(* one that can have been answered.                                        *)
PlainPollFailureIsReal == call.cseq = 1 => PollFailureIsReal
=============================================================================
