----------------------------- MODULE SipProofs -----------------------------
(***************************************************************************)
(* Proofs about module Sip, for any number of calls, any limits, any set   *)
(* of RTP endpoints and any responses of the trunk.                        *)
(***************************************************************************)
EXTENDS Sip, TLAPS

(* What invite() and poll_answer() do to the Call keeps its type, its      *)
(* identity and its CSeq.                                                  *)
LEMMA CallUpdates ==
    ASSUME NEW c \in Calls, NEW m \in Response
    PROVE  /\ RtpIn(m) \in Addrs \cup {NoAddr}
           /\ WithTag(c, m) \in Calls /\ WithRtp(c, m) \in Calls
           /\ WithTag(c, m).id = c.id /\ WithTag(c, m).cseq = c.cseq
           /\ WithRtp(c, m).id = c.id /\ WithRtp(c, m).cseq = c.cseq
  <1>1. RtpIn(m) \in Addrs \cup {NoAddr}
    BY DEF RtpIn
  <1>2. /\ WithTag(c, m) \in Calls
        /\ WithTag(c, m).id = c.id /\ WithTag(c, m).cseq = c.cseq
    BY DEF WithTag, Calls, Response
  <1>3. /\ WithRtp(c, m) \in Calls
        /\ WithRtp(c, m).id = c.id /\ WithRtp(c, m).cseq = c.cseq
    BY <1>1 DEF WithRtp, Calls
  <1> QED
    BY <1>1, <1>2, <1>3

(* What a turn of invite() does to its locals keeps their type.            *)
LEMMA LoopUpdates ==
    ASSUME NEW l \in Loops, NEW got \in BOOLEAN
    PROVE  /\ [l EXCEPT !.iterations = @ + 1] \in Loops
           /\ [l EXCEPT !.iterations = @ + 1, !.retransmit_count = @ + 1]
                 \in Loops
           /\ [l EXCEPT !.got_provisional = @ \/ got] \in Loops
           /\ [l EXCEPT !.retransmit_count = 0, !.got_provisional = FALSE,
                        !.auth_retry_done = TRUE] \in Loops
  <1>1. [l EXCEPT !.iterations = @ + 1] \in Loops
    BY DEF Loops
  <1>2. [l EXCEPT !.iterations = @ + 1, !.retransmit_count = @ + 1] \in Loops
    <2>1. l.iterations + 1 \in Nat /\ l.retransmit_count + 1 \in Nat
      BY DEF Loops
    <2>2. ASSUME NEW i \in Nat, NEW r \in Nat
          PROVE  [l EXCEPT !.iterations = i, !.retransmit_count = r] \in Loops
      BY DEF Loops
    <2> QED
      BY <2>1, <2>2
  <1>3. [l EXCEPT !.got_provisional = @ \/ got] \in Loops
    BY DEF Loops
  <1>4. [l EXCEPT !.retransmit_count = 0, !.got_provisional = FALSE,
                  !.auth_retry_done = TRUE] \in Loops
    BY DEF Loops
  <1> QED
    BY <1>1, <1>2, <1>3, <1>4

(* The requests the client builds are requests.                            *)
LEMMA RequestTypes ==
    ASSUME NEW c \in Calls, NEW id \in Ids, NEW n \in Nat, NEW auth \in BOOLEAN
    PROVE  /\ InviteMsg(id, n, auth) \in Request
           /\ AckMsg(c) \in Request /\ ByeMsg(c) \in Request
  <1>1. NoTag \in Tags
    BY SipAssumption DEF NoTag, Tags, Ids
  <1> QED
    BY <1>1 DEF InviteMsg, AckMsg, ByeMsg, Dialog, Request, Calls

LEMMA ReplyType ==
    ASSUME NEW id \in Ids, NEW n \in Nat, NEW s \in 100 .. 699,
           NEW body \in Addrs \cup {NoSdp, BadSdp}
    PROVE  Reply(id, n, s, body) \in Response
  BY SipAssumption DEF Reply, Response, NoTag, Tags, Ids

LEMMA ConstantTypes ==
    /\ NoCall \in Calls /\ FreshLoop \in Loops
    /\ \A id \in Ids : NewCall(id) \in Calls
    /\ 0 \in Ids
  BY SipAssumption DEF NoCall, FreshLoop, NewCall, Calls, Loops, Tags, Ids, NoTag
----------------------------------------------------------------------------
LEMMA TypeInit == SipInit => SipTypeOK
  <1> SUFFICES ASSUME SipInit PROVE SipTypeOK
    OBVIOUS
  <1>1. responses \subseteq Response
    <2>1. Reply(0, 1, 401, NoSdp) \in Response
      BY ReplyType, ConstantTypes
    <2>2. Reply(0, 2, 200, NoSdp) \in Response
      BY ReplyType, ConstantTypes
    <2>3. Reply(0, 1, 200, NoSdp) \in Response
      BY ReplyType, ConstantTypes
    <2> QED
      BY <2>1, <2>2, <2>3 DEF SipInit, Residues
  <1> QED
    BY <1>1, ConstantTypes DEF SipInit, SipTypeOK

LEMMA TypeStep == SipTypeOK /\ [SipNext]_sipVars => SipTypeOK'
  <1> SUFFICES ASSUME SipTypeOK, [SipNext]_sipVars PROVE SipTypeOK'
    OBVIOUS
  <1> USE DEF SipTypeOK
  <1>1. ASSUME NEW sent \in Sends, Invite(sent) PROVE SipTypeOK'
    <2>1. placed + 1 \in Ids
      BY <1>1, SipAssumption DEF Invite, Ids
    <2>2. InviteMsg(placed + 1, 1, FALSE) \in Request
      BY <2>1, RequestTypes, ConstantTypes
    <2> QED
      BY <1>1, <2>1, <2>2, ConstantTypes DEF Invite, Return
  <1>2. CASE InvitePanics \/ InviteTimesOut \/ InviteListens
             \/ InviteHearsNothing \/ InviteCancelled
    BY <1>2, ConstantTypes DEF InvitePanics, InviteTimesOut, InviteListens,
         InviteHearsNothing, InviteCancelled, NextTurn, Fail, Return, Loops
  <1>3. ASSUME NEW sent \in Sends, InviteRetransmits(sent) PROVE SipTypeOK'
    <2>1. InviteMsg(call.id, 1, FALSE) \in Request
      BY RequestTypes DEF Calls
    <2>2. [loop EXCEPT !.iterations = @ + 1, !.retransmit_count = @ + 1]
            \in Loops
      BY LoopUpdates
    <2>3. CASE sent
      BY <1>3, <2>1, <2>2, <2>3, ConstantTypes
         DEF InviteRetransmits, Fail, Return
    <2>4. CASE ~sent
      BY <1>3, <2>4, ConstantTypes DEF InviteRetransmits, Fail, Return
    <2> QED
      BY <2>3, <2>4
  <1>4. ASSUME NEW m \in responses,
               \/ InviteSkipsStale(m) \/ InviteTrying(m) \/ InviteRinging(m)
               \/ InviteUnexpected(m) \/ InviteAuthFails(m)
        PROVE  SipTypeOK'
    <2>1. WithTag(call, m) \in Calls
      BY CallUpdates
    <2>2. /\ [loop EXCEPT !.got_provisional = @ \/ FALSE] \in Loops
          /\ [loop EXCEPT !.got_provisional = @ \/ TRUE] \in Loops
      BY LoopUpdates
    <2>3. CASE InviteAuthFails(m)
      BY <2>3, ConstantTypes DEF InviteAuthFails, Fail, Return
    <2>4. CASE ~InviteAuthFails(m)
      BY <1>4, <2>1, <2>2, <2>4
         DEF InviteSkipsStale, InviteTrying, InviteRinging, InviteUnexpected,
             NextTurn
    <2> QED
      BY <2>3, <2>4
  <1>5. ASSUME NEW m \in responses, InviteEarlyMedia(m) \/ InviteAnswered(m)
        PROVE  SipTypeOK'
    <2> DEFINE c == WithRtp(WithTag(call, m), m)
    <2>1. c \in Calls
      BY CallUpdates
    <2>2. /\ [c EXCEPT !.state = "EarlyMedia"] \in Calls
          /\ [c EXCEPT !.state = "Answered"] \in Calls
      BY <2>1 DEF Calls
    <2> QED
      BY <1>5, <2>2, ConstantTypes DEF InviteEarlyMedia, InviteAnswered, Return
  <1>6. ASSUME NEW m \in responses, NEW acked \in Sends,
               InviteRejected(m, acked)
        PROVE  SipTypeOK'
    <2>1. AckMsg(WithTag(call, m)) \in Request
      BY CallUpdates, RequestTypes, ConstantTypes
    <2> QED
      BY <1>6, <2>1, ConstantTypes DEF InviteRejected, Fail, Return
  <1>7. ASSUME NEW m \in responses, NEW acked \in Sends, NEW sent \in Sends,
               InviteChallenged(m, acked, sent)
        PROVE  SipTypeOK'
    <2> DEFINE c == WithTag(call, m)
    <2>1. c \in Calls /\ c.id \in Ids /\ c.cseq + 1 \in Nat
      BY CallUpdates DEF Calls
    <2>2. AckMsg(c) \in Request /\ InviteMsg(c.id, c.cseq + 1, TRUE) \in Request
      BY <2>1, RequestTypes
    <2>3. [c EXCEPT !.cseq = @ + 1] \in Calls
      BY <2>1 DEF Calls
    <2>4. [loop EXCEPT !.retransmit_count = 0, !.got_provisional = FALSE,
                       !.auth_retry_done = TRUE] \in Loops
      BY DEF Loops
    <2>5. requests' \subseteq Request
      BY <1>7, <2>2 DEF InviteChallenged, Fail
    <2>6. call' \in Calls /\ loop' \in Loops
      BY <1>7, <2>3, <2>4, ConstantTypes DEF InviteChallenged, Fail, Return
    <2> QED
      BY <1>7, <2>5, <2>6 DEF InviteChallenged, Fail, Return
  <1>8. ASSUME NEW sent \in Sends, Ack(sent) PROVE SipTypeOK'
    BY <1>8, RequestTypes, ConstantTypes DEF Ack
  <1>9. ASSUME NEW m \in responses, NEW sent \in Sends, PollAnswered(m, sent)
        PROVE  SipTypeOK'
    <2> DEFINE c == [WithTag(WithRtp(call, m), m) EXCEPT !.state = "Answered"]
    <2>1. WithTag(WithRtp(call, m), m) \in Calls
      BY CallUpdates
    <2>2. c \in Calls
      BY <2>1 DEF Calls
    <2>3. AckMsg(c) \in Request
      BY <2>2, RequestTypes, ConstantTypes
    <2> QED
      BY <1>9, <2>2, <2>3 DEF PollAnswered
  <1>10. ASSUME NEW m \in responses, PollFailed(m) PROVE SipTypeOK'
    BY <1>10 DEF PollFailed
  <1>11. ASSUME NEW sent \in Sends, Bye(sent) PROVE SipTypeOK'
    BY <1>11, RequestTypes, ConstantTypes DEF Bye, Fail, Return
  <1>12. CASE ByeReturns
    BY <1>12, ConstantTypes DEF ByeReturns, Fail, Return
  <1>13. CASE TrunkReplies
    <2>1. PICK q \in requests, s \in Provisionals \cup Finals, body \in Sdps :
             responses' = responses \cup {Reply(q.call, q.cseq, s, body)}
      BY <1>13 DEF TrunkReplies
    <2>2. q.call \in Ids /\ q.cseq \in Nat
      BY DEF Request
    <2>3. s \in 100 .. 699 /\ body \in Addrs \cup {NoSdp, BadSdp}
      BY SipAssumption
    <2>4. Reply(q.call, q.cseq, s, body) \in Response
      BY <2>2, <2>3, ReplyType
    <2> QED
      BY <1>13, <2>1, <2>4 DEF TrunkReplies
  <1>14. CASE TrunkAcceptsBye
    <2>1. PICK q \in requests :
             responses' = responses \cup {Reply(q.call, q.cseq, 200, NoSdp)}
      BY <1>14 DEF TrunkAcceptsBye
    <2>2. q.call \in Ids /\ q.cseq \in Nat
      BY DEF Request
    <2>3. Reply(q.call, q.cseq, 200, NoSdp) \in Response
      BY <2>2, ReplyType
    <2> QED
      BY <1>14, <2>1, <2>3 DEF TrunkAcceptsBye
  <1>15. CASE UNCHANGED sipVars
    BY <1>15 DEF sipVars
  <1> QED
    BY <1>1, <1>2, <1>3, <1>4, <1>5, <1>6, <1>7, <1>8, <1>9, <1>10, <1>11,
       <1>12, <1>13, <1>14, <1>15
       DEF SipNext, Caller, InviteStep, Poll, Trunk

(* Every message, the Call and the locals of invite() keep their type: the *)
(* client never builds a request from a field it has not got.              *)
THEOREM SipTypeCorrect == SipSpec => []SipTypeOK
  <1> QED
    BY TypeInit, TypeStep, PTL DEF SipSpec
----------------------------------------------------------------------------
(* The inductive invariant behind the order of the requests.  The Call in  *)
(* hand is the last one placed; unless bye() waits, no request of it is    *)
(* ahead of its CSeq and none is a BYE; and in invite() the CSeq tells     *)
(* whether the credentials were sent.                                      *)

HeldCall == call # NoCall =>
                call.id > 0 /\ call.id = placed /\ call.cseq \in {1, 2}

InCall == op \in {"invite_top", "invite_recv", "bye_recv"} => call # NoCall

KnownCalls == \A q \in requests : q.call <= placed

CallOpen == call # NoCall /\ op # "bye_recv" =>
                \A q \in requests : q.call = call.id =>
                                       ~IsBye(q) /\ q.cseq <= call.cseq

RetryCseq == op \in {"invite_top", "invite_recv"} =>
                 call.cseq = IF loop.auth_retry_done THEN 2 ELSE 1

DialogInv == /\ SipTypeOK /\ HeldCall /\ InCall /\ KnownCalls /\ CallOpen
             /\ RetryCseq /\ ByeIsLast /\ CredentialsOnce

LEMMA DialogInit == SipInit => DialogInv
  <1> SUFFICES ASSUME SipInit PROVE DialogInv
    OBVIOUS
  <1> QED
    BY TypeInit DEF SipInit, DialogInv, HeldCall, InCall, KnownCalls, CallOpen,
       RetryCseq, ByeIsLast, CredentialsOnce

(* Requests that join those already sent, none of them a BYE, all of the   *)
(* call in hand and none ahead of a CSeq n, keep the order.                *)
LEMMA JoinsInOrder ==
    ASSUME DialogInv, call # NoCall, op # "bye_recv", NEW n \in Nat,
           call.cseq <= n, placed' = placed,
           \A q \in requests' :
              \/ q \in requests
              \/ q.call = call.id /\ ~IsBye(q) /\ q.cseq <= n
    PROVE  /\ KnownCalls' /\ ByeIsLast'
           /\ \A q \in requests' : q.call = call.id =>
                                      ~IsBye(q) /\ q.cseq <= n
  <1> USE DEF DialogInv
  <1>1. call.id = placed /\ call.cseq \in Nat
    BY DEF HeldCall
  <1>2. \A q \in requests : q.call \in Nat /\ q.cseq \in Nat
    BY DEF SipTypeOK, Request, Ids
  <1>3. KnownCalls'
    BY <1>1, <1>2 DEF KnownCalls, SipTypeOK, Ids
  <1>4. \A q \in requests' : q.call = call.id => ~IsBye(q) /\ q.cseq <= n
    BY <1>1, <1>2 DEF CallOpen
  <1>5. ByeIsLast'
    <2> SUFFICES ASSUME NEW b \in requests', NEW q \in requests',
                        IsBye(b), q.call = b.call, q # b
                 PROVE  q.cseq < b.cseq
      BY DEF ByeIsLast
    <2>1. b.call # call.id
      BY <1>4
    <2>2. b \in requests /\ q \in requests
      BY <2>1
    <2> QED
      BY <2>2 DEF ByeIsLast
  <1> QED
    BY <1>3, <1>4, <1>5

(* A trunk that sends, and a client that only stops, change little.        *)
LEMMA KeepsOrder ==
    ASSUME DialogInv, requests' = requests, placed' = placed
    PROVE  KnownCalls' /\ ByeIsLast'
  BY DEF DialogInv, KnownCalls, ByeIsLast

LEMMA KeepsCredentials ==
    ASSUME DialogInv, responses \subseteq responses',
           \A q \in requests' : q \in requests \/ ~q.auth
    PROVE  CredentialsOnce'
  BY DEF DialogInv, CredentialsOnce

(* A method that returns without a Call, having sent only what is in order.*)
LEMMA ReturnsNothing ==
    ASSUME DialogInv, SipTypeOK', call' = NoCall, op' = "none",
           KnownCalls', ByeIsLast', CredentialsOnce'
    PROVE  DialogInv'
  BY DEF DialogInv, HeldCall, InCall, CallOpen, RetryCseq

(* A step within a call after which the same Call is in hand, with no BYE  *)
(* sent yet.                                                               *)
LEMMA StaysInCall ==
    ASSUME DialogInv, SipTypeOK', call # NoCall, op # "bye_recv",
           call'.id = call.id, call'.cseq \in {1, 2}, placed' = placed,
           op' # "bye_recv",
           op' \in {"invite_top", "invite_recv"} =>
               call'.cseq = (IF loop'.auth_retry_done THEN 2 ELSE 1),
           \A q \in requests' : q.call = call.id =>
                                    ~IsBye(q) /\ q.cseq <= call'.cseq,
           KnownCalls', ByeIsLast', CredentialsOnce'
    PROVE  DialogInv'
  BY DEF DialogInv, HeldCall, InCall, CallOpen, RetryCseq, NoCall

LEMMA DialogStep == DialogInv /\ [SipNext]_sipVars => DialogInv'
  <1> SUFFICES ASSUME DialogInv, [SipNext]_sipVars PROVE DialogInv'
    OBVIOUS
  <1> USE DEF DialogInv
  <1>t. SipTypeOK'
    BY TypeStep
  <1>a. call \in Calls /\ loop \in Loops /\ requests \subseteq Request
    BY DEF SipTypeOK
  <1>1. ASSUME NEW sent \in Sends, Invite(sent) PROVE DialogInv'
    <2>1. \A q \in requests : q.call \in Nat
      BY <1>a DEF Request, Ids
    <2>2. placed \in Nat
      BY DEF SipTypeOK, Ids
    <2>3. CASE sent
      <3> DEFINE q1 == InviteMsg(placed + 1, 1, FALSE)
      <3>1. /\ q1.call = placed + 1 /\ q1.cseq = 1 /\ ~q1.auth /\ ~IsBye(q1)
        BY DEF InviteMsg, IsBye
      <3>2. /\ requests' = requests \cup {q1} /\ placed' = placed + 1
            /\ call' = NewCall(placed + 1) /\ op' = "invite_top"
            /\ loop' = FreshLoop /\ responses' = responses
        BY <1>1, <2>3 DEF Invite, Return
      <3> HIDE DEF q1
      <3>3. \A q \in requests : q.call # placed + 1
        BY <2>1, <2>2 DEF KnownCalls
      <3>4. KnownCalls'
        BY <2>1, <2>2, <3>1, <3>2 DEF KnownCalls
      <3>5. ByeIsLast'
        BY <3>1, <3>2, <3>3 DEF ByeIsLast
      <3>6. CredentialsOnce'
        BY <3>1, <3>2, KeepsCredentials
      <3>7. HeldCall' /\ InCall' /\ RetryCseq'
        BY <2>2, <3>2
           DEF HeldCall, InCall, RetryCseq, NewCall, NoCall, FreshLoop
      <3>8. CallOpen'
        BY <3>1, <3>2, <3>3 DEF CallOpen, NewCall
      <3> QED
        BY <1>t, <3>4, <3>5, <3>6, <3>7, <3>8
    <2>4. CASE ~sent
      <3>1. /\ requests' = requests /\ placed' = placed + 1 /\ call' = NoCall
            /\ op' = "none" /\ responses' = responses
        BY <1>1, <2>4 DEF Invite, Return
      <3>2. KnownCalls' /\ ByeIsLast' /\ CredentialsOnce'
        BY <2>1, <2>2, <3>1 DEF KnownCalls, ByeIsLast, CredentialsOnce
      <3> QED
        BY <1>t, <3>1, <3>2, ReturnsNothing
    <2> QED
      BY <2>3, <2>4
  <1>2. CASE InviteTimesOut \/ InviteCancelled \/ ByeReturns
    <2>1. /\ requests' = requests /\ placed' = placed /\ call' = NoCall
          /\ op' = "none" /\ responses' = responses
      BY <1>2 DEF InviteTimesOut, InviteCancelled, ByeReturns, Fail, Return
    <2> QED
      BY <1>t, <2>1, KeepsOrder, KeepsCredentials, ReturnsNothing
  <1>3. CASE InvitePanics
    BY <1>t, <1>3
       DEF InvitePanics, HeldCall, InCall, KnownCalls, CallOpen, RetryCseq,
           ByeIsLast, CredentialsOnce
  <1>4. CASE InviteListens \/ InviteHearsNothing
    BY <1>a, <1>t, <1>4
       DEF InviteListens, InviteHearsNothing, NextTurn, HeldCall, InCall,
           KnownCalls, CallOpen, RetryCseq, ByeIsLast, CredentialsOnce, Loops
  <1>5. ASSUME NEW sent \in Sends, InviteRetransmits(sent) PROVE DialogInv'
    <2> DEFINE q1 == InviteMsg(call.id, 1, FALSE)
    <2>1. /\ q1.call = call.id /\ q1.cseq = 1 /\ ~q1.auth /\ ~IsBye(q1)
          /\ q1 \in Request
      BY <1>a, RequestTypes DEF InviteMsg, IsBye, Calls
    <2>2. call # NoCall /\ op # "bye_recv" /\ call.cseq \in {1, 2}
      BY <1>5 DEF InviteRetransmits, InCall, HeldCall
    <2> HIDE DEF q1
    <2>3. CASE sent
      <3>1. /\ requests' = requests \cup {q1} /\ placed' = placed
            /\ call' = call /\ op' = "invite_recv" /\ responses' = responses
        BY <1>5, <2>3 DEF InviteRetransmits, q1
      <3>2. loop'.auth_retry_done = loop.auth_retry_done
        BY <1>a, <1>5, <2>3 DEF InviteRetransmits, Loops
      <3>3. /\ KnownCalls' /\ ByeIsLast'
            /\ \A q \in requests' : q.call = call.id =>
                                       ~IsBye(q) /\ q.cseq <= call.cseq
        <4>1. \A q \in requests' :
                 \/ q \in requests
                 \/ q.call = call.id /\ ~IsBye(q) /\ q.cseq <= call.cseq
          BY <2>1, <2>2, <3>1
        <4> QED
          BY <2>2, <3>1, <4>1, JoinsInOrder
      <3>4. CredentialsOnce'
        BY <2>1, <3>1, KeepsCredentials
      <3>5. call'.cseq = IF loop'.auth_retry_done THEN 2 ELSE 1
        BY <1>5, <3>1, <3>2 DEF InviteRetransmits, RetryCseq
      <3> QED
        BY <1>t, <2>2, <3>1, <3>3, <3>4, <3>5, StaysInCall
    <2>4. CASE ~sent
      <3>1. /\ requests' = requests /\ placed' = placed /\ call' = NoCall
            /\ op' = "none" /\ responses' = responses
        BY <1>5, <2>4 DEF InviteRetransmits, Fail, Return
      <3> QED
        BY <1>t, <3>1, KeepsOrder, KeepsCredentials, ReturnsNothing
    <2> QED
      BY <2>3, <2>4
  <1>6. ASSUME NEW m \in responses,
               \/ InviteSkipsStale(m) \/ InviteTrying(m) \/ InviteRinging(m)
               \/ InviteUnexpected(m) \/ InviteEarlyMedia(m)
               \/ InviteAnswered(m)
        PROVE  DialogInv'
    <2>1. m \in Response
      BY DEF SipTypeOK
    <2>2. call # NoCall /\ op = "invite_recv" /\ call.cseq \in {1, 2}
      BY <1>6
         DEF InviteSkipsStale, InviteTrying, InviteRinging, InviteUnexpected,
             InviteEarlyMedia, InviteAnswered, InviteRecv, InCall, HeldCall
    <2> DEFINE c == WithTag(call, m)
               d == WithRtp(c, m)
    <2>3. /\ c \in Calls /\ d \in Calls /\ c.id = call.id /\ d.id = call.id
          /\ c.cseq = call.cseq /\ d.cseq = call.cseq
      BY <1>a, <2>1, CallUpdates
    <2>4. /\ requests' = requests /\ placed' = placed /\ responses' = responses
          /\ \/ op' = "none"
             \/ op' = "invite_top"
                /\ loop'.auth_retry_done = loop.auth_retry_done
          /\ call'.id = call.id /\ call'.cseq = call.cseq
      <3> HIDE DEF c, d
      <3>1. ASSUME NEW st
            PROVE  /\ [d EXCEPT !.state = st].id = d.id
                   /\ [d EXCEPT !.state = st].cseq = d.cseq
        BY <2>3 DEF Calls
      <3>2. CASE InviteEarlyMedia(m)
        BY <2>3, <3>1, <3>2 DEF InviteEarlyMedia, Return, c, d
      <3>3. CASE InviteAnswered(m)
        BY <2>3, <3>1, <3>3 DEF InviteAnswered, Return, c, d
      <3>4. CASE ~InviteEarlyMedia(m) /\ ~InviteAnswered(m)
        BY <1>a, <1>6, <2>3, <3>4
           DEF InviteSkipsStale, InviteTrying, InviteRinging,
               InviteUnexpected, NextTurn, Loops, c
      <3> QED
        BY <3>2, <3>3, <3>4
    <2>5. call.cseq = IF loop.auth_retry_done THEN 2 ELSE 1
      BY <2>2 DEF RetryCseq
    <2>6. \A q \in requests' : q.call = call.id =>
                                  ~IsBye(q) /\ q.cseq <= call'.cseq
      BY <2>2, <2>4 DEF CallOpen
    <2> QED
      BY <1>t, <2>2, <2>4, <2>5, <2>6, KeepsOrder, KeepsCredentials, StaysInCall
  <1>7. ASSUME NEW m \in responses, InviteAuthFails(m) PROVE DialogInv'
    <2>1. /\ requests' = requests /\ placed' = placed /\ call' = NoCall
          /\ op' = "none" /\ responses' = responses
      BY <1>7 DEF InviteAuthFails, Fail, Return
    <2> QED
      BY <1>t, <2>1, KeepsOrder, KeepsCredentials, ReturnsNothing
  <1>8. ASSUME NEW m \in responses, NEW acked \in Sends,
               InviteRejected(m, acked)
        PROVE  DialogInv'
    <2>1. m \in Response /\ call # NoCall /\ op = "invite_recv"
      BY <1>8 DEF SipTypeOK, InviteRejected, InviteRecv, InCall
    <2> DEFINE a == AckMsg(WithTag(call, m))
    <2>2. /\ a \in Request /\ a.call = call.id /\ a.cseq = call.cseq
          /\ ~a.auth /\ ~IsBye(a)
      BY <1>a, <2>1, CallUpdates, RequestTypes, ConstantTypes
         DEF AckMsg, IsBye
    <2>3. call.cseq \in Nat
      BY <1>a DEF Calls
    <2>4. /\ requests' = requests \cup {a} \/ requests' = requests
          /\ placed' = placed /\ call' = NoCall
          /\ op' = "none" /\ responses' = responses
      BY <1>8 DEF InviteRejected, Fail, Return
    <2> HIDE DEF a
    <2>5. KnownCalls' /\ ByeIsLast'
      <3>1. \A q \in requests' :
               \/ q \in requests
               \/ q.call = call.id /\ ~IsBye(q) /\ q.cseq <= call.cseq
        BY <2>2, <2>3, <2>4
      <3> QED
        BY <2>1, <2>3, <2>4, <3>1, JoinsInOrder
    <2>6. CredentialsOnce'
      BY <2>2, <2>4, KeepsCredentials
    <2> QED
      BY <1>t, <2>4, <2>5, <2>6, ReturnsNothing
  <1>9. ASSUME NEW m \in responses, NEW acked \in Sends, NEW sent \in Sends,
               InviteChallenged(m, acked, sent)
        PROVE  DialogInv'
    <2> DEFINE c  == WithTag(call, m)
               a  == AckMsg(c)
               q1 == InviteMsg(c.id, c.cseq + 1, TRUE)
    <2>1. /\ m \in Response /\ call # NoCall /\ op = "invite_recv"
          /\ m.cseq = call.cseq /\ m.status \in {401, 407}
          /\ ~loop.auth_retry_done
      BY <1>9 DEF SipTypeOK, InviteChallenged, InviteRecv, InCall, Fresh,
           MayRetryAuth
    <2>2. call.cseq = 1
      BY <2>1 DEF RetryCseq
    <2>3. c \in Calls /\ c.id = call.id /\ c.cseq = 1
      BY <1>a, <2>1, <2>2, CallUpdates
    <2>4. /\ a.call = call.id /\ a.cseq = 1 /\ ~a.auth /\ ~IsBye(a)
          /\ q1.call = call.id /\ q1.cseq = 2 /\ ~IsBye(q1)
      BY <2>3 DEF AckMsg, InviteMsg, IsBye
    <2>5. /\ placed' = placed /\ responses' = responses
          /\ \/ requests' = requests /\ call' = NoCall /\ op' = "none"
             \/ /\ requests' = requests \cup {a}
                /\ call' = NoCall /\ op' = "none"
             \/ /\ requests' = requests \cup {a, q1}
                /\ call' = [c EXCEPT !.cseq = @ + 1] /\ op' = "invite_top"
                /\ loop' = [loop EXCEPT !.retransmit_count = 0,
                                        !.got_provisional = FALSE,
                                        !.auth_retry_done = TRUE]
      BY <1>9 DEF InviteChallenged, Fail, Return
    <2> HIDE DEF a, q1
    <2>6. /\ KnownCalls' /\ ByeIsLast'
          /\ \A q \in requests' : q.call = call.id =>
                                     ~IsBye(q) /\ q.cseq <= 2
      <3>1. \A q \in requests' :
               \/ q \in requests
               \/ q.call = call.id /\ ~IsBye(q) /\ q.cseq <= 2
        BY <2>4, <2>5
      <3> QED
        BY <2>1, <2>2, <2>5, <3>1, JoinsInOrder
    <2>7. CredentialsOnce'
      <3> SUFFICES ASSUME NEW q \in requests', q.auth
                   PROVE  /\ q.cseq = 2
                          /\ \E r \in responses : /\ r.cseq = 1
                                                  /\ r.status \in {401, 407}
        BY <2>5 DEF CredentialsOnce
      <3>1. CASE q \in requests
        BY <3>1 DEF CredentialsOnce
      <3>2. CASE q = q1
        BY <1>9, <2>1, <2>2, <2>4, <3>2
      <3> QED
        BY <2>4, <2>5, <3>1, <3>2
    <2>8. CASE call' = NoCall /\ op' = "none"
      BY <1>t, <2>6, <2>7, <2>8, ReturnsNothing
    <2>9. CASE ~(call' = NoCall /\ op' = "none")
      <3>1. call'.id = call.id /\ call'.cseq = 2 /\ op' = "invite_top"
        BY <2>3, <2>5, <2>9 DEF Calls
      <3>2. loop'.auth_retry_done
        BY <1>a, <2>5, <2>9 DEF Loops
      <3> QED
        BY <1>t, <2>1, <2>5, <2>6, <2>7, <3>1, <3>2, StaysInCall
    <2> QED
      BY <2>8, <2>9
  <1>10. ASSUME NEW sent \in Sends, Ack(sent) PROVE DialogInv'
    <2>1. /\ call # NoCall /\ op = "none" /\ op' = "none" /\ call' = call
          /\ placed' = placed /\ responses' = responses
          /\ requests' = requests \/ requests' = requests \cup {AckMsg(call)}
      BY <1>10 DEF Ack, NoCall
    <2>2. /\ AckMsg(call).call = call.id /\ AckMsg(call).cseq = call.cseq
          /\ ~AckMsg(call).auth /\ ~IsBye(AckMsg(call))
      BY DEF AckMsg, IsBye
    <2>3. call.cseq \in {1, 2}
      BY <2>1 DEF HeldCall
    <2>4. \A q \in requests' :
             \/ q \in requests
             \/ q.call = call.id /\ ~IsBye(q) /\ q.cseq <= call.cseq /\ ~q.auth
      BY <2>1, <2>2, <2>3
    <2>5. /\ KnownCalls' /\ ByeIsLast'
          /\ \A q \in requests' : q.call = call.id =>
                                     ~IsBye(q) /\ q.cseq <= call.cseq
      BY <2>1, <2>3, <2>4, JoinsInOrder
    <2> QED
      BY <1>t, <2>1, <2>3, <2>4, <2>5, KeepsCredentials, StaysInCall
  <1>11. ASSUME NEW m \in responses, NEW sent \in Sends, PollAnswered(m, sent)
         PROVE  DialogInv'
    <2> DEFINE d == WithTag(WithRtp(call, m), m)
               c == [d EXCEPT !.state = "Answered"]
    <2>1. m \in Response
      BY DEF SipTypeOK
    <2>2. d \in Calls /\ d.id = call.id /\ d.cseq = call.cseq
      BY <1>a, <2>1, CallUpdates
    <2>3. c.id = call.id /\ c.cseq = call.cseq
      BY <2>2 DEF Calls
    <2>4. /\ AckMsg(c).call = c.id /\ AckMsg(c).cseq = c.cseq
          /\ ~AckMsg(c).auth /\ ~IsBye(AckMsg(c))
      BY DEF AckMsg, IsBye
    <2>5. /\ call # NoCall /\ op = "none" /\ op' = "none" /\ call' = c
          /\ placed' = placed /\ responses' = responses
          /\ requests' = requests \/ requests' = requests \cup {AckMsg(c)}
      BY <1>11 DEF PollAnswered, NoCall
    <2> HIDE DEF c
    <2>6. call.cseq \in {1, 2}
      BY <2>5 DEF HeldCall
    <2>7. \A q \in requests' :
             \/ q \in requests
             \/ q.call = call.id /\ ~IsBye(q) /\ q.cseq <= call.cseq /\ ~q.auth
      BY <2>3, <2>4, <2>5, <2>6
    <2>8. /\ KnownCalls' /\ ByeIsLast'
          /\ \A q \in requests' : q.call = call.id =>
                                     ~IsBye(q) /\ q.cseq <= call.cseq
      BY <2>5, <2>6, <2>7, JoinsInOrder
    <2> QED
      BY <1>t, <2>3, <2>5, <2>6, <2>7, <2>8, KeepsCredentials, StaysInCall
  <1>12. ASSUME NEW m \in responses, PollFailed(m) PROVE DialogInv'
    BY <1>t, <1>12
       DEF PollFailed, HeldCall, InCall, KnownCalls, CallOpen, RetryCseq,
           ByeIsLast, CredentialsOnce
  <1>13. ASSUME NEW sent \in Sends, Bye(sent) PROVE DialogInv'
    <2>1. CASE ~sent
      <3>1. /\ requests' = requests /\ placed' = placed /\ call' = NoCall
            /\ op' = "none" /\ responses' = responses
        BY <1>13, <2>1 DEF Bye, Fail, Return
      <3> QED
        BY <1>t, <3>1, KeepsOrder, KeepsCredentials, ReturnsNothing
    <2>2. CASE sent
      <3> DEFINE b1 == ByeMsg(call)
      <3>1. /\ b1.call = call.id /\ b1.cseq = call.cseq + 1 /\ ~b1.auth
        BY DEF ByeMsg
      <3>2. /\ call # NoCall /\ op = "none" /\ op' = "bye_recv"
            /\ requests' = requests \cup {b1} /\ call' = call
            /\ placed' = placed /\ responses' = responses
        BY <1>13, <2>2 DEF Bye
      <3> HIDE DEF b1
      <3>3. call.cseq \in {1, 2} /\ call.id = placed /\ placed \in Nat
        BY <3>2 DEF HeldCall, SipTypeOK, Ids
      <3>4. \A q \in requests : q.call = call.id =>
                                  ~IsBye(q) /\ q.cseq < b1.cseq
        <4>1. \A q \in requests : q.cseq \in Nat
          BY <1>a DEF Request
        <4> QED
          BY <3>1, <3>2, <3>3, <4>1 DEF CallOpen
      <3>5. ByeIsLast'
        BY <3>1, <3>2, <3>4 DEF ByeIsLast
      <3>6. KnownCalls'
        BY <3>1, <3>2, <3>3 DEF KnownCalls
      <3>7. CredentialsOnce'
        BY <3>1, <3>2, KeepsCredentials
      <3> QED
        BY <1>t, <3>2, <3>5, <3>6, <3>7
           DEF HeldCall, InCall, CallOpen, RetryCseq
    <2> QED
      BY <2>1, <2>2
  <1>14. CASE Trunk
    <2>1. /\ UNCHANGED <<op, outcome, call, loop, placed, requests>>
          /\ responses \subseteq responses'
      BY <1>14 DEF Trunk, TrunkReplies, TrunkAcceptsBye
    <2> QED
      BY <1>t, <2>1, KeepsOrder, KeepsCredentials
         DEF HeldCall, InCall, CallOpen, RetryCseq
  <1>15. CASE UNCHANGED sipVars
    BY <1>t, <1>15
       DEF sipVars, HeldCall, InCall, KnownCalls, CallOpen, RetryCseq,
           ByeIsLast, CredentialsOnce
  <1> QED
    BY <1>1, <1>2, <1>3, <1>4, <1>5, <1>6, <1>7, <1>8, <1>9, <1>10, <1>11,
       <1>12, <1>13, <1>14, <1>15 DEF SipNext, Caller, InviteStep, Poll

LEMMA DialogInvariant == SipSpec => []DialogInv
  <1> QED
    BY DialogInit, DialogStep, PTL DEF SipSpec

(* Within a call the BYE has the highest CSeq of all the requests, and     *)
(* there is only one: nothing invite(), ack() or poll_answer() sends       *)
(* overtakes the end of the dialog.                                        *)
THEOREM ByeComesLast == SipSpec => []ByeIsLast
  <1>1. DialogInv => ByeIsLast
    BY DEF DialogInv
  <1> QED
    BY <1>1, DialogInvariant, PTL

(* The password goes out in at most one INVITE of a call, its second, and  *)
(* only after a challenge.                                                 *)
THEOREM CredentialsSentOnce == SipSpec => []CredentialsOnce
  <1>1. DialogInv => CredentialsOnce
    BY DEF DialogInv
  <1> QED
    BY <1>1, DialogInvariant, PTL

(* Whatever is sent belongs to the call in hand, before its BYE, or opens  *)
(* the next call, and records what had become of its dialog.               *)
LEMMA SendsForCall ==
    ASSUME DialogInv, SipNext, NEW q \in requests' \ requests
    PROVE  /\ q.dialog = Dialog(q.call)
           /\ \/ q.call = placed + 1
              \/ call # NoCall /\ op # "bye_recv" /\ q.call = call.id
  <1> USE DEF DialogInv
  <1>a. /\ call \in Calls
        /\ \A m \in responses : /\ WithTag(call, m).id = call.id
                                /\ WithRtp(call, m) \in Calls
                                /\ WithRtp(call, m).id = call.id
    BY CallUpdates DEF SipTypeOK
  <1>1. ASSUME NEW sent \in Sends, Invite(sent) 
        PROVE  q.call = placed + 1 /\ q.dialog = Dialog(q.call)
    BY <1>1 DEF Invite, InviteMsg
  <1>2. ASSUME NEW sent \in Sends, InviteRetransmits(sent)
        PROVE  /\ call # NoCall /\ op # "bye_recv" /\ q.call = call.id
               /\ q.dialog = Dialog(q.call)
    BY <1>2 DEF InviteRetransmits, InviteMsg, InCall
  <1>3. ASSUME NEW m \in responses, NEW acked \in Sends, NEW sent \in Sends,
               InviteRejected(m, acked) \/ InviteChallenged(m, acked, sent)
        PROVE  /\ call # NoCall /\ op # "bye_recv" /\ q.call = call.id
               /\ q.dialog = Dialog(q.call)
    BY <1>3, <1>a DEF InviteRejected, InviteChallenged, InviteRecv, InCall,
         AckMsg, InviteMsg
  <1>4. ASSUME NEW sent \in Sends, Ack(sent) \/ Bye(sent)
        PROVE  /\ call # NoCall /\ op # "bye_recv" /\ q.call = call.id
               /\ q.dialog = Dialog(q.call)
    BY <1>4 DEF Ack, Bye, NoCall, AckMsg, ByeMsg
  <1>5. ASSUME NEW m \in responses, NEW sent \in Sends, PollAnswered(m, sent)
        PROVE  /\ call # NoCall /\ op # "bye_recv" /\ q.call = call.id
               /\ q.dialog = Dialog(q.call)
    <2> DEFINE d == WithTag(WithRtp(call, m), m)
               c == [d EXCEPT !.state = "Answered"]
    <2>1. m \in Response
      BY DEF SipTypeOK
    <2>2. d \in Calls /\ d.id = call.id
      BY <1>a, <2>1, CallUpdates
    <2>3. c.id = call.id
      BY <2>2 DEF Calls
    <2>4. q = AckMsg(c) /\ call # NoCall /\ op = "none"
      BY <1>5 DEF PollAnswered, NoCall
    <2>5. q.call = c.id /\ q.dialog = Dialog(q.call)
      BY <2>4 DEF AckMsg
    <2> QED
      BY <2>3, <2>4, <2>5
  <1>6. requests' = requests \/
           \/ \E sent \in Sends : \/ Invite(sent) \/ InviteRetransmits(sent)
                                  \/ Ack(sent) \/ Bye(sent)
           \/ \E m \in responses, acked, sent \in Sends :
                 \/ InviteRejected(m, acked) \/ InviteChallenged(m, acked, sent)
                 \/ PollAnswered(m, sent)
    BY DEF SipNext, Caller, Poll, InviteStep, Trunk, InvitePanics,
       InviteTimesOut, InviteListens, InviteHearsNothing, InviteSkipsStale,
       InviteTrying, InviteRinging, InviteEarlyMedia, InviteAnswered,
       InviteAuthFails, InviteUnexpected, InviteCancelled, PollFailed,
       ByeReturns, TrunkReplies, TrunkAcceptsBye, NextTurn, Fail
  <1> QED
    BY <1>1, <1>2, <1>3, <1>4, <1>5, <1>6

LEMMA QuietStep ==
    DialogInv /\ NothingAfterBye /\ [SipNext]_sipVars => NothingAfterBye'
  <1> SUFFICES ASSUME DialogInv, NothingAfterBye, [SipNext]_sipVars,
                      NEW q \in requests'
               PROVE  q.dialog = "open"
    BY DEF NothingAfterBye
  <1>1. CASE q \in requests
    BY <1>1 DEF NothingAfterBye
  <1>2. CASE q \notin requests
    <2>1. SipNext
      BY <1>2 DEF sipVars
    <2>2. /\ q.dialog = Dialog(q.call)
          /\ \/ q.call = placed + 1
             \/ call # NoCall /\ op # "bye_recv" /\ q.call = call.id
      BY <1>2, <2>1, SendsForCall
    <2>3. ASSUME NEW b \in requests, IsBye(b) PROVE b.call # q.call
      <3>1. b.call <= placed /\ b.call \in Nat /\ placed \in Nat
        BY DEF DialogInv, KnownCalls, SipTypeOK, Request, Ids
      <3>2. CASE q.call = placed + 1
        BY <3>1, <3>2
      <3>3. CASE call # NoCall /\ op # "bye_recv" /\ q.call = call.id
        BY <2>3, <3>3 DEF DialogInv, CallOpen
      <3> QED
        BY <2>2, <3>2, <3>3
    <2> QED
      BY <2>2, <2>3 DEF Dialog
  <1> QED
    BY <1>1, <1>2

(* Once BYE went out the client sends nothing more for that call, neither  *)
(* a new request nor one that went out before: the retransmission timer,   *)
(* the answer poll and the ACKs are all over by then.                      *)
THEOREM SilentAfterBye == SipSpec => []NothingAfterBye
  <1>1. SipInit => NothingAfterBye
    BY DEF SipInit, NothingAfterBye
  <1> QED
    BY <1>1, QuietStep, DialogInvariant, PTL DEF SipSpec
=============================================================================
