------------------------- MODULE SipMatchingProofs -------------------------
(***************************************************************************)
(* What the SIP client believes of the first call of a process is what the *)
(* trunk said of it, as the code is: for any statuses, order and number of *)
(* deliveries, limits and errors of sends, however many calls follow.  The *)
(* argument: a step that hears only responses of its own dialog keeps the  *)
(* belief true (MatchInv), and in the first call there is no other dialog  *)
(* to hear.  In a second call there is, and the code does not compare      *)
(* Call-IDs: runs SipStaleAnswer and SipStaleChallenge show what comes of  *)
(* it.                                                                     *)
(***************************************************************************)
EXTENDS SipProofs

(* The steps that handle no response, and the handling of a response m.    *)
Quiet ==
    \/ \E sent \in Sends : \/ Invite(sent) \/ InviteRetransmits(sent)
                           \/ Ack(sent) \/ Bye(sent)
    \/ InvitePanics \/ InviteTimesOut \/ InviteListens \/ InviteHearsNothing
    \/ InviteCancelled \/ ByeReturns \/ Trunk

Hears(m) ==
    \/ InviteSkipsStale(m) \/ InviteTrying(m) \/ InviteRinging(m)
    \/ InviteEarlyMedia(m) \/ InviteAnswered(m) \/ InviteAuthFails(m)
    \/ InviteUnexpected(m) \/ PollFailed(m)
    \/ \E acked \in Sends : InviteRejected(m, acked)
    \/ \E acked, sent \in Sends : InviteChallenged(m, acked, sent)
    \/ \E sent \in Sends : PollAnswered(m, sent)

(* The steps that hear no other dialog than that of the call in hand.      *)
OwnNext == Quiet \/ \E m \in responses : m.call = call.id /\ Hears(m)

(* The requests are those of calls, and each response to a call answers    *)
(* one of them.                                                            *)
Mine == \A q \in requests : q.call # 0 /\ q.cseq # 0

Answers(q, r) ==
    /\ SameTransaction(q, r)
    /\ \/ q.method = "INVITE"
       \/ IsBye(q) /\ r = Reply(q.call, q.cseq, 200, NoSdp)

Asked == \A r \in responses : r.call # 0 => \E q \in requests : Answers(q, r)

(* A transaction has one final response.                                   *)
OneFinal ==
    \A r, s \in responses :
        SameTransaction(r, s) /\ r.status >= 200 /\ s.status >= 200 => r = s

(* A second INVITE means that the first was challenged and that was        *)
(* acknowledged.                                                           *)
WasChallenged ==
    /\ \E r \in responses : /\ r.call = call.id /\ r.cseq = 1
                            /\ r.status \in {401, 407}
    /\ \E a \in requests : a.call = call.id /\ a.cseq = 1 /\ IsAck(a)

Retried == call # NoCall /\ call.cseq = 2 => WasChallenged

InTrying == op \in {"invite_top", "invite_recv"} => call.state = "Trying"

(* After a rejection nothing of the call is open and nothing follows.      *)
NoneOpen ==
    \A q \in requests : q.call = placed /\ q.method = "INVITE" => ~Open(q)

Rejected ==
    outcome = "rejected" =>
        call = NoCall /\ op = "none" /\ NoneOpen /\ ErrorsAcked

Traffic  == Mine /\ Asked /\ OneFinal
MatchInv == Traffic /\ Retried /\ InTrying /\ AnsweredIsReal /\ AckIsOwed
            /\ Rejected

LEMMA MatchInit == SipInit => MatchInv
  <1> SUFFICES ASSUME SipInit PROVE MatchInv
    OBVIOUS
  <1>1. Traffic
    <2>1. \A r \in responses : r.call = 0
      BY DEF SipInit, Residues, Reply
    <2>2. OneFinal
      BY DEF SipInit, Residues, Reply, SameTransaction, OneFinal
    <2> QED
      BY <2>1, <2>2 DEF SipInit, Traffic, Mine, Asked
  <1>2. AckIsOwed /\ AnsweredIsReal
    BY DEF SipInit, AckIsOwed, AnsweredIsReal, NoCall
  <1> QED
    BY <1>1, <1>2 DEF SipInit, MatchInv, Retried, InTrying, Rejected

(* The split of the steps loses none.                                      *)
LEMMA EveryStep == SipNext <=> Quiet \/ \E m \in responses : Hears(m)
  BY Zenon DEF SipNext, Caller, Poll, InviteStep, Quiet, Hears
----------------------------------------------------------------------------
(* The client sends for its call only; the trunk answers.                  *)
LEMMA ClientTraffic ==
    ASSUME Traffic, responses' = responses, requests \subseteq requests',
           \A q \in requests' : q \in requests \/ (q.call # 0 /\ q.cseq # 0)
    PROVE  Traffic'
  BY DEF Traffic, Mine, Asked, OneFinal

(* What the trunk may send.                                                *)
Statuses == Provisionals \cup Finals \cup {200}

TrunkSent(q, s, body) ==
    /\ responses' = responses \cup {Reply(q.call, q.cseq, s, body)}
    /\ requests' = requests
    /\ \/ q.method = "INVITE" /\ Open(q)
       \/ IsBye(q) /\ s = 200 /\ body = NoSdp

LEMMA TrunkSteps ==
    ASSUME Trunk
    PROVE  \E q \in requests, s \in Statuses, body \in Sdps \cup {NoSdp} :
              TrunkSent(q, s, body)
  <1>1. CASE TrunkReplies
    BY <1>1 DEF TrunkReplies, TrunkSent, Statuses
  <1>2. CASE TrunkAcceptsBye
    BY <1>2 DEF TrunkAcceptsBye, IsBye, TrunkSent, Statuses
  <1> QED
    BY <1>1, <1>2 DEF Trunk

LEMMA TrunkTraffic ==
    ASSUME SipTypeOK, ByeIsLast, Traffic, Trunk
    PROVE  Traffic'
  <1> USE DEF Traffic
  <1>1. PICK q \in requests, s \in Statuses, body \in Sdps \cup {NoSdp} :
                TrunkSent(q, s, body)
    BY TrunkSteps
  <1> DEFINE new == Reply(q.call, q.cseq, s, body)
  <1>2. /\ SameTransaction(q, new) /\ new.call = q.call /\ new.cseq = q.cseq
        /\ new.status = s /\ q.call # 0
    BY DEF Reply, SameTransaction, Mine
  <1>3. Mine'
    BY <1>1 DEF Mine, TrunkSent
  <1>4. Answers(q, new)
    <2>1. CASE q.method = "INVITE"
      BY <1>2, <2>1, Zenon DEF Answers
    <2>2. CASE IsBye(q) /\ s = 200 /\ body = NoSdp
      <3>1. new = Reply(q.call, q.cseq, 200, NoSdp)
        BY <2>2, Zenon
      <3> QED
        BY <1>2, <2>2, <3>1, Zenon DEF Answers
    <2> QED
      BY <1>1, <2>1, <2>2 DEF TrunkSent
  <1> HIDE DEF new
  <1>5. Asked'
    BY <1>1, <1>4 DEF Asked, TrunkSent, new
  <1>6. ASSUME NEW r \in responses, SameTransaction(r, new), r.status >= 200,
               new.status >= 200
        PROVE  r = new
    <2>1. CASE q.method = "INVITE" /\ Open(q)
      BY <1>2, <1>6, <2>1 DEF Open, SameTransaction
    <2>2. CASE IsBye(q) /\ s = 200 /\ body = NoSdp
      <3>1. PICK p \in requests : Answers(p, r)
        BY <1>2, <1>6 DEF Asked, SameTransaction
      <3>2. p.call = q.call /\ p.cseq = q.cseq
        BY <1>2, <1>6, <3>1 DEF Answers, SameTransaction
      <3>3. p.cseq \in Nat /\ q.cseq \in Nat
        BY DEF SipTypeOK, Request
      <3>4. p = q
        BY <2>2, <3>2, <3>3 DEF ByeIsLast
      <3>5. r = Reply(q.call, q.cseq, 200, NoSdp)
        BY <2>2, <3>1, <3>4 DEF Answers, IsBye
      <3> QED
        BY <2>2, <3>5 DEF new
    <2> QED
      BY <1>1, <2>1, <2>2 DEF TrunkSent
  <1>7. OneFinal'
    <2> SUFFICES ASSUME NEW r \in responses', NEW x \in responses',
                        SameTransaction(r, x), r.status >= 200, x.status >= 200
                 PROVE  r = x
      BY DEF OneFinal
    <2>1. r \in responses \/ r = new
      BY <1>1 DEF TrunkSent, new
    <2>2. x \in responses \/ x = new
      BY <1>1 DEF TrunkSent, new
    <2>3. SameTransaction(x, r)
      BY DEF SameTransaction
    <2> QED
      BY <1>6, <2>1, <2>2, <2>3 DEF OneFinal
  <1> QED
    BY <1>3, <1>5, <1>7

(* What is heard of the call while it is open is about one of its          *)
(* transactions so far, and a final response that is no challenge about    *)
(* the last.                                                               *)
LEMMA HeldIds ==
    ASSUME DialogInv, call # NoCall
    PROVE  /\ call.id # 0 /\ call.id \in Ids /\ placed = call.id
           /\ call.cseq \in {1, 2}
  BY SipAssumption DEF DialogInv, HeldCall, SipTypeOK, Ids, Calls

LEMMA Heard ==
    ASSUME DialogInv, MatchInv, call # NoCall, op # "bye_recv",
           NEW m \in responses, m.call = call.id
    PROVE  /\ m.cseq \in {1, 2} /\ m.cseq <= call.cseq
           /\ m.status >= 200 /\ m.status \notin {401, 407}
                 => m.cseq = call.cseq
  <1> USE DEF DialogInv, MatchInv, Traffic
  <1>1. call.id # 0 /\ call.cseq \in {1, 2}
    BY HeldIds
  <1>2. PICK q \in requests : Answers(q, m)
    BY <1>1 DEF Asked
  <1>3. m.call = q.call /\ m.cseq = q.cseq
    BY <1>2 DEF Answers, SameTransaction
  <1>4. q.cseq # 0 /\ q.cseq \in Nat /\ q.cseq <= call.cseq
    BY <1>1, <1>3 DEF Mine, CallOpen, SipTypeOK, Request
  <1>5. m.cseq \in {1, 2} /\ m.cseq <= call.cseq
    BY <1>1, <1>3, <1>4
  <1>6. ASSUME m.status >= 200, m.status \notin {401, 407}
        PROVE  m.cseq = call.cseq
    <2> SUFFICES ASSUME call.cseq = 2, m.cseq = 1 PROVE FALSE
      BY <1>1, <1>5
    <2>1. PICK r \in responses :
             r.call = call.id /\ r.cseq = 1 /\ r.status \in {401, 407}
      BY DEF Retried, WasChallenged
    <2>2. SameTransaction(r, m) /\ r.status >= 200
      BY <2>1 DEF SameTransaction
    <2>3. r = m
      BY <1>6, <2>2 DEF OneFinal
    <2> QED
      BY <1>6, <2>1, <2>3
  <1> QED
    BY <1>5, <1>6
----------------------------------------------------------------------------
(* A method that returns with nothing rejected, without a Call.            *)
LEMMA ReturnsMatched ==
    ASSUME DialogInv, MatchInv, Traffic', AckIsOwed', call' = NoCall,
           op' = "none", outcome' # "rejected"
    PROVE  MatchInv'
  BY DEF MatchInv, Retried, InTrying, AnsweredIsReal, NoCall, Rejected

(* A step that leaves the call in the hands of the bridge.                 *)
LEMMA GoesOnMatched ==
    ASSUME MatchInv, Traffic', AckIsOwed', responses' = responses,
           requests \subseteq requests', call' # NoCall,
           outcome' # "rejected",
           call'.cseq = 2 => WasChallenged',
           op' \in {"invite_top", "invite_recv"} => call'.state = "Trying",
           call'.state = "Answered" =>
               \E r \in responses : /\ r.call = call'.id /\ r.cseq = call'.cseq
                                    /\ r.status = 200
    PROVE  MatchInv'
  BY DEF MatchInv, Retried, InTrying, AnsweredIsReal, Own, Rejected

LEMMA StaysOwed ==
    ASSUME MatchInv, responses' = responses,
           \A a \in requests' : IsAck(a) => \/ a \in requests
               \/ \E r \in responses : SameTransaction(r, a) /\ r.status >= 200
    PROVE  AckIsOwed'
  BY DEF MatchInv, AckIsOwed

LEMMA StaysChallenged ==
    ASSUME WasChallenged, responses \subseteq responses',
           requests \subseteq requests', call'.id = call.id
    PROVE  WasChallenged'
  BY DEF WasChallenged

(* A step of the client that sends nothing.                                *)
LEMMA SendsNothing ==
    ASSUME MatchInv, responses' = responses, requests' = requests
    PROVE  Traffic' /\ AckIsOwed'
  <1>1. Traffic'
    BY ClientTraffic DEF MatchInv
  <1> QED
    BY <1>1, StaysOwed

(* Inside invite() or with a Call in hand nothing has been rejected.       *)
LEMMA NotRejected ==
    ASSUME MatchInv, call # NoCall \/ op # "none"
    PROVE  outcome # "rejected"
  BY DEF MatchInv, Rejected
(* A step that keeps the identity of the Call and answers nothing.         *)
LEMMA KeepsCall ==
    ASSUME DialogInv, MatchInv, call # NoCall, outcome' # "rejected",
           Traffic', AckIsOwed', responses' = responses,
           requests \subseteq requests',
           call'.id = call.id, call'.cseq = call.cseq,
           call'.state \in {call.state, "EarlyMedia"},
           op' \in {"invite_top", "invite_recv"} =>
               op \in {"invite_top", "invite_recv"} /\ call'.state = call.state
    PROVE  MatchInv'
  <1>1. call' # NoCall
    <2>1. call.id > 0
      BY DEF DialogInv, HeldCall
    <2> QED
      BY <2>1 DEF NoCall
  <1>2. call'.cseq = 2 => WasChallenged'
    BY StaysChallenged DEF MatchInv, Retried
  <1>3. op' \in {"invite_top", "invite_recv"} => call'.state = "Trying"
    BY DEF MatchInv, InTrying
  <1>4. call'.state = "Answered" =>
            \E r \in responses : /\ r.call = call'.id /\ r.cseq = call'.cseq
                                 /\ r.status = 200
    BY DEF MatchInv, AnsweredIsReal, Own
  <1> QED
    BY <1>1, <1>2, <1>3, <1>4, GoesOnMatched

LEMMA TagKeeps ==
    ASSUME NEW c \in Calls, NEW m \in Response
    PROVE  /\ WithTag(c, m).id = c.id /\ WithTag(c, m).cseq = c.cseq
           /\ WithTag(c, m).state = c.state
           /\ \A x \in {"EarlyMedia", "Answered"} :
                 LET d == [WithRtp(WithTag(c, m), m) EXCEPT !.state = x]
                     e == [WithTag(WithRtp(c, m), m) EXCEPT !.state = x]
                 IN  /\ d.id = c.id /\ d.cseq = c.cseq /\ d.state = x
                     /\ e.id = c.id /\ e.cseq = c.cseq /\ e.state = x
  <1>1. WithTag(c, m).state = c.state
    BY DEF WithTag, Calls
  <1>2. WithTag(c, m) \in Calls /\ WithRtp(c, m) \in Calls
    BY CallUpdates
  <1>3. /\ WithRtp(WithTag(c, m), m) \in Calls
        /\ WithRtp(WithTag(c, m), m).id = c.id
        /\ WithRtp(WithTag(c, m), m).cseq = c.cseq
    BY <1>2, CallUpdates
  <1>4. /\ WithTag(WithRtp(c, m), m) \in Calls
        /\ WithTag(WithRtp(c, m), m).id = c.id
        /\ WithTag(WithRtp(c, m), m).cseq = c.cseq
    BY <1>2, CallUpdates
  <1>5. \A d \in Calls : \A x \in {"EarlyMedia", "Answered"} :
           /\ [d EXCEPT !.state = x].id = d.id
           /\ [d EXCEPT !.state = x].cseq = d.cseq
           /\ [d EXCEPT !.state = x].state = x
    BY DEF Calls
  <1> QED
    BY <1>1, <1>3, <1>4, <1>5, CallUpdates

(* The client's sends: what they are about, and that ACKs are owed.        *)
LEMMA SendsOne ==
    ASSUME MatchInv, responses' = responses, NEW q,
           requests' = requests \cup {q}, q.call # 0, q.cseq # 0,
           IsAck(q) => \E r \in responses : SameTransaction(r, q) /\ r.status >= 200
    PROVE  Traffic' /\ AckIsOwed'
  <1>1. Traffic'
    BY ClientTraffic DEF MatchInv
  <1> QED
    BY <1>1, StaysOwed
(* The ACK of a rejection leaves nothing open and nothing to acknowledge.  *)
LEMMA RejectsMatched ==
    ASSUME DialogInv, MatchInv, op = "invite_recv",
           NEW m \in responses, m.status >= 200, m.status \notin {401, 407},
           m.call = call.id, m.cseq = call.cseq,
           responses' = responses, placed' = placed,
           requests' = requests \cup {AckMsg(WithTag(call, m))},
           call' = NoCall, op' = "none"
    PROVE  MatchInv'
  <1> DEFINE a == AckMsg(WithTag(call, m))
  <1>1. call # NoCall /\ call \in Calls /\ m \in Response
    BY DEF DialogInv, InCall, SipTypeOK
  <1>2. /\ call.id # 0 /\ placed = call.id /\ call.cseq \in {1, 2}
    BY <1>1, HeldIds
  <1>3. WithTag(call, m).id = call.id /\ WithTag(call, m).cseq = call.cseq
    BY <1>1, TagKeeps
  <1>4. /\ a.call = call.id /\ a.cseq = call.cseq /\ IsAck(a)
        /\ a.method # "INVITE" /\ SameTransaction(m, a)
    BY <1>3 DEF AckMsg, IsAck, SameTransaction
  <1>5. requests' = requests \cup {a}
    OBVIOUS
  <1> HIDE DEF a
  <1>6. a.call # 0 /\ a.cseq # 0
    BY <1>2, <1>4
  <1>7. Traffic' /\ AckIsOwed'
    BY <1>4, <1>5, <1>6, SendsOne
  <1>8. ASSUME call.cseq = 2
        PROVE  /\ \E r \in responses : /\ r.call = call.id /\ r.cseq = 1
                                       /\ r.status \in {401, 407}
               /\ \E b \in requests :
                     b.call = call.id /\ b.cseq = 1 /\ IsAck(b)
    BY <1>1, <1>8 DEF MatchInv, Retried, WasChallenged
  <1>9. NoneOpen'
    <2> SUFFICES ASSUME NEW q \in requests', q.call = placed,
                        q.method = "INVITE"
                 PROVE  \E r \in responses : /\ r.call = q.call
                                             /\ r.cseq = q.cseq
                                             /\ r.status >= 200
      BY DEF NoneOpen, Open
    <2>1. q \in requests
      BY <1>4, <1>5
    <2>2. /\ q.call = call.id /\ q.cseq # 0 /\ q.cseq \in Nat
          /\ q.cseq <= call.cseq
      BY <1>1, <1>2, <2>1
         DEF MatchInv, Traffic, Mine, DialogInv, CallOpen, SipTypeOK, Request
    <2>3. CASE q.cseq = call.cseq
      BY <2>2, <2>3
    <2>4. CASE q.cseq # call.cseq
      <3>1. call.cseq = 2 /\ q.cseq = 1
        BY <1>2, <2>2, <2>4
      <3>2. PICK r \in responses :
               r.call = call.id /\ r.cseq = 1 /\ r.status \in {401, 407}
        BY <1>8, <3>1
      <3>3. r.status >= 200
        BY <3>2
      <3> QED
        BY <2>2, <3>1, <3>2, <3>3
    <2> QED
      BY <2>3, <2>4
  <1>10. ErrorsAcked'
    <2> SUFFICES ASSUME NEW r \in responses, r.call = placed
                 PROVE  \E b \in requests' : IsAck(b) /\ SameTransaction(r, b)
      BY DEF ErrorsAcked
    <2>1. r.call = call.id /\ r.cseq \in {1, 2} /\ r.cseq <= call.cseq
      BY <1>1, <1>2, Heard
    <2>2. CASE r.cseq = call.cseq
      BY <1>4, <1>5, <2>1, <2>2 DEF SameTransaction
    <2>3. CASE r.cseq # call.cseq
      <3>1. call.cseq = 2 /\ r.cseq = 1
        BY <1>2, <2>1, <2>3
      <3>2. PICK b \in requests : b.call = call.id /\ b.cseq = 1 /\ IsAck(b)
        BY <1>8, <3>1
      <3> QED
        BY <1>5, <2>1, <3>1, <3>2 DEF SameTransaction
    <2> QED
      BY <2>2, <2>3
  <1>11. Rejected'
    BY <1>9, <1>10 DEF Rejected
  <1> QED
    BY <1>7, <1>11
       DEF MatchInv, Retried, InTrying, AnsweredIsReal, NoCall

(* What the trunk sends takes nothing back, and after a rejection it has   *)
(* only a BYE to accept.                                                   *)
LEMMA TrunkMatched ==
    ASSUME DialogInv, MatchInv, Trunk
    PROVE  MatchInv'
  <1>1. /\ requests' = requests /\ responses \subseteq responses'
        /\ op' = op /\ outcome' = outcome /\ call' = call /\ placed' = placed
    BY DEF Trunk, TrunkReplies, TrunkAcceptsBye
  <1>2. Traffic'
    BY TrunkTraffic DEF MatchInv, DialogInv
  <1>3. Retried' /\ InTrying'
    BY <1>1, StaysChallenged DEF MatchInv, Retried, InTrying
  <1>4. AnsweredIsReal' /\ AckIsOwed'
    BY <1>1 DEF MatchInv, AnsweredIsReal, Own, AckIsOwed
  <1>5. Rejected'
    <2> SUFFICES ASSUME outcome = "rejected" PROVE NoneOpen' /\ ErrorsAcked'
      BY <1>1 DEF MatchInv, Rejected
    <2>1. NoneOpen /\ ErrorsAcked
      BY DEF MatchInv, Rejected
    <2>2. PICK q \in requests, s \in Statuses, body \in Sdps \cup {NoSdp} :
                  TrunkSent(q, s, body)
      BY TrunkSteps
    <2>3. ErrorsAcked'
      <3> DEFINE r == Reply(q.call, q.cseq, s, body)
      <3>1. responses' = responses \cup {r}
        BY <2>2 DEF TrunkSent
      <3>2. r.call # placed \/ r.status = 200
        BY <2>1, <2>2 DEF TrunkSent, NoneOpen, Reply
      <3> HIDE DEF r
      <3> QED
        BY <1>1, <2>1, <3>1, <3>2 DEF ErrorsAcked
    <2>4. NoneOpen'
      BY <1>1, <2>1 DEF NoneOpen, Open
    <2> QED
      BY <2>3, <2>4
  <1> QED
    BY <1>2, <1>3, <1>4, <1>5 DEF MatchInv
----------------------------------------------------------------------------
(* Every step of the client that matches its responses keeps it.           *)
LEMMA MatchStep == DialogInv /\ MatchInv /\ [OwnNext]_sipVars => MatchInv'
  <1> SUFFICES ASSUME DialogInv, MatchInv, [OwnNext]_sipVars PROVE MatchInv'
    OBVIOUS
  <1>a. /\ SipTypeOK /\ call \in Calls /\ loop \in Loops
        /\ requests \subseteq Request /\ responses \subseteq Response
        /\ HeldCall /\ InCall /\ CallOpen
    BY DEF DialogInv, SipTypeOK
  <1>1. ASSUME NEW sent \in Sends, Invite(sent) PROVE MatchInv'
    <2>1. placed + 1 # 0
      BY <1>a DEF SipTypeOK, Ids
    <2>2. responses' = responses
      BY <1>1 DEF Invite
    <2>3. CASE sent
      <3> DEFINE q == InviteMsg(placed + 1, 1, FALSE)
      <3>1. /\ requests' = requests \cup {q} /\ outcome' = "none"
            /\ call' = NewCall(placed + 1)
        BY <1>1, <2>3 DEF Invite
      <3>2. q.call # 0 /\ q.cseq = 1 /\ ~IsAck(q)
        BY <2>1 DEF InviteMsg, IsAck
      <3> HIDE DEF q
      <3>3. Traffic' /\ AckIsOwed'
        BY <2>2, <3>1, <3>2, SendsOne
      <3>4. /\ call' # NoCall /\ call'.cseq = 1 /\ call'.state = "Trying"
        BY <3>1 DEF NewCall, NoCall
      <3> QED
        BY <2>2, <3>1, <3>3, <3>4, GoesOnMatched
    <2>4. CASE ~sent
      <3>1. /\ requests' = requests /\ outcome' = "send_error"
            /\ call' = NoCall /\ op' = "none"
        BY <1>1, <2>4 DEF Invite, Return
      <3> QED
        BY <2>2, <3>1, SendsNothing, ReturnsMatched
    <2> QED
      BY <2>3, <2>4
  <1>2. CASE InviteTimesOut \/ InviteCancelled \/ ByeReturns
    <2>1. /\ responses' = responses /\ requests' = requests /\ call' = NoCall
          /\ op' = "none" /\ outcome' # "rejected"
      BY <1>2 DEF InviteTimesOut, InviteCancelled, ByeReturns, Fail, Return
    <2> QED
      BY <2>1, SendsNothing, ReturnsMatched
  <1>3. CASE InvitePanics \/ InviteListens \/ InviteHearsNothing
    <2>1. /\ responses' = responses /\ requests' = requests /\ call' = call
          /\ outcome' = outcome /\ op \in {"invite_top", "invite_recv"}
      BY <1>3 DEF InvitePanics, InviteListens, InviteHearsNothing, NextTurn
    <2>2. call # NoCall /\ outcome # "rejected"
      BY <1>a, <2>1, NotRejected DEF InCall
    <2> QED
      BY <2>1, <2>2, SendsNothing, KeepsCall
  <1>4. ASSUME NEW sent \in Sends, InviteRetransmits(sent) PROVE MatchInv'
    <2>1. op = "invite_top" /\ call # NoCall /\ outcome # "rejected"
      BY <1>a, <1>4, NotRejected DEF InviteRetransmits, InCall
    <2>2. responses' = responses
      BY <1>4 DEF InviteRetransmits, Fail
    <2>3. CASE sent
      <3> DEFINE q == InviteMsg(call.id, 1, FALSE)
      <3>1. requests' = requests \cup {q} /\ call' = call /\ outcome' = outcome
        BY <1>4, <2>3 DEF InviteRetransmits
      <3>2. call.id # 0
        BY <2>1, HeldIds
      <3>3. q.call # 0 /\ q.cseq = 1 /\ ~IsAck(q)
        BY <3>2 DEF InviteMsg, IsAck
      <3> HIDE DEF q
      <3>4. Traffic' /\ AckIsOwed'
        BY <2>2, <3>1, <3>3, SendsOne
      <3> QED
        BY <2>1, <2>2, <3>1, <3>4, KeepsCall
    <2>4. CASE ~sent
      <3>1. /\ requests' = requests /\ outcome' = "send_error"
            /\ call' = NoCall /\ op' = "none"
        BY <1>4, <2>4 DEF InviteRetransmits, Fail, Return
      <3> QED
        BY <2>2, <3>1, SendsNothing, ReturnsMatched
    <2> QED
      BY <2>3, <2>4
  <1>5. ASSUME NEW m \in responses,
               \/ InviteSkipsStale(m) \/ InviteTrying(m) \/ InviteRinging(m)
               \/ InviteUnexpected(m)
        PROVE  MatchInv'
    <2>1. /\ responses' = responses /\ requests' = requests
          /\ call' \in {call, WithTag(call, m)}
          /\ outcome' = outcome /\ op = "invite_recv"
      BY <1>5 DEF InviteSkipsStale, InviteTrying, InviteRinging,
         InviteUnexpected, NextTurn, InviteRecv
    <2>2. call # NoCall /\ outcome # "rejected"
      BY <1>a, <2>1, NotRejected DEF InCall
    <2>3. call'.id = call.id /\ call'.cseq = call.cseq /\ call'.state = call.state
      BY <1>a, <2>1, TagKeeps
    <2> QED
      BY <2>1, <2>2, <2>3, SendsNothing, KeepsCall
  <1>6. ASSUME NEW m \in responses, InviteEarlyMedia(m) PROVE MatchInv'
    <2>1. /\ responses' = responses /\ requests' = requests
          /\ call' = [WithRtp(WithTag(call, m), m) EXCEPT !.state = "EarlyMedia"]
          /\ outcome' = "ok" /\ op = "invite_recv" /\ op' = "none"
      BY <1>6 DEF InviteEarlyMedia, InviteRecv, Return
    <2>2. call # NoCall
      BY <1>a, <2>1 DEF InCall
    <2>3. /\ call'.id = call.id /\ call'.cseq = call.cseq
          /\ call'.state = "EarlyMedia"
      BY <1>a, <2>1, TagKeeps
    <2> QED
      BY <2>1, <2>2, <2>3, SendsNothing, KeepsCall
  <1>7. ASSUME NEW m \in responses, m.call = call.id, InviteAnswered(m)
        PROVE  MatchInv'
    <2>1. /\ responses' = responses /\ requests' = requests
          /\ call' = [WithRtp(WithTag(call, m), m) EXCEPT !.state = "Answered"]
          /\ outcome' = "ok" /\ op = "invite_recv" /\ op' = "none"
          /\ m.status = 200 /\ m.cseq = call.cseq
      BY <1>7 DEF InviteAnswered, InviteRecv, Return, Success, Fresh
    <2>2. call # NoCall
      BY <1>a, <2>1 DEF InCall
    <2>3. /\ call'.id = call.id /\ call'.cseq = call.cseq
          /\ call'.state = "Answered"
      BY <1>a, <2>1, TagKeeps
    <2>4. call.id # 0
      BY <2>2, HeldIds
    <2>5. call' # NoCall
      BY <2>3, <2>4 DEF NoCall
    <2>6. call'.cseq = 2 => WasChallenged'
      BY <2>1, <2>2, <2>3, StaysChallenged DEF MatchInv, Retried
    <2> QED
      BY <1>7, <2>1, <2>3, <2>5, <2>6, SendsNothing, GoesOnMatched
  <1>8. ASSUME NEW m \in responses, InviteAuthFails(m) PROVE MatchInv'
    <2>1. /\ responses' = responses /\ requests' = requests /\ call' = NoCall
          /\ op' = "none" /\ outcome' # "rejected"
      BY <1>8 DEF InviteAuthFails, Fail, Return
    <2> QED
      BY <2>1, SendsNothing, ReturnsMatched
  <1>9. ASSUME NEW m \in responses, NEW acked \in Sends,
               m.call = call.id, InviteRejected(m, acked)
        PROVE  MatchInv'
    <2>1. /\ responses' = responses /\ placed' = placed /\ call' = NoCall
          /\ op = "invite_recv" /\ op' = "none"
          /\ m.status >= 200 /\ m.status \notin {401, 407}
          /\ m.cseq = call.cseq
      BY <1>9 DEF InviteRejected, InviteRecv, Fresh, Fail, Return
    <2>2. call # NoCall
      BY <1>a, <2>1 DEF InCall
    <2>3. CASE acked
      <3>1. /\ requests' = requests \cup {AckMsg(WithTag(call, m))}
            /\ outcome' = "rejected"
        BY <1>9, <2>3 DEF InviteRejected, Fail, Return
      <3> QED
        BY <1>9, <2>1, <3>1, RejectsMatched
    <2>4. CASE ~acked
      <3>1. requests' = requests /\ outcome' = "send_error"
        BY <1>9, <2>4 DEF InviteRejected, Fail, Return
      <3> QED
        BY <2>1, <3>1, SendsNothing, ReturnsMatched
    <2> QED
      BY <2>3, <2>4
  <1>10. ASSUME NEW m \in responses, NEW acked \in Sends, NEW sent \in Sends,
                m.call = call.id, InviteChallenged(m, acked, sent)
         PROVE  MatchInv'
    <2> DEFINE c == WithTag(call, m)
               a == AckMsg(c)
               q == InviteMsg(c.id, c.cseq + 1, TRUE)
    <2>1. /\ responses' = responses /\ op = "invite_recv"
          /\ m.status \in {401, 407} /\ m.cseq = call.cseq
          /\ ~loop.auth_retry_done
      BY <1>10 DEF InviteChallenged, InviteRecv, Fresh, MayRetryAuth, Fail
    <2>2. call # NoCall /\ outcome # "rejected"
      BY <1>a, <2>1, NotRejected DEF InCall
    <2>3. call.id # 0 /\ m.call = call.id
      BY <1>10, <2>2, HeldIds
    <2>4. call.cseq = 1
      BY <2>1 DEF DialogInv, RetryCseq
    <2>5. /\ c.id = call.id /\ c.cseq = 1 /\ c.state = call.state
          /\ c \in Calls
      BY <1>a, <2>4, TagKeeps, CallUpdates
    <2>6. /\ a.call = call.id /\ a.cseq = 1 /\ IsAck(a)
          /\ SameTransaction(m, a)
      BY <2>1, <2>3, <2>4, <2>5 DEF AckMsg, IsAck, SameTransaction
    <2>7. q.call = call.id /\ q.cseq = 2 /\ ~IsAck(q)
      BY <2>5 DEF InviteMsg, IsAck
    <2>8. m.status >= 200
      BY <2>1
    <2>9. CASE ~acked
      <3>1. /\ requests' = requests /\ call' = NoCall /\ op' = "none"
            /\ outcome' = "send_error"
        BY <1>10, <2>9 DEF InviteChallenged, Fail, Return
      <3> QED
        BY <2>1, <3>1, SendsNothing, ReturnsMatched
    <2>10. CASE acked /\ ~sent
      <3>1. /\ requests' = requests \cup {a} /\ call' = NoCall /\ op' = "none"
            /\ outcome' = "send_error"
        BY <1>10, <2>10 DEF InviteChallenged, Fail, Return
      <3> HIDE DEF a
      <3>2. Traffic' /\ AckIsOwed'
        BY <2>1, <2>3, <2>6, <2>8, <3>1, SendsOne
      <3> QED
        BY <3>1, <3>2, ReturnsMatched
    <2>11. CASE acked /\ sent
      <3>1. /\ requests' = requests \cup {a, q} /\ op' = "invite_top"
            /\ call' = [c EXCEPT !.cseq = @ + 1] /\ outcome' = outcome
        BY <1>10, <2>11 DEF InviteChallenged
      <3>2. call'.id = call.id /\ call'.cseq = 2 /\ call'.state = call.state
        BY <2>5, <3>1 DEF Calls
      <3>3. call.state = "Trying"
        BY <2>1 DEF MatchInv, InTrying
      <3> HIDE DEF a, q, c
      <3>4. Traffic'
        BY <2>1, <2>3, <2>6, <2>7, <3>1, ClientTraffic DEF MatchInv
      <3>5. AckIsOwed'
        BY <2>1, <2>6, <2>7, <2>8, <3>1, StaysOwed
      <3>6. WasChallenged'
        BY <2>1, <2>3, <2>4, <2>6, <3>1, <3>2 DEF WasChallenged
      <3>7. call' # NoCall
        BY <3>2 DEF NoCall
      <3>8. outcome' # "rejected"
        BY <2>2, <3>1
      <3>9. call'.state = "Trying"
        BY <3>2, <3>3
      <3> QED
        BY <2>1, <3>1, <3>4, <3>5, <3>6, <3>7, <3>8, <3>9, GoesOnMatched
    <2> QED
      BY <2>9, <2>10, <2>11
  <1>11. ASSUME NEW sent \in Sends, Ack(sent) PROVE MatchInv'
    <2>1. /\ responses' = responses /\ call' = call /\ op = "none" /\ op' = op
          /\ call.state = "Answered" /\ outcome' # "rejected"
      BY <1>11 DEF Ack
    <2>2. call # NoCall
      BY <2>1 DEF NoCall
    <2>3. CASE sent
      <3> DEFINE a == AckMsg(call)
      <3>1. requests' = requests \cup {a}
        BY <1>11, <2>3 DEF Ack
      <3>2. PICK r \in responses : Own(r) /\ r.status = 200
        BY <2>1 DEF MatchInv, AnsweredIsReal
      <3>3. call.id # 0 /\ call.cseq \in {1, 2}
        BY <2>2, HeldIds
      <3>4. /\ a.call # 0 /\ a.cseq # 0 /\ SameTransaction(r, a)
            /\ r.status >= 200
        BY <3>2, <3>3 DEF AckMsg, SameTransaction, Own
      <3> HIDE DEF a
      <3>5. Traffic' /\ AckIsOwed'
        BY <2>1, <3>1, <3>4, SendsOne
      <3> QED
        BY <2>1, <2>2, <3>1, <3>5, KeepsCall
    <2>4. CASE ~sent
      <3>1. requests' = requests
        BY <1>11, <2>4 DEF Ack
      <3> QED
        BY <2>1, <2>2, <3>1, SendsNothing, KeepsCall
    <2> QED
      BY <2>3, <2>4
  <1>12. ASSUME NEW m \in responses, NEW sent \in Sends, m.call = call.id,
                PollAnswered(m, sent)
         PROVE  MatchInv'
    <2> DEFINE c == [WithTag(WithRtp(call, m), m) EXCEPT !.state = "Answered"]
               a == AckMsg(c)
    <2>1. /\ responses' = responses /\ call' = c /\ op = "none" /\ op' = op
          /\ call.state = "EarlyMedia" /\ outcome' # "rejected"
          /\ m.status = 200
      BY <1>12 DEF PollAnswered, Success
    <2>2. call # NoCall
      BY <2>1 DEF NoCall
    <2>3. /\ call.id # 0 /\ m.call = call.id /\ call.cseq \in {1, 2}
          /\ m.cseq = call.cseq
      BY <1>12, <2>1, <2>2, HeldIds, Heard
    <2>4. c.id = call.id /\ c.cseq = call.cseq
      BY <1>a, TagKeeps
    <2>5. a.call # 0 /\ a.cseq # 0 /\ SameTransaction(m, a)
      BY <2>3, <2>4 DEF AckMsg, SameTransaction
    <2> HIDE DEF a, c
    <2>6. /\ responses' = responses /\ requests \subseteq requests'
          /\ Traffic' /\ AckIsOwed'
      <3>1. CASE sent
        <4>1. requests' = requests \cup {a}
          BY <1>12, <3>1 DEF PollAnswered, a, c
        <4>2. m.status >= 200
          BY <2>1
        <4> QED
          BY <2>1, <2>5, <4>1, <4>2, SendsOne
      <3>2. CASE ~sent
        <4>1. requests' = requests
          BY <1>12, <3>2 DEF PollAnswered
        <4> QED
          BY <2>1, <4>1, SendsNothing
      <3> QED
        BY <3>1, <3>2
    <2>7. call'.id = call.id /\ call'.cseq = call.cseq /\ call' # NoCall
      BY <2>1, <2>3, <2>4 DEF NoCall
    <2>8. call'.cseq = 2 => WasChallenged'
      BY <2>2, <2>6, <2>7, StaysChallenged DEF MatchInv, Retried
    <2> QED
      BY <2>1, <2>3, <2>6, <2>7, <2>8, GoesOnMatched
  <1>13. ASSUME NEW m \in responses, PollFailed(m) PROVE MatchInv'
    <2>1. /\ responses' = responses /\ requests' = requests /\ call' = call
          /\ op = "none" /\ op' = op
          /\ call.state = "EarlyMedia" /\ outcome' # "rejected"
      BY <1>13 DEF PollFailed
    <2>2. call # NoCall
      BY <2>1 DEF NoCall
    <2> QED
      BY <2>1, <2>2, SendsNothing, KeepsCall
  <1>14. ASSUME NEW sent \in Sends, Bye(sent) PROVE MatchInv'
    <2>1. responses' = responses /\ op = "none" /\ call # NoCall
      BY <1>14 DEF Bye, Fail
    <2>2. CASE sent
      <3> DEFINE b == ByeMsg(call)
      <3>1. /\ requests' = requests \cup {b} /\ call' = call
            /\ outcome' = outcome /\ op' = "bye_recv"
        BY <1>14, <2>2 DEF Bye
      <3>2. call.id # 0
        BY <2>1, HeldIds
      <3>3. b.call # 0 /\ b.cseq # 0 /\ ~IsAck(b)
        BY <1>a, <3>2 DEF ByeMsg, IsAck, Calls
      <3> HIDE DEF b
      <3>4. Traffic' /\ AckIsOwed'
        BY <2>1, <3>1, <3>3, SendsOne
      <3>5. outcome' # "rejected"
        BY <2>1, <3>1, NotRejected
      <3> QED
        BY <2>1, <3>1, <3>4, <3>5, KeepsCall
    <2>3. CASE ~sent
      <3>1. /\ requests' = requests /\ call' = NoCall /\ op' = "none"
            /\ outcome' = "send_error"
        BY <1>14, <2>3 DEF Bye, Fail, Return
      <3> QED
        BY <2>1, <3>1, SendsNothing, ReturnsMatched
    <2> QED
      BY <2>2, <2>3
  <1>15. CASE Trunk
    BY <1>15, TrunkMatched
  <1>16. CASE UNCHANGED sipVars
    BY <1>16 DEF sipVars, MatchInv, Traffic, Mine, Asked, OneFinal, Retried,
       WasChallenged, InTrying, AnsweredIsReal, Own, AckIsOwed, Rejected,
       NoneOpen, Open, ErrorsAcked
  <1> QED
    BY <1>1, <1>2, <1>3, <1>4, <1>5, <1>6, <1>7, <1>8, <1>9, <1>10, <1>11,
       <1>12, <1>13, <1>14, <1>15, <1>16
       DEF OwnNext, Quiet, Hears
----------------------------------------------------------------------------
(* The failures that poll_answer() reports, when the trunk uses no 2xx but *)
(* 200, which the code alone recognises.                                   *)

KnownStatuses ==
    \A r \in responses : r.status >= 200 /\ r.status # 200 => r.status >= 300

Reports == Finals \cap 201 .. 299 = {} => KnownStatuses /\ PlainPollFailureIsReal

(* Only a failed poll reports one; other steps that leave the report keep  *)
(* the call's identity, or move it to its second INVITE.                   *)
LEMMA KeepsReport ==
    ASSUME DialogInv, OwnNext, outcome' = "call_failed",
           ~ \E m \in responses : m.call = call.id /\ PollFailed(m)
    PROVE  /\ outcome = "call_failed"
           /\ \/ call'.id = call.id /\ call'.cseq = call.cseq
              \/ call'.cseq # 1
  <1> SUFFICES ASSUME ~(/\ outcome = "call_failed"
                        /\ \/ call'.id = call.id /\ call'.cseq = call.cseq
                           \/ call'.cseq # 1)
               PROVE  FALSE
    OBVIOUS
  <1>a. call \in Calls /\ responses \subseteq Response
    BY DEF DialogInv, SipTypeOK
  <1>1. ASSUME NEW sent \in Sends, Invite(sent) PROVE FALSE
    BY <1>1 DEF Invite, Return
  <1>2. CASE \/ InviteTimesOut \/ InviteCancelled \/ ByeReturns
             \/ \E m \in responses : \/ InviteEarlyMedia(m)
                                     \/ InviteAnswered(m)
                                     \/ InviteAuthFails(m)
                                     \/ \E acked \in Sends :
                                           InviteRejected(m, acked)
    BY <1>2 DEF InviteTimesOut, InviteCancelled, ByeReturns, InviteEarlyMedia,
       InviteAnswered, InviteAuthFails, InviteRejected, Fail, Return
  <1>3. CASE InvitePanics \/ InviteListens \/ InviteHearsNothing \/ Trunk
    BY <1>3 DEF InvitePanics, InviteListens, InviteHearsNothing, NextTurn,
       Trunk, TrunkReplies, TrunkAcceptsBye
  <1>4. ASSUME NEW sent \in Sends,
               \/ InviteRetransmits(sent) \/ Ack(sent) \/ Bye(sent)
        PROVE  FALSE
    BY <1>4 DEF InviteRetransmits, Ack, Bye, Fail, Return
  <1>5. ASSUME NEW m \in responses,
               \/ InviteSkipsStale(m) \/ InviteTrying(m) \/ InviteRinging(m)
               \/ InviteUnexpected(m)
        PROVE  FALSE
    <2>1. WithTag(call, m).id = call.id /\ WithTag(call, m).cseq = call.cseq
      BY <1>a, CallUpdates
    <2> QED
      BY <1>5, <2>1 DEF InviteSkipsStale, InviteTrying, InviteRinging,
         InviteUnexpected, NextTurn
  <1>6. ASSUME NEW m \in responses, NEW acked \in Sends, NEW sent \in Sends,
               InviteChallenged(m, acked, sent)
        PROVE  FALSE
    <2> DEFINE c == WithTag(call, m)
    <2>1. c.id = call.id /\ c.cseq = call.cseq /\ c \in Calls
      BY <1>a, CallUpdates
    <2>2. CASE acked /\ sent
      <3>1. call' = [c EXCEPT !.cseq = @ + 1] /\ outcome' = outcome
        BY <1>6, <2>2 DEF InviteChallenged
      <3>2. call'.cseq = call.cseq + 1 /\ call'.id = call.id
        BY <2>1, <3>1 DEF Calls
      <3>3. op = "invite_recv"
        BY <1>6 DEF InviteChallenged, InviteRecv
      <3>4. call.cseq \in {1, 2}
        BY <3>3 DEF DialogInv, InCall, HeldCall
      <3> QED
        BY <3>1, <3>2, <3>4
    <2>3. CASE ~(acked /\ sent)
      BY <1>6, <2>3 DEF InviteChallenged, Fail, Return
    <2> QED
      BY <2>2, <2>3
  <1>7. ASSUME NEW m \in responses, NEW sent \in Sends, PollAnswered(m, sent)
        PROVE  FALSE
    BY <1>7 DEF PollAnswered
  <1> QED
    BY <1>1, <1>2, <1>3, <1>4, <1>5, <1>6, <1>7 DEF OwnNext, Quiet, Hears

LEMMA OnlyTrunkAnswers ==
    ASSUME SipNext
    PROVE  responses' = responses \/ Trunk
  <1>1. ASSUME NEW sent \in Sends,
               Invite(sent) \/ InviteRetransmits(sent) \/ Ack(sent) \/ Bye(sent)
        PROVE  responses' = responses
    BY <1>1 DEF Invite, InviteRetransmits, Ack, Bye, Fail
  <1>2. CASE \/ InvitePanics \/ InviteTimesOut \/ InviteListens
             \/ InviteHearsNothing \/ InviteCancelled \/ ByeReturns
    BY <1>2 DEF InvitePanics, InviteTimesOut, InviteListens,
       InviteHearsNothing, InviteCancelled, ByeReturns, NextTurn, Fail
  <1>3. ASSUME NEW m \in responses,
               \/ InviteSkipsStale(m) \/ InviteTrying(m) \/ InviteRinging(m)
               \/ InviteEarlyMedia(m) \/ InviteAnswered(m)
               \/ InviteAuthFails(m) \/ InviteUnexpected(m) \/ PollFailed(m)
        PROVE  responses' = responses
    BY <1>3 DEF InviteSkipsStale, InviteTrying, InviteRinging,
       InviteEarlyMedia, InviteAnswered, InviteAuthFails, InviteUnexpected,
       PollFailed, NextTurn, Fail
  <1>4. ASSUME NEW m \in responses, NEW acked \in Sends, NEW sent \in Sends,
               \/ InviteRejected(m, acked) \/ InviteChallenged(m, acked, sent)
               \/ PollAnswered(m, sent)
        PROVE  responses' = responses
    BY <1>4 DEF InviteRejected, InviteChallenged, PollAnswered, Fail
  <1> QED
    BY <1>1, <1>2, <1>3, <1>4 DEF SipNext, Caller, Poll, InviteStep

LEMMA StatusStep ==
    ASSUME Finals \cap 201 .. 299 = {}, SipTypeOK, KnownStatuses,
           [SipNext]_sipVars
    PROVE  KnownStatuses'
  <1>1. CASE responses' = responses
    BY <1>1 DEF KnownStatuses
  <1>2. CASE Trunk
    <2>1. PICK q \in requests, s \in Statuses, body \in Sdps \cup {NoSdp} :
                  TrunkSent(q, s, body)
      BY <1>2, TrunkSteps
    <2>2. Reply(q.call, q.cseq, s, body).status = s
      BY DEF Reply
    <2>3. s < 200 \/ s = 200 \/ s >= 300
      BY SipAssumption DEF Statuses
    <2> QED
      BY <2>1, <2>2, <2>3, SipAssumption DEF KnownStatuses, TrunkSent, Statuses
  <1>3. responses' = responses \/ Trunk
    BY OnlyTrunkAnswers DEF sipVars
  <1> QED
    BY <1>1, <1>2, <1>3

LEMMA ReportStep ==
    ASSUME DialogInv, MatchInv, KnownStatuses, PlainPollFailureIsReal,
           [OwnNext]_sipVars
    PROVE  PlainPollFailureIsReal'
  <1>a. [SipNext]_sipVars
    BY EveryStep DEF OwnNext
  <1>1. CASE UNCHANGED sipVars
    BY <1>1 DEF sipVars, PlainPollFailureIsReal, PollFailureIsReal, Own
  <1>2. CASE OwnNext /\ outcome' = "call_failed"
             /\ ~ \E m \in responses : m.call = call.id /\ PollFailed(m)
    <2>1. responses \subseteq responses'
      BY <1>a, <1>2, OnlyTrunkAnswers
         DEF Trunk, TrunkReplies, TrunkAcceptsBye, sipVars
    <2> QED
      BY <1>2, <2>1, KeepsReport
         DEF PlainPollFailureIsReal, PollFailureIsReal, Own
  <1>3. ASSUME NEW m \in responses, m.call = call.id, PollFailed(m)
        PROVE  PlainPollFailureIsReal'
    <2> SUFFICES ASSUME call.cseq = 1
                 PROVE  \E r \in responses : Own(r) /\ r.status >= 300
      BY <1>3
         DEF PlainPollFailureIsReal, PollFailureIsReal, PollFailed, Own
    <2>1. /\ call # NoCall /\ op # "bye_recv"
          /\ m.status >= 200 /\ m.status # 200
      BY <1>3 DEF PollFailed, Success, NoCall
    <2>2. m.cseq \in {1, 2} /\ m.cseq <= call.cseq
      BY <1>3, <2>1, Heard
    <2>3. m.cseq = 1
      BY <2>2
    <2>4. m.status >= 300
      BY <2>1 DEF KnownStatuses
    <2> QED
      BY <1>3, <2>3, <2>4 DEF Own
  <1>4. CASE outcome' # "call_failed"
    BY <1>4 DEF PlainPollFailureIsReal, PollFailureIsReal
  <1> QED
    BY <1>1, <1>2, <1>3, <1>4

(* All of it together: what the client believes is true.                   *)
BeliefInv == MatchInv /\ Reports

LEMMA BeliefInit == SipInit => BeliefInv
  <1>1. SipInit => Reports
    BY DEF SipInit, Residues, Reply, Reports, KnownStatuses,
       PlainPollFailureIsReal, PollFailureIsReal
  <1> QED
    BY <1>1, MatchInit DEF BeliefInv

LEMMA BeliefStep == DialogInv /\ BeliefInv /\ [OwnNext]_sipVars => BeliefInv'
  <1> SUFFICES ASSUME DialogInv, MatchInv, Reports, [OwnNext]_sipVars
               PROVE  MatchInv' /\ Reports'
    BY DEF BeliefInv
  <1>1. [SipNext]_sipVars
    BY EveryStep DEF OwnNext
  <1>2. MatchInv'
    BY MatchStep
  <1>3. ASSUME Finals \cap 201 .. 299 = {}
        PROVE  KnownStatuses' /\ PlainPollFailureIsReal'
    BY <1>1, <1>3, StatusStep, ReportStep DEF Reports, DialogInv
  <1> QED
    BY <1>2, <1>3 DEF Reports
----------------------------------------------------------------------------
(* Calls are only ever added, so that a process at its first call has had  *)
(* no other before.                                                        *)
LEMMA PlacedGrows ==
    ASSUME SipTypeOK, [SipNext]_sipVars
    PROVE  placed \in Nat /\ placed' \in {placed, placed + 1}
  <1>1. ASSUME NEW sent \in Sends,
               Invite(sent) \/ InviteRetransmits(sent) \/ Ack(sent) \/ Bye(sent)
        PROVE  placed' \in {placed, placed + 1}
    BY <1>1 DEF Invite, InviteRetransmits, Ack, Bye, Fail
  <1>2. ASSUME \/ InvitePanics \/ InviteTimesOut \/ InviteListens
               \/ InviteHearsNothing \/ InviteCancelled \/ ByeReturns
        PROVE  placed' = placed
    BY <1>2 DEF InvitePanics, InviteTimesOut, InviteListens,
       InviteHearsNothing, InviteCancelled, ByeReturns, NextTurn, Fail
  <1>3. ASSUME NEW m \in responses,
               \/ InviteSkipsStale(m) \/ InviteTrying(m) \/ InviteRinging(m)
               \/ InviteEarlyMedia(m) \/ InviteAnswered(m)
               \/ InviteAuthFails(m) \/ InviteUnexpected(m) \/ PollFailed(m)
        PROVE  placed' = placed
    BY <1>3 DEF InviteSkipsStale, InviteTrying, InviteRinging,
       InviteEarlyMedia, InviteAnswered, InviteAuthFails, InviteUnexpected,
       PollFailed, NextTurn, Fail
  <1>4. ASSUME NEW m \in responses, NEW acked \in Sends, NEW sent \in Sends,
               \/ InviteRejected(m, acked) \/ InviteChallenged(m, acked, sent)
               \/ PollAnswered(m, sent)
        PROVE  placed' = placed
    BY <1>4 DEF InviteRejected, InviteChallenged, PollAnswered, Fail
  <1>5. ASSUME Trunk \/ UNCHANGED sipVars
        PROVE  placed' = placed
    BY <1>5 DEF Trunk, TrunkReplies, TrunkAcceptsBye, sipVars
  <1>6. placed \in Nat
    BY DEF SipTypeOK, Ids
  <1> QED
    BY <1>1, <1>2, <1>3, <1>4, <1>5, <1>6 DEF SipNext, Caller, Poll, InviteStep

(* Nothing is heard that is not of a call.                                 *)
Registered == \A r \in responses : r.call # 0

LEMMA StaysRegistered ==
    ASSUME Mine, Registered, [SipNext]_sipVars
    PROVE  Registered'
  <1>1. CASE Trunk
    <2>1. PICK q \in requests, s \in Statuses, body \in Sdps \cup {NoSdp} :
                  TrunkSent(q, s, body)
      BY <1>1, TrunkSteps
    <2>2. Reply(q.call, q.cseq, s, body).call = q.call
      BY DEF Reply
    <2> QED
      BY <2>1, <2>2 DEF TrunkSent, Registered, Mine
  <1>2. CASE responses' = responses
    BY <1>2 DEF Registered
  <1> QED
    BY <1>1, <1>2, OnlyTrunkAnswers DEF sipVars

(* Then in its first call the client hears no other dialog.                *)
LEMMA FirstHearsOwn ==
    ASSUME DialogInv, MatchInv, Registered, placed <= 1, [SipNext]_sipVars
    PROVE  [OwnNext]_sipVars
  <1> SUFFICES ASSUME NEW m \in responses, Hears(m)
               PROVE  m.call = call.id
    BY EveryStep DEF OwnNext
  <1>1. call # NoCall
    <2>1. op = "invite_recv" \/ call.state = "EarlyMedia"
      BY DEF Hears, InviteSkipsStale, InviteTrying, InviteRinging,
         InviteEarlyMedia, InviteAnswered, InviteAuthFails, InviteUnexpected,
         InviteRejected, InviteChallenged, InviteRecv, PollFailed,
         PollAnswered
    <2> QED
      BY <2>1 DEF DialogInv, InCall, NoCall
  <1>2. call.id = 1 /\ placed = 1
    BY <1>1, HeldIds, SipAssumption DEF Ids
  <1>3. PICK q \in requests : m.call = q.call
    BY DEF MatchInv, Traffic, Asked, Registered, Answers, SameTransaction
  <1>4. q.call \in Nat /\ q.call # 0 /\ q.call <= placed
    BY DEF DialogInv, KnownCalls, SipTypeOK, Request, Ids, MatchInv, Traffic,
       Mine
  <1> QED
    BY <1>2, <1>3, <1>4

(* The whole of it holds until a second call is placed.                    *)
FirstBelief == placed <= 1 => BeliefInv /\ Registered

LEMMA FirstInvariant ==
    ASSUME RegisterResidue = FALSE
    PROVE  SipSpec => []FirstBelief
  <1>1. SipInit => FirstBelief
    BY BeliefInit DEF FirstBelief, Registered, SipInit, Residues
  <1>2. DialogInv /\ FirstBelief /\ [SipNext]_sipVars => FirstBelief'
    <2> SUFFICES ASSUME DialogInv, [SipNext]_sipVars, placed <= 1,
                        BeliefInv, Registered
                 PROVE  BeliefInv' /\ Registered'
      BY PlacedGrows DEF FirstBelief, DialogInv
    <2>1. MatchInv /\ Mine
      BY DEF BeliefInv, MatchInv, Traffic
    <2>2. [OwnNext]_sipVars
      BY <2>1, FirstHearsOwn
    <2> QED
      BY <2>1, <2>2, BeliefStep, StaysRegistered
  <1> QED
    BY <1>1, <1>2, DialogInvariant, PTL DEF SipSpec

(* As the code is, the bridge holds its first call to be answered only if  *)
(* the trunk has answered the INVITE that is outstanding, however many     *)
(* calls follow.                                                           *)
THEOREM AnswerIsReal ==
    ASSUME RegisterResidue = FALSE
    PROVE  SipSpec => [](placed <= 1 => AnsweredIsReal)
  <1>1. FirstBelief => (placed <= 1 => AnsweredIsReal)
    BY DEF FirstBelief, BeliefInv, MatchInv
  <1> QED
    BY <1>1, FirstInvariant, PTL

(* An ACK is only sent for a transaction that the trunk has finished, be   *)
(* it the ACK of an answer, of a challenge or of a rejection.              *)
THEOREM AcksAreOwed ==
    ASSUME RegisterResidue = FALSE
    PROVE  SipSpec => [](placed <= 1 => AckIsOwed)
  <1>1. FirstBelief => (placed <= 1 => AckIsOwed)
    BY DEF FirstBelief, BeliefInv, MatchInv
  <1> QED
    BY <1>1, FirstInvariant, PTL

(* invite() reports a rejection only once every error response of the call *)
(* was acknowledged, and the trunk has no other to come.                   *)
THEOREM RejectionsAreAcked ==
    ASSUME RegisterResidue = FALSE
    PROVE  SipSpec => [](placed <= 1 => RejectionIsAcked)
  <1>1. FirstBelief => (placed <= 1 => RejectionIsAcked)
    BY DEF FirstBelief, BeliefInv, MatchInv, Rejected, RejectionIsAcked
  <1> QED
    BY <1>1, FirstInvariant, PTL

(* poll_answer() reports a failed first call only if the trunk has ended   *)
(* the INVITE that is outstanding with an error, if never challenged.      *)
THEOREM PlainFailuresAreReal ==
    ASSUME RegisterResidue = FALSE, Finals \cap 201 .. 299 = {}
    PROVE  SipSpec => [](placed <= 1 => PlainPollFailureIsReal)
  <1>1. FirstBelief => (placed <= 1 => PlainPollFailureIsReal)
    BY DEF FirstBelief, BeliefInv, Reports
  <1> QED
    BY <1>1, FirstInvariant, PTL
=============================================================================
