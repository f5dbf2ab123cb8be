---------------------------- MODULE BridgeProofs ----------------------------
(***************************************************************************)
(* Proofs about module Bridge: it uses the SIP client as module Sip        *)
(* allows, and it implements the life cycle of module Session.             *)
(***************************************************************************)
EXTENDS Bridge, SipMatchingProofs, TLAPS

(* Where run() is tells the state of its session.                          *)
SessionAt ==
    /\ pc = "originate" => session = "Init"
    /\ pc \in {"bind", "setup", "inviting"} => session = "Originating"
    /\ pc \in {"no_rtp", "ack", "connect"} => session = "ConnectingMedia"
    /\ pc \in {"media", "relay_err", "teardown"} => session = "MediaActive"
    /\ pc = "terminate" => session = "Terminating"
    /\ pc \in {"register", "dial"} => session \notin {"MediaActive", "Terminating"}
    /\ pc # "exit_session"

LEMMA SessionAtInit == Init => SessionAt
  BY DEF Init, SessionAt

(* A step of run() keeps them together, and changes the session only by a  *)
(* transition of the table or by a new one.                                *)
LEMMA SessionAtStep ==
    SessionAt /\ [Next]_vars => SessionAt' /\ [S!New \/ S!Transition]_session
  <1> SUFFICES ASSUME SessionAt, [Next]_vars
               PROVE  /\ SessionAt'
                      /\ S!New \/ S!Transition \/ session' = session
    OBVIOUS
  <1> USE DEF SessionAt, Exits
  <1>1. CASE Registers \/ TooManyCalls \/ DialInvalid \/ DialEnds
    BY <1>1 DEF Registers, TooManyCalls, DialInvalid, DialEnds
  <1>2. CASE DialReceived
    BY <1>2 DEF DialReceived, S!New
  <1>3. CASE Originates \/ InviteSucceeded \/ StartsRelay
    <2>1. /\ S!IsValidTransition("Init", "Originating")
          /\ S!IsValidTransition("Originating", "ConnectingMedia")
          /\ S!IsValidTransition("ConnectingMedia", "MediaActive")
      BY DEF S!IsValidTransition
    <2>2. CASE Originates
      BY <2>1, <2>2
         DEF Originates, SessionStep, S!Transition, S!SessionStates
    <2>3. CASE InviteSucceeded
      <3>1. AfterInvite \in {"no_rtp", "ack", "connect"}
        BY DEF AfterInvite
      <3> QED
        BY <2>1, <2>3, <3>1
           DEF InviteSucceeded, SessionStep, S!Transition, S!SessionStates
    <2>4. CASE StartsRelay
      BY <2>1, <2>4
         DEF StartsRelay, SessionStep, S!Transition, S!SessionStates
    <2> QED
      BY <1>3, <2>2, <2>3, <2>4
  <1>4. CASE BindsRtp \/ InviteStarts \/ DrainFails \/ DrainPanics \/ InviteFailed
    BY <1>4 DEF BindsRtp, InviteStarts, DrainFails, DrainPanics, InviteFailed
  <1>5. CASE InviteGoesOn
    BY <1>5 DEF InviteGoesOn
  <1>6. CASE AcksAnswer
    BY <1>6 DEF AcksAnswer
  <1>7. CASE PollsAnswer \/ SlToRtpEnds \/ RtpToSlEnds \/ RelayReturns
    BY <1>7 DEF PollsAnswer, SlToRtpEnds, RtpToSlEnds, RelayReturns
  <1>8. CASE SlReadFails \/ RtpSendFails \/ SlWriteFails
    BY <1>8 DEF SlReadFails, RtpSendFails, SlWriteFails, RelayFails
  <1>9. CASE HangsUp \/ HungUpNoRtp \/ HungUpRelayError
    BY <1>9 DEF HangsUp, HungUpNoRtp, HungUpRelayError, HungUp, bridgeVars
  <1>10. CASE Terminates \/ Terminated
    <2>1. /\ S!IsValidTransition("MediaActive", "Terminating")
          /\ S!IsValidTransition("Terminating", "Terminated")
      BY DEF S!IsValidTransition
    <2> QED
      BY <1>10, <2>1 DEF Terminates, Terminated, HungUp, SessionStep,
         S!Transition, S!SessionStates
  <1>11. CASE SlmodemdCloses \/ TrunkSends \/ Stopped \/ UNCHANGED vars
    BY <1>11 DEF SlmodemdCloses, TrunkSends, Stopped, vars, bridgeVars
  <1> QED
    BY <1>1, <1>2, <1>3, <1>4, <1>5, <1>6, <1>7, <1>8, <1>9, <1>10, <1>11
       DEF Next, Run, Surroundings

LEMMA SessionAtInvariant == Spec => []SessionAt
  <1> QED
    BY SessionAtInit, SessionAtStep, PTL DEF Spec

(* No path of run(), for any number of calls and any trunk, meets a        *)
(* transition that the session refuses.                                    *)
THEOREM NeverRejects == Spec => []SessionNeverRejects
  <1>1. SessionAt => SessionNeverRejects
    BY DEF SessionAt, SessionNeverRejects
  <1> QED
    BY <1>1, SessionAtInvariant, PTL

(* run() implements the abstract life cycle: each of its steps is a        *)
(* transition of the table, a new session where one may be made, or leaves *)
(* the session alone.                                                      *)
THEOREM ImplementsLifecycle == Spec => CallLifecycle
  <1>1. Init => S!SessionInit
    BY DEF Init, S!SessionInit
  <1> QED
    BY <1>1, SessionAtInvariant, SessionAtStep, PTL
       DEF Spec, CallLifecycle, S!SessionSpec
----------------------------------------------------------------------------
(* The socket of slmodemd is at its end when its half of the relay has     *)
(* ended, and from then on.                                                *)
EndOfSocket ==
    /\ pc = "media" /\ sl_to_rtp = "done" => sl = "eof"
    /\ pc \in {"teardown", "terminate"} => sl = "eof"
    /\ session = "Terminated" => sl = "eof" /\ pc \in {"dial"} \cup Exits

LEMMA EndOfSocketStep ==
    SessionAt /\ SessionAt' /\ EndOfSocket /\ [Next]_vars
        => EndOfSocket' /\ [session = "Terminated" => session' = "Terminated"]_vars
  <1> SUFFICES ASSUME SessionAt, SessionAt', EndOfSocket, [Next]_vars
               PROVE  /\ EndOfSocket'
                      /\ session = "Terminated" => session' = "Terminated"
    OBVIOUS
  <1> USE DEF EndOfSocket, Exits, SessionAt, relayVars
  <1>1. CASE Registers \/ TooManyCalls \/ DialReceived \/ DialInvalid \/ DialEnds
    BY <1>1 DEF Registers, TooManyCalls, DialReceived, DialInvalid, DialEnds
  <1>2. CASE Originates \/ StartsRelay \/ InviteSucceeded
    BY <1>2
       DEF Originates, StartsRelay, InviteSucceeded, SessionStep, AfterInvite
  <1>3. CASE BindsRtp \/ InviteStarts \/ DrainFails \/ DrainPanics \/ InviteFailed
    BY <1>3 DEF BindsRtp, InviteStarts, DrainFails, DrainPanics, InviteFailed
  <1>4. CASE InviteGoesOn \/ AcksAnswer
    BY <1>4 DEF InviteGoesOn, AcksAnswer
  <1>5. CASE PollsAnswer \/ SlToRtpEnds \/ RtpToSlEnds \/ RelayReturns
    BY <1>5 DEF PollsAnswer, SlToRtpEnds, RtpToSlEnds, RelayReturns, RelayJoined
  <1>6. CASE SlReadFails \/ RtpSendFails \/ SlWriteFails
    BY <1>6 DEF SlReadFails, RtpSendFails, SlWriteFails, RelayFails
  <1>7. CASE HangsUp \/ HungUpNoRtp \/ HungUpRelayError
    BY <1>7 DEF HangsUp, HungUpNoRtp, HungUpRelayError, HungUp, bridgeVars,
         relayVars
  <1>8. CASE Terminates \/ Terminated
    BY <1>8 DEF Terminates, Terminated, HungUp, SessionStep
  <1>9. CASE SlmodemdCloses \/ TrunkSends \/ Stopped \/ UNCHANGED vars
    BY <1>9 DEF SlmodemdCloses, TrunkSends, Stopped, vars, bridgeVars, relayVars
  <1> QED
    BY <1>1, <1>2, <1>3, <1>4, <1>5, <1>6, <1>7, <1>8, <1>9
       DEF Next, Run, Surroundings

(* A call that ended in order is the last one of the process, because the  *)
(* relay only ends in order at the end of slmodemd's socket.               *)
THEOREM CompletedIsLast == Spec => CompletedCallIsLast
  <1>1. Init => EndOfSocket
    BY DEF Init, EndOfSocket
  <1> QED
    BY <1>1, SessionAtInvariant, EndOfSocketStep, PTL
       DEF Spec, CompletedCallIsLast
----------------------------------------------------------------------------
(* A step of the bridge is a step of the client or leaves it alone.        *)
LEMMA ClientStep == [Next]_vars => [SipNext]_sipVars
  <1> SUFFICES ASSUME [Next]_vars PROVE SipNext \/ UNCHANGED sipVars
    OBVIOUS
  <1>1. CASE InviteStarts \/ InviteGoesOn \/ DrainFails
    BY <1>1 DEF InviteStarts, InviteGoesOn, DrainFails, SipNext, Caller
  <1>2. CASE AcksAnswer \/ PollsAnswer \/ HangsUp \/ TrunkSends
    BY <1>2 DEF AcksAnswer, PollsAnswer, HangsUp, TrunkSends, SipNext, Caller
  <1>3. CASE \/ Registers \/ TooManyCalls \/ DialReceived \/ DialInvalid
             \/ DialEnds \/ Originates \/ BindsRtp \/ DrainPanics
             \/ InviteFailed \/ InviteSucceeded \/ StartsRelay
    BY <1>3 DEF Registers, TooManyCalls, DialReceived, DialInvalid, DialEnds,
       Originates, BindsRtp, DrainPanics, InviteFailed, InviteSucceeded,
       StartsRelay
  <1>4. CASE \/ SlToRtpEnds \/ RtpToSlEnds \/ SlReadFails \/ RtpSendFails
             \/ SlWriteFails \/ RelayReturns
    BY <1>4 DEF SlToRtpEnds, RtpToSlEnds, SlReadFails, RtpSendFails,
       SlWriteFails, RelayFails, RelayReturns
  <1>5. CASE \/ HungUpNoRtp \/ HungUpRelayError \/ Terminates \/ Terminated
             \/ SlmodemdCloses \/ Stopped \/ UNCHANGED vars
    BY <1>5 DEF HungUpNoRtp, HungUpRelayError, Terminates, Terminated,
       SlmodemdCloses, Stopped, vars
  <1> QED
    BY <1>1, <1>2, <1>3, <1>4, <1>5 DEF Next, Run, Surroundings

(* The bridge uses the client as Sip!Caller may: one method at a time, and *)
(* each in a state of the Call in which it is allowed.  What is proved of  *)
(* SipSpec for every caller is so proved of the bridge.                    *)
THEOREM UsesClient == Spec => SipSpec
  <1>1. Init => SipInit
    BY DEF Init
  <1> QED
    BY <1>1, ClientStep, PTL DEF Spec, SipSpec

(* On the wire, whatever way run() takes: BYE is the last request of its   *)
(* call, in CSeq and in time, and the only one of its kind, so that not    *)
(* even a repetition of a request follows it; and the credentials of a     *)
(* call go out in one INVITE only.                                         *)
THEOREM BridgeDialogs ==
    Spec => [](ByeIsLast /\ CredentialsOnce /\ NothingAfterBye)
  <1> QED
    BY UsesClient, ByeComesLast, CredentialsSentOnce, SilentAfterBye, PTL

(* Until the bridge places a second call, what it believes of the first is *)
(* what the trunk said: it does not ask for media, an ACK or an exit on    *)
(* the word of a response to something else.                               *)
THEOREM FirstCallIsReal ==
    ASSUME RegisterResidue = FALSE
    PROVE  Spec => [](placed <= 1 =>
                         AnsweredIsReal /\ AckIsOwed /\ RejectionIsAcked)
  <1>1. SipSpec => [](placed <= 1 => AnsweredIsReal)
    BY AnswerIsReal
  <1>2. SipSpec => [](placed <= 1 => AckIsOwed)
    BY AcksAreOwed
  <1>3. SipSpec => [](placed <= 1 => RejectionIsAcked)
    BY RejectionsAreAcked
  <1> QED
    BY <1>1, <1>2, <1>3, UsesClient, PTL
----------------------------------------------------------------------------
(* run() implements the loop of module CallPhases.                         *)

LEMMA PhaseStep ==
    SessionAt /\ [Next]_vars
        => [P!Dial \/ P!GoOn \/ P!Leave]_<<PhaseOf, calls_count>>
  <1> SUFFICES ASSUME SessionAt, [Next]_vars
               PROVE  \/ P!Dial \/ P!GoOn \/ P!Leave
                      \/ PhaseOf' = PhaseOf /\ calls_count' = calls_count
    OBVIOUS
  <1> USE DEF PhaseOf, P!Dial, P!GoOn, P!Leave, P!Successors
  <1>1. CASE Registers
    BY <1>1 DEF Registers
  <1>2. CASE TooManyCalls \/ DialInvalid \/ DialReceived \/ DialEnds
    BY <1>2 DEF TooManyCalls, DialInvalid, DialReceived, DialEnds
  <1>3. CASE Originates
    BY <1>3 DEF Originates, SessionStep
  <1>4. CASE BindsRtp \/ InviteStarts
    BY <1>4 DEF BindsRtp, InviteStarts
  <1>5. CASE InviteGoesOn
    BY <1>5 DEF InviteGoesOn
  <1>6. CASE DrainFails \/ DrainPanics \/ InviteFailed
    BY <1>6 DEF DrainFails, DrainPanics, InviteFailed
  <1>7. CASE InviteSucceeded
    BY <1>7 DEF InviteSucceeded, SessionStep, AfterInvite
  <1>8. CASE AcksAnswer
    BY <1>8 DEF AcksAnswer
  <1>9. CASE StartsRelay
    BY <1>9 DEF StartsRelay, SessionStep
  <1>10. CASE PollsAnswer \/ SlToRtpEnds \/ RtpToSlEnds \/ RelayReturns
    BY <1>10 DEF PollsAnswer, SlToRtpEnds, RtpToSlEnds, RelayReturns
  <1>11. CASE SlReadFails \/ RtpSendFails \/ SlWriteFails
    BY <1>11 DEF SlReadFails, RtpSendFails, SlWriteFails, RelayFails
  <1>12. CASE HangsUp
    BY <1>12 DEF HangsUp, bridgeVars
  <1>13. CASE HungUpNoRtp \/ HungUpRelayError
    BY <1>13 DEF HungUpNoRtp, HungUpRelayError, HungUp
  <1>14. CASE Terminates \/ Terminated
    BY <1>14 DEF Terminates, Terminated, HungUp, SessionStep
  <1>15. CASE SlmodemdCloses \/ TrunkSends \/ Stopped \/ UNCHANGED vars
    BY <1>15 DEF SlmodemdCloses, TrunkSends, Stopped, vars, bridgeVars
  <1> QED
    BY <1>1, <1>2, <1>3, <1>4, <1>5, <1>6, <1>7, <1>8, <1>9, <1>10, <1>11,
       <1>12, <1>13, <1>14, <1>15 DEF Next, Run, Surroundings

(* Whatever the SIP side does, somebody who sees only phases sees the loop *)
(* that SlSocket's half of the bridge implements, too: in particular every *)
(* relay is followed by a hang-up and no dial line is awaited before it.   *)
THEOREM ImplementsPhases == Spec => PhasesOnly
  <1>1. Init => P!PhaseInit
    BY DEF Init, P!PhaseInit, PhaseOf
  <1>2. SessionAt /\ [Next]_vars => [P!Dial \/ P!GoOn \/ P!Leave]_P!phaseVars
    BY PhaseStep DEF P!phaseVars
  <1> QED
    BY <1>1, <1>2, SessionAtInvariant, PTL DEF Spec, PhasesOnly, P!PhaseSpec
----------------------------------------------------------------------------
(* No method of the client is under way where the bridge waits for         *)
(* something else, and an answer poll belongs to a call without answer.    *)
PollInv ==
    /\ pc \in {"ack", "connect", "media"} => op = "none"
    /\ PollOnlyInRelay

LEMMA PollStep == SessionAt' /\ PollInv /\ [Next]_vars => PollInv'
  <1> SUFFICES ASSUME SessionAt', PollInv, [Next]_vars PROVE PollInv'
    OBVIOUS
  <1> USE DEF PollInv, PollOnlyInRelay, Exits
  <1>1. CASE Registers \/ TooManyCalls \/ DialReceived \/ DialInvalid \/ DialEnds
    BY <1>1 DEF Registers, TooManyCalls, DialReceived, DialInvalid, DialEnds,
       sipVars, relayVars
  <1>2. CASE Originates \/ BindsRtp \/ DrainPanics \/ InviteFailed
    BY <1>2 DEF Originates, BindsRtp, DrainPanics, InviteFailed, SessionStep,
       sipVars, relayVars
  <1>3. CASE InviteStarts \/ InviteGoesOn \/ DrainFails
    BY <1>3 DEF InviteStarts, InviteGoesOn, DrainFails, relayVars
  <1>4. CASE InviteSucceeded
    BY <1>4 DEF InviteSucceeded, SessionStep, AfterInvite, sipVars, relayVars
  <1>5. CASE AcksAnswer
    BY <1>5 DEF AcksAnswer, Ack, relayVars
  <1>6. CASE StartsRelay
    <2>1. polling' => call.state = "EarlyMedia"
      BY <1>6, Zenon DEF StartsRelay
    <2>2. pc = "connect" /\ pc' = "media" /\ call' = call /\ op' = op
      BY <1>6 DEF StartsRelay, SessionStep, SessionAt, sipVars
    <2> QED
      BY <2>1, <2>2
  <1>7. CASE PollsAnswer
    BY <1>7 DEF PollsAnswer, Poll, PollFailed, PollAnswered
  <1>8. CASE SlToRtpEnds \/ RtpToSlEnds \/ RelayReturns
    BY <1>8 DEF SlToRtpEnds, RtpToSlEnds, RelayReturns, sipVars
  <1>9. CASE SlReadFails \/ RtpSendFails \/ SlWriteFails
    BY <1>9 DEF SlReadFails, RtpSendFails, SlWriteFails, RelayFails, sipVars
  <1>10. CASE HangsUp
    BY <1>10 DEF HangsUp, bridgeVars, relayVars
  <1>11. CASE \/ HungUpNoRtp \/ HungUpRelayError \/ Terminates \/ Terminated
              \/ SlmodemdCloses
    BY <1>11 DEF HungUpNoRtp, HungUpRelayError, Terminates, Terminated, HungUp,
       SessionStep, SlmodemdCloses, sipVars, relayVars
  <1>12. CASE TrunkSends
    BY <1>12 DEF TrunkSends, Trunk, TrunkReplies, TrunkAcceptsBye, bridgeVars,
       relayVars
  <1>13. CASE Stopped \/ UNCHANGED vars
    BY <1>13 DEF Stopped, vars, sipVars, bridgeVars, relayVars
  <1> QED
    BY <1>1, <1>2, <1>3, <1>4, <1>5, <1>6, <1>7, <1>8, <1>9, <1>10, <1>11,
       <1>12, <1>13 DEF Next, Run, Surroundings

(* The answer poll reads the SIP socket only while no other method does.   *)
THEOREM PollsInRelay == Spec => []PollOnlyInRelay
  <1>1. Init => PollInv
    BY DEF Init, PollInv, PollOnlyInRelay
  <1>2. PollInv => PollOnlyInRelay
    BY DEF PollInv
  <1> QED
    BY <1>1, <1>2, SessionAtInvariant, PollStep, PTL DEF Spec
----------------------------------------------------------------------------
(* The rest is about sends that succeed: one that fails is not received.   *)

(* An answer is acknowledged on the way from the set-up to the relay.      *)
AckInv ==
    /\ pc = "connect" /\ call.state = "Answered" => CallAcked
    /\ AckedBeforeMedia

LEMMA AckStep ==
    ASSUME SendErrors = FALSE
    PROVE  AckInv /\ [Next]_vars => AckInv'
  <1> SUFFICES ASSUME AckInv, [Next]_vars PROVE AckInv'
    OBVIOUS
  <1> USE DEF AckInv, AckedBeforeMedia, CallAcked, Own, Exits
  <1>1. CASE Registers \/ TooManyCalls \/ DialReceived \/ DialInvalid \/ DialEnds
    BY <1>1 DEF Registers, TooManyCalls, DialReceived, DialInvalid, DialEnds
  <1>2. CASE Originates \/ BindsRtp \/ DrainPanics \/ InviteFailed
    BY <1>2 DEF Originates, BindsRtp, DrainPanics, InviteFailed, SessionStep
  <1>3. CASE InviteStarts \/ InviteGoesOn \/ DrainFails
    BY <1>3 DEF InviteStarts, InviteGoesOn, DrainFails
  <1>4. CASE InviteSucceeded
    BY <1>4 DEF InviteSucceeded, SessionStep, AfterInvite, sipVars
  <1>5. CASE AcksAnswer
    <2>1. /\ requests' = requests \cup {AckMsg(call)} /\ call' = call
          /\ pc' = "connect"
      <3>1. PICK sent \in Sends : Ack(sent) /\ pc' = IF sent THEN "connect"
                                                    ELSE "exit_err"
        BY <1>5 DEF AcksAnswer
      <3> QED
        BY <3>1 DEF Ack, Sends
    <2>2. LET a == AckMsg(call) IN IsAck(a) /\ Own(a) /\ a.tag = call.tag
      BY DEF AckMsg, IsAck
    <2> QED
      BY <2>1, <2>2
  <1>6. CASE StartsRelay
    BY <1>6 DEF StartsRelay, SessionStep, sipVars
  <1>7. CASE PollsAnswer
    <2>1. PICK m \in responses :
             PollFailed(m) \/ \E sent \in Sends : PollAnswered(m, sent)
      BY <1>7 DEF PollsAnswer, Poll
    <2>2. pc' = pc
      BY <1>7 DEF PollsAnswer
    <2>3. CASE PollFailed(m)
      BY <2>2, <2>3 DEF PollFailed
    <2>4. ASSUME NEW sent \in Sends, PollAnswered(m, sent) PROVE AckInv'
      <3> DEFINE c == [WithTag(WithRtp(call, m), m) EXCEPT !.state = "Answered"]
      <3>1. requests' = requests \cup {AckMsg(c)} /\ call' = c
            /\ pc' = "media"
        BY <1>7, <2>4 DEF PollAnswered, PollsAnswer, Sends
      <3>2. LET a == AckMsg(c)
            IN  IsAck(a) /\ a.call = c.id /\ a.cseq = c.cseq /\ a.tag = c.tag
        BY DEF AckMsg, IsAck
      <3> HIDE DEF c
      <3> QED
        BY <3>1, <3>2
    <2> QED
      BY <2>1, <2>3, <2>4
  <1>8. CASE SlToRtpEnds \/ RtpToSlEnds \/ RelayReturns
    BY <1>8 DEF SlToRtpEnds, RtpToSlEnds, RelayReturns, sipVars
  <1>9. CASE SlReadFails \/ RtpSendFails \/ SlWriteFails
    BY <1>9 DEF SlReadFails, RtpSendFails, SlWriteFails, RelayFails
  <1>10. CASE HangsUp
    BY <1>10 DEF HangsUp, bridgeVars
  <1>11. CASE \/ HungUpNoRtp \/ HungUpRelayError \/ Terminates \/ Terminated
              \/ SlmodemdCloses
    BY <1>11 DEF HungUpNoRtp, HungUpRelayError, Terminates, Terminated, HungUp,
       SessionStep, SlmodemdCloses, sipVars
  <1>12. CASE TrunkSends
    BY <1>12 DEF TrunkSends, Trunk, TrunkReplies, TrunkAcceptsBye, bridgeVars
  <1>13. CASE Stopped \/ UNCHANGED vars
    BY <1>13 DEF Stopped, vars, sipVars, bridgeVars
  <1> QED
    BY <1>1, <1>2, <1>3, <1>4, <1>5, <1>6, <1>7, <1>8, <1>9, <1>10, <1>11,
       <1>12, <1>13 DEF Next, Run, Surroundings

(* No audio flows in an answered call whose 200 was not acknowledged, in   *)
(* any order of answer, early media and relay.                             *)
THEOREM MediaIsAcked ==
    ASSUME SendErrors = FALSE
    PROVE  Spec => []AckedBeforeMedia
  <1>1. Init => AckInv
    BY DEF Init, AckInv, AckedBeforeMedia
  <1>2. AckInv => AckedBeforeMedia
    BY DEF AckInv
  <1>3. AckInv /\ [Next]_vars => AckInv'
    BY AckStep
  <1> QED
    BY <1>1, <1>2, <1>3, PTL DEF Spec
----------------------------------------------------------------------------
(* What the client alone guarantees of a call that was handed over and of  *)
(* one that is being hung up.                                              *)
HandedOver ==
    /\ outcome = "ok" => call.state # "None"
    /\ op = "bye_recv" => \E b \in requests : IsBye(b) /\ b.call = call.id
    /\ op \in {"invite_top", "invite_recv"} \/ call # NoCall => call.id # 0

LEMMA RequestsGrow == [SipNext]_sipVars => requests \subseteq requests'
  <1> SUFFICES ASSUME [SipNext]_sipVars PROVE requests \subseteq requests'
    OBVIOUS
  <1> USE DEF Fail, Return, NextTurn
  <1>1. ASSUME NEW sent \in Sends, Invite(sent) \/ Ack(sent) \/ Bye(sent)
        PROVE  requests \subseteq requests'
    BY <1>1 DEF Invite, Ack, Bye
  <1>2. CASE Poll
    BY <1>2 DEF Poll, PollFailed, PollAnswered
  <1>3. CASE InviteCancelled \/ ByeReturns \/ Trunk \/ UNCHANGED sipVars
    BY <1>3 DEF InviteCancelled, ByeReturns, Trunk, TrunkReplies,
       TrunkAcceptsBye, sipVars
  <1>4. CASE InvitePanics \/ InviteTimesOut \/ InviteListens \/ InviteHearsNothing
    BY <1>4 DEF InvitePanics, InviteTimesOut, InviteListens, InviteHearsNothing
  <1>5. ASSUME NEW sent \in Sends, InviteRetransmits(sent)
        PROVE  requests \subseteq requests'
    BY <1>5 DEF InviteRetransmits
  <1>6. ASSUME NEW m \in responses,
               \/ InviteSkipsStale(m) \/ InviteTrying(m) \/ InviteRinging(m)
               \/ InviteEarlyMedia(m) \/ InviteAnswered(m)
               \/ InviteAuthFails(m) \/ InviteUnexpected(m)
        PROVE  requests \subseteq requests'
    BY <1>6 DEF InviteSkipsStale, InviteTrying, InviteRinging, InviteEarlyMedia,
       InviteAnswered, InviteAuthFails, InviteUnexpected
  <1>7. ASSUME NEW m \in responses, NEW acked \in Sends, InviteRejected(m, acked)
        PROVE  requests \subseteq requests'
    BY <1>7 DEF InviteRejected
  <1>8. ASSUME NEW m \in responses, NEW acked \in Sends, NEW sent \in Sends,
               InviteChallenged(m, acked, sent)
        PROVE  requests \subseteq requests'
    BY <1>8 DEF InviteChallenged
  <1> QED
    BY <1>1, <1>2, <1>3, <1>4, <1>5, <1>6, <1>7, <1>8
       DEF SipNext, Caller, InviteStep

(* An answer that the relay polls changes no more of the Call than that.   *)
LEMMA PolledCall ==
    ASSUME NEW m \in responses, NEW sent \in Sends, SipTypeOK,
           PollAnswered(m, sent)
    PROVE  call'.id = call.id /\ call'.state = "Answered"
  <1> DEFINE w == WithRtp(call, m)
             d == WithTag(w, m)
  <1>1. d \in Calls /\ d.id = call.id
    BY CallUpdates DEF SipTypeOK
  <1>2. [d EXCEPT !.state = "Answered"].id = call.id
        /\ [d EXCEPT !.state = "Answered"].state = "Answered"
    BY <1>1 DEF Calls
  <1> QED
    BY <1>2, Zenon DEF PollAnswered

LEMMA HandedOverStep ==
    SipTypeOK /\ HandedOver /\ [SipNext]_sipVars => HandedOver'
  <1> SUFFICES ASSUME SipTypeOK, HandedOver, [SipNext]_sipVars PROVE HandedOver'
    OBVIOUS
  <1>0. call \in Calls
    BY DEF SipTypeOK
  <1> USE <1>0 DEF HandedOver, Fail, Return, NextTurn, WithTag, WithRtp, Calls
  <1>1. ASSUME NEW sent \in Sends, Invite(sent) \/ Ack(sent) \/ Bye(sent)
        PROVE  HandedOver'
    <2>1. CASE Invite(sent)
      <3>1. NewCall(placed + 1).id = placed + 1 /\ placed + 1 # 0
        BY SipAssumption DEF NewCall, SipTypeOK, Ids
      <3>2. CASE sent
        <4>1. outcome' = "none" /\ op' = "invite_top" /\ call'.id # 0
          BY <2>1, <3>1, <3>2, Zenon DEF Invite
        <4> QED
          BY <4>1
      <3> QED
        BY <2>1, <3>2 DEF Invite
    <2>2. CASE Ack(sent)
      BY <2>2 DEF Ack
    <2>3. CASE Bye(sent)
      <3>1. IsBye(ByeMsg(call)) /\ ByeMsg(call).call = call.id
        BY DEF IsBye, ByeMsg
      <3> QED
        BY <2>3, <3>1 DEF Bye
    <2> QED
      BY <1>1, <2>1, <2>2, <2>3
  <1>2. CASE Poll
    <2>1. PICK m \in responses :
             PollFailed(m) \/ \E sent \in Sends : PollAnswered(m, sent)
      BY <1>2 DEF Poll
    <2>2. CASE PollFailed(m)
      BY <2>2 DEF PollFailed
    <2>3. ASSUME NEW sent \in Sends, PollAnswered(m, sent) PROVE HandedOver'
      BY <2>3, PolledCall DEF PollAnswered, NoCall
    <2> QED
      BY <2>1, <2>2, <2>3
  <1>3. CASE InviteCancelled \/ ByeReturns \/ Trunk \/ UNCHANGED sipVars
    BY <1>3 DEF InviteCancelled, ByeReturns, Trunk, TrunkReplies,
       TrunkAcceptsBye, sipVars
  <1>4. CASE InvitePanics \/ InviteTimesOut \/ InviteListens \/ InviteHearsNothing
    BY <1>4 DEF InvitePanics, InviteTimesOut, InviteListens, InviteHearsNothing
  <1>5. ASSUME NEW sent \in Sends, InviteRetransmits(sent)
        PROVE  HandedOver'
    BY <1>5 DEF InviteRetransmits
  <1>6. ASSUME NEW m \in responses,
               \/ InviteSkipsStale(m) \/ InviteTrying(m) \/ InviteRinging(m)
               \/ InviteAuthFails(m) \/ InviteUnexpected(m)
        PROVE  HandedOver'
    <2>1. WithTag(call, m).id = call.id
      BY CallUpdates DEF SipTypeOK
    <2>2. CASE InviteAuthFails(m)
      BY <2>2 DEF InviteAuthFails
    <2>3. CASE ~InviteAuthFails(m)
      <3>1. op' = "invite_top" /\ op = "invite_recv"
            /\ call'.id = call.id
        BY <1>6, <2>1, <2>3 DEF InviteSkipsStale, InviteTrying, InviteRinging,
           InviteUnexpected, InviteRecv
      <3>2. outcome' = outcome /\ call'.state = call.state
        BY <1>6, <2>3, CallUpdates, <3>1
           DEF InviteSkipsStale, InviteTrying, InviteRinging, InviteUnexpected,
               SipTypeOK
      <3> QED
        BY <3>1, <3>2
    <2> QED
      BY <2>2, <2>3
  <1>7. ASSUME NEW m \in responses, InviteEarlyMedia(m) \/ InviteAnswered(m)
        PROVE  HandedOver'
    <2> DEFINE c == WithRtp(WithTag(call, m), m)
    <2>1. c \in Calls
      BY CallUpdates DEF SipTypeOK
    <2>2. /\ [c EXCEPT !.state = "EarlyMedia"].state = "EarlyMedia"
          /\ [c EXCEPT !.state = "Answered"].state = "Answered"
      BY <2>1
    <2>3. op' = "none" /\ call'.state \in {"EarlyMedia", "Answered"}
      BY <1>7, <2>2, Zenon DEF InviteEarlyMedia, InviteAnswered
    <2>4. [c EXCEPT !.state = "EarlyMedia"].id = call.id
          /\ [c EXCEPT !.state = "Answered"].id = call.id
      BY <2>1, CallUpdates DEF SipTypeOK
    <2>5. op = "invite_recv" /\ call'.id = call.id
      BY <1>7, <2>4, Zenon DEF InviteEarlyMedia, InviteAnswered, InviteRecv
    <2> QED
      BY <2>3, <2>5
  <1>8. ASSUME NEW m \in responses, NEW acked \in Sends, InviteRejected(m, acked)
        PROVE  HandedOver'
    BY <1>8 DEF InviteRejected
  <1>9. ASSUME NEW m \in responses, NEW acked \in Sends, NEW sent \in Sends,
               InviteChallenged(m, acked, sent)
        PROVE  HandedOver'
    <2> DEFINE c == WithTag(call, m)
    <2>1. c \in Calls /\ c.state = call.state /\ c.id = call.id
      BY CallUpdates DEF SipTypeOK
    <2>2. [c EXCEPT !.cseq = @ + 1].state = call.state
          /\ [c EXCEPT !.cseq = @ + 1].id = call.id
      BY <2>1
    <2>3. CASE acked /\ sent
      <3>1. op' = "invite_top" /\ outcome' = outcome
            /\ call'.state = call.state /\ call'.id = call.id
        BY <1>9, <2>2, <2>3, Zenon DEF InviteChallenged
      <3>2. op = "invite_recv"
        BY <1>9 DEF InviteChallenged, InviteRecv
      <3> QED
        BY <3>1, <3>2
    <2> QED
      BY <1>9, <2>3 DEF InviteChallenged
  <1> QED
    BY <1>1, <1>2, <1>3, <1>4, <1>5, <1>6, <1>7, <1>8, <1>9
       DEF SipNext, Caller, InviteStep

LEMMA HandedOverInvariant == Spec => [](SipTypeOK /\ HandedOver)
  <1>1. SipInit => HandedOver
    BY DEF SipInit, HandedOver
  <1>2. SipSpec => [](SipTypeOK /\ HandedOver)
    BY <1>1, SipTypeCorrect, HandedOverStep, PTL DEF SipSpec
  <1> QED
    BY <1>2, UsesClient, PTL

(* An established call has a BYE, or is in the hands of a part of run()    *)
(* that leads to one.                                                      *)
Holding == {"no_rtp", "ack", "connect", "media", "relay_err", "teardown"}

Byed(id) == \E b \in requests : IsBye(b) /\ b.call = id

Held(id) == id = call.id /\ call.state # "None" /\ pc \in Holding

TearInv == \A id \in established : Byed(id) \/ Held(id)

(* A step that takes nothing from the call or from the part that holds it. *)
LEMMA StillHeld ==
    ASSUME TearInv, established' = established, requests \subseteq requests',
           pc \in Holding /\ call.state # "None"
               => /\ pc' \in Holding /\ call'.state # "None"
                  /\ call'.id = call.id
    PROVE  TearInv'
  BY DEF TearInv, Byed, Held

(* The call is gone, but not without its BYE.                              *)
LEMMA LetGo ==
    ASSUME TearInv, established' = established, requests \subseteq requests',
           call.state = "None" \/ Byed(call.id)
    PROVE  TearInv'
  BY DEF TearInv, Byed, Held

LEMMA TearStep ==
    ASSUME SendErrors = FALSE
    PROVE  /\ SessionAt /\ SessionAt' /\ SipTypeOK /\ HandedOver
           /\ TearInv /\ [Next]_vars
           => TearInv'
  <1> SUFFICES ASSUME SessionAt, SessionAt', SipTypeOK, HandedOver, TearInv,
                      [Next]_vars
               PROVE  TearInv'
    OBVIOUS
  <1>0. requests \subseteq requests' /\ Sends = {TRUE}
    BY ClientStep, RequestsGrow DEF Sends
  <1> USE <1>0 DEF Holding, Exits
  <1>1. CASE Registers \/ TooManyCalls \/ DialReceived \/ DialInvalid \/ DialEnds
    BY <1>1, StillHeld DEF Registers, TooManyCalls, DialReceived, DialInvalid,
       DialEnds
  <1>2. CASE Originates \/ BindsRtp \/ DrainPanics \/ InviteFailed
    BY <1>2, StillHeld DEF Originates, BindsRtp, DrainPanics, InviteFailed
  <1>3. CASE InviteStarts \/ InviteGoesOn \/ DrainFails
    BY <1>3, StillHeld DEF InviteStarts, InviteGoesOn, DrainFails
  <1>4. CASE InviteSucceeded
    <2>1. established' = established \cup {call.id} /\ call.state # "None"
          /\ call' = call /\ pc = "inviting" /\ outcome = "ok"
      BY <1>4 DEF InviteSucceeded, HandedOver, sipVars
    <2>2. pc' \in Holding
      BY <1>4, <2>1 DEF InviteSucceeded, SessionStep, AfterInvite, SessionAt
    <2> QED
      BY <2>1, <2>2 DEF TearInv, Byed, Held
  <1>5. CASE AcksAnswer
    BY <1>5, StillHeld DEF AcksAnswer, Ack
  <1>6. CASE StartsRelay
    BY <1>6, StillHeld DEF StartsRelay, SessionStep, SessionAt, sipVars
  <1>7. CASE PollsAnswer
    <2>1. PICK m \in responses :
             PollFailed(m) \/ \E sent \in Sends : PollAnswered(m, sent)
      BY <1>7 DEF PollsAnswer, Poll
    <2>2. CASE PollFailed(m)
      BY <1>7, <2>2, StillHeld DEF PollsAnswer, PollFailed
    <2>3. ASSUME NEW sent \in Sends, PollAnswered(m, sent)
          PROVE  TearInv'
      BY <1>7, <2>3, PolledCall, StillHeld DEF PollsAnswer, PollAnswered
    <2> QED
      BY <2>1, <2>2, <2>3
  <1>8. CASE SlToRtpEnds \/ RtpToSlEnds \/ RelayReturns
    BY <1>8, StillHeld DEF SlToRtpEnds, RtpToSlEnds, RelayReturns, sipVars
  <1>9. CASE SlReadFails \/ RtpSendFails \/ SlWriteFails
    BY <1>9, StillHeld DEF SlReadFails, RtpSendFails, SlWriteFails, RelayFails,
       sipVars
  <1>10. CASE HangsUp
    <2>1. CASE \E sent \in Sends : Bye(sent)
      BY <1>10, <2>1, StillHeld DEF HangsUp, Bye, bridgeVars
    <2>2. CASE ByeReturns
      <3>1. Byed(call.id)
        BY <2>2 DEF ByeReturns, HandedOver, Byed
      <3> QED
        BY <1>10, <3>1, LetGo DEF HangsUp, bridgeVars
    <2> QED
      BY <1>10, <2>1, <2>2 DEF HangsUp
  <1>11. CASE HungUpNoRtp \/ HungUpRelayError \/ Terminates \/ Terminated
    BY <1>11, LetGo, StillHeld DEF HungUpNoRtp, HungUpRelayError, Terminates,
       Terminated, HungUp, SessionStep, NoCall
  <1>12. CASE TrunkSends
    BY <1>12, StillHeld
       DEF TrunkSends, Trunk, TrunkReplies, TrunkAcceptsBye, bridgeVars
  <1>13. CASE SlmodemdCloses \/ Stopped \/ UNCHANGED vars
    BY <1>13, StillHeld DEF SlmodemdCloses, Stopped, vars, sipVars, bridgeVars
  <1> QED
    BY <1>1, <1>2, <1>3, <1>4, <1>5, <1>6, <1>7, <1>8, <1>9, <1>10, <1>11,
       <1>12, <1>13 DEF Next, Run, Surroundings

(* Every call that was handed over is hung up before the bridge waits for  *)
(* another, returns, or panics, when sends do not fail.                    *)
THEOREM EstablishedIsHungUp ==
    ASSUME SendErrors = FALSE
    PROVE  Spec => []EstablishedTornDown
  <1>1. Init => TearInv
    BY DEF Init, TearInv
  <1>2. TearInv => EstablishedTornDown
    BY DEF TearInv, Byed, Held, Holding, Exits, EstablishedTornDown
  <1>3. /\ SessionAt /\ SessionAt' /\ SipTypeOK /\ HandedOver
        /\ TearInv /\ [Next]_vars
        => TearInv'
    BY TearStep
  <1> QED
    BY <1>1, <1>2, <1>3, SessionAtInvariant, HandedOverInvariant, PTL DEF Spec
----------------------------------------------------------------------------
(* A call that was handed over is one of those that were asked for.        *)
LEMMA BridgeTypeStep ==
    /\ SipTypeOK /\ SipTypeOK' /\ SessionAt /\ SessionAt' /\ HandedOver
    /\ BridgeTypeOK /\ [Next]_vars
    => BridgeTypeOK'
  <1> SUFFICES ASSUME SipTypeOK, SipTypeOK', SessionAt, SessionAt', HandedOver,
                      BridgeTypeOK, [Next]_vars
               PROVE  BridgeTypeOK'
    OBVIOUS
  <1>0. session' \in S!SessionStates \cup {"None"}
    BY SessionAtStep DEF S!New, S!Transition, S!SessionStates, BridgeTypeOK
  <1>limit. CallsLimit \in Nat
    BY SipAssumption
  <1> USE <1>0, <1>limit DEF BridgeTypeOK, Exits
  <1>1. CASE Registers \/ TooManyCalls \/ DialReceived \/ DialInvalid \/ DialEnds
    <2>1. calls_count' \in 0 .. CallsLimit
      BY <1>1 DEF Registers, TooManyCalls, DialReceived, DialInvalid, DialEnds
    <2> QED
      BY <1>1, <2>1 DEF Registers, TooManyCalls, DialReceived, DialInvalid,
         DialEnds, relayVars
  <1>2. CASE Originates \/ BindsRtp \/ DrainPanics \/ InviteFailed
    BY <1>2 DEF Originates, BindsRtp, DrainPanics, InviteFailed, SessionStep,
       relayVars
  <1>3. CASE InviteStarts \/ InviteGoesOn \/ DrainFails
    BY <1>3 DEF InviteStarts, InviteGoesOn, DrainFails, relayVars
  <1>4. CASE InviteSucceeded
    <2>1. call.id \in 1 .. CallsLimit
      <3>1. call # NoCall
        BY <1>4 DEF InviteSucceeded, HandedOver, NoCall
      <3> QED
        BY <3>1 DEF HandedOver, SipTypeOK, Calls, Ids
    <2> QED
      BY <1>4, <2>1 DEF InviteSucceeded, SessionStep, AfterInvite, relayVars
  <1>5. CASE AcksAnswer
    BY <1>5 DEF AcksAnswer, relayVars
  <1>6. CASE StartsRelay
    <2>1. polling' \in BOOLEAN
      BY <1>6, Zenon DEF StartsRelay
    <2> QED
      BY <1>6, <2>1 DEF StartsRelay, SessionStep, SipTypeOK, Calls
  <1>7. CASE PollsAnswer \/ SlToRtpEnds \/ RtpToSlEnds \/ RelayReturns
    BY <1>7 DEF PollsAnswer, SlToRtpEnds, RtpToSlEnds, RelayReturns
  <1>8. CASE SlReadFails \/ RtpSendFails \/ SlWriteFails
    BY <1>8 DEF SlReadFails, RtpSendFails, SlWriteFails, RelayFails
  <1>9. CASE \/ HangsUp \/ HungUpNoRtp \/ HungUpRelayError \/ Terminates
             \/ Terminated
    BY <1>9 DEF HangsUp, HungUpNoRtp, HungUpRelayError, Terminates, Terminated,
       HungUp, SessionStep, bridgeVars, relayVars
  <1>10. CASE SlmodemdCloses \/ TrunkSends \/ Stopped \/ UNCHANGED vars
    BY <1>10 DEF SlmodemdCloses, TrunkSends, Stopped, vars, bridgeVars, relayVars
  <1> QED
    BY <1>1, <1>2, <1>3, <1>4, <1>5, <1>6, <1>7, <1>8, <1>9, <1>10
       DEF Next, Run, Surroundings

(* Type correctness: among the rest, calls_count stays within its limit    *)
(* and so do the calls that are asked for.                                 *)
THEOREM BridgeTypeCorrect == Spec => []BridgeTypeOK
  <1>1. Init /\ SipTypeOK => BridgeTypeOK
    <2> SUFFICES ASSUME Init, SipTypeOK PROVE BridgeTypeOK
      OBVIOUS
    <2>1. polling \in BOOLEAN
      BY Zenon DEF Init
    <2> QED
      BY <2>1, SipAssumption DEF Init, BridgeTypeOK, Exits
  <1> QED
    BY <1>1, SessionAtInvariant, HandedOverInvariant, BridgeTypeStep, PTL
       DEF Spec
=============================================================================
