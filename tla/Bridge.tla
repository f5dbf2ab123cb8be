------------------------------- MODULE Bridge -------------------------------
(***************************************************************************)
(* bridge::run (src/src/bridge.rs): the loop that waits for a DIAL line on *)
(* the socket shared with slmodemd, sets the call up through SipClient     *)
(* while draining that socket, relays media, and hangs up.                 *)
(*                                                                         *)
(* It composes the client of module Sip, whose actions it runs at the      *)
(* places where the code awaits its methods, with the Session of module    *)
(* Session, the two halves of relay_media and the answer poll that runs    *)
(* beside them, and slmodemd, which may close its end at any time.  Audio  *)
(* that is copied or discarded changes no state that is kept here.         *)
(***************************************************************************)
EXTENDS Sip

VARIABLES
    pc,           \* where run() is
    calls_count,
    session,      \* state of the Session object of the current call
    sl,           \* slmodemd's socket: open, closed by slmodemd, or read to
                  \* its end ("eof")
    sl_to_rtp,    \* the halves of relay_media: running or finished
    rtp_to_sl,
    polling,      \* is the answer poll still running beside the relay?
    relay_to,     \* the address relay_media was given
    established   \* history: calls for which invite() returned a Call

relayVars  == <<sl_to_rtp, rtp_to_sl, polling, relay_to>>
bridgeVars == <<pc, calls_count, session, sl, relayVars, established>>
vars == <<sipVars, bridgeVars>>

S == INSTANCE Session

Exits == {"exit_ok", "exit_err", "exit_session", "panic"}

(* session.transition(to)?: a refused transition makes run() return.       *)
SessionStep(to, next) ==
    \/ /\ S!IsValidTransition(session, to)
       /\ session' = to /\ pc' = next
    \/ /\ ~S!IsValidTransition(session, to)
       /\ pc' = "exit_session" /\ UNCHANGED session
----------------------------------------------------------------------------
(* Start and wait_for_dial_string.                                         *)

Init ==
    /\ SipInit
    /\ pc = "register" /\ calls_count = 0 /\ session = "None" /\ sl = "open"
    /\ sl_to_rtp = "done" /\ rtp_to_sl = "done" /\ polling = FALSE
    /\ relay_to = NoAddr /\ established = {}

(* register() or the write of `R' may fail.                                *)
Registers ==
    /\ pc = "register"
    /\ pc' \in {"dial", "exit_err"}
    /\ UNCHANGED <<sipVars, calls_count, session, sl, relayVars, established>>

(* assert!(calls_count < CALLS_LIMIT) at the top of the loop.              *)
TooManyCalls ==
    /\ pc = "dial" /\ calls_count >= CallsLimit
    /\ pc' = "panic"
    /\ UNCHANGED <<sipVars, calls_count, session, sl, relayVars, established>>

(* A DIAL line is read, from a socket that may be closed behind it.        *)
DialReceived ==
    /\ pc = "dial" /\ calls_count < CallsLimit /\ sl # "eof"
    /\ calls_count' = calls_count + 1
    /\ session' = "Init" /\ pc' = "originate"
    /\ UNCHANGED <<sipVars, sl, relayVars, established>>

(* DialString::parse refuses it; the call is counted all the same.         *)
DialInvalid ==
    /\ pc = "dial" /\ calls_count < CallsLimit /\ sl # "eof"
    /\ calls_count' = calls_count + 1
    /\ UNCHANGED <<sipVars, pc, session, sl, relayVars, established>>

(* End of file, a read error, or no way to write silence.                  *)
DialEnds ==
    /\ pc = "dial" /\ calls_count < CallsLimit /\ sl # "open"
    /\ pc' = "exit_ok"
    /\ UNCHANGED <<sipVars, calls_count, session, sl, relayVars, established>>
----------------------------------------------------------------------------
(* Set-up: drain_during_sip_setup polls invite() and the socket.           *)

Originates ==
    /\ pc = "originate" /\ SessionStep("Originating", "bind")
    /\ UNCHANGED <<sipVars, calls_count, sl, relayVars, established>>

BindsRtp ==
    /\ pc = "bind" /\ pc' \in {"setup", "exit_err"}
    /\ UNCHANGED <<sipVars, calls_count, session, sl, relayVars, established>>

(* The first poll of the invite future.                                    *)
InviteStarts ==
    /\ pc = "setup" /\ pc' = "inviting"
    /\ \E sent \in Sends : Invite(sent)
    /\ UNCHANGED <<calls_count, session, sl, relayVars, established>>

InviteGoesOn ==
    /\ pc = "inviting" /\ InviteStep
    /\ pc' = IF op' = "panic" THEN "panic" ELSE pc
    /\ UNCHANGED <<calls_count, session, sl, relayVars, established>>

(* The drain reads the end of file or fails to write silence: the invite   *)
(* future is dropped, which no datagram tells the trunk about.             *)
DrainFails ==
    /\ sl # "open" /\ sl' \in {sl, "eof"}
    /\ \/ pc = "setup" /\ UNCHANGED sipVars
       \/ pc = "inviting" /\ InviteCancelled
    /\ pc' = "dial"
    /\ UNCHANGED <<calls_count, session, relayVars, established>>

(* assert!(iterations < DRAIN_ITERATIONS_LIMIT): after at most 10 s.       *)
DrainPanics ==
    /\ pc = "inviting" /\ op = "invite_recv"
    /\ pc' = "panic"
    /\ UNCHANGED <<sipVars, calls_count, session, sl, relayVars, established>>

InviteFailed ==
    /\ pc = "inviting" /\ op = "none" /\ outcome # "ok"
    /\ pc' = "dial"
    /\ UNCHANGED <<sipVars, calls_count, session, sl, relayVars, established>>

(* Mutation of AfterInvite: the answer is not acknowledged.                *)
AfterInviteNoAck == IF call.rtp = NoAddr THEN "no_rtp" ELSE "connect"

AfterInvite == IF call.rtp = NoAddr THEN "no_rtp"
               ELSE IF call.state = "Answered" THEN "ack"
               ELSE "connect"

InviteSucceeded ==
    /\ pc = "inviting" /\ op = "none" /\ outcome = "ok"
    /\ established' = established \cup {call.id}
    /\ SessionStep("ConnectingMedia", AfterInvite)
    /\ UNCHANGED <<sipVars, calls_count, sl, relayVars>>

(* sip.ack(&call).await?: an error makes run() return.                     *)
AcksAnswer ==
    /\ pc = "ack"
    /\ \E sent \in Sends :
          Ack(sent) /\ pc' = IF sent THEN "connect" ELSE "exit_err"
    /\ UNCHANGED <<calls_count, session, sl, relayVars, established>>
----------------------------------------------------------------------------
(* relay_media, joined with the answer poll.                               *)

(* Mutation of StartsRelay: the poll runs for an answered call too.        *)
StartsRelayPolling ==
    /\ pc = "connect" /\ SessionStep("MediaActive", "media")
    /\ sl_to_rtp' = "running" /\ rtp_to_sl' = "running" /\ polling' = TRUE
    /\ relay_to' = call.rtp
    /\ UNCHANGED <<sipVars, calls_count, sl, established>>

StartsRelay ==
    /\ pc = "connect" /\ SessionStep("MediaActive", "media")
    /\ sl_to_rtp' = "running" /\ rtp_to_sl' = "running"
    /\ polling' = (call.state = "EarlyMedia")
    /\ relay_to' = call.rtp
    /\ UNCHANGED <<sipVars, calls_count, sl, established>>

(* A 200, an error response or a failed ACK each end the poll for good.    *)
PollsAnswer ==
    /\ pc = "media" /\ polling /\ Poll
    /\ polling' = FALSE
    /\ UNCHANGED <<pc, calls_count, session, sl, sl_to_rtp, rtp_to_sl,
                   relay_to, established>>

SlToRtpEnds ==
    /\ pc = "media" /\ sl_to_rtp = "running" /\ sl = "closed"
    /\ sl_to_rtp' = "done" /\ sl' = "eof"
    /\ UNCHANGED <<sipVars, pc, calls_count, session, rtp_to_sl, polling,
                   relay_to, established>>

(* recv_from fails.                                                        *)
RtpToSlEnds ==
    /\ pc = "media" /\ rtp_to_sl = "running"
    /\ rtp_to_sl' = "done"
    /\ UNCHANGED <<sipVars, pc, calls_count, session, sl, sl_to_rtp, polling,
                   relay_to, established>>

(* Mutation of RelayFails: back to the loop without a BYE.                 *)
RelayFailsLoops ==
    /\ pc' = "dial" /\ polling' = FALSE
    /\ sl_to_rtp' = "done" /\ rtp_to_sl' = "done"
    /\ UNCHANGED <<sipVars, calls_count, session, relay_to, established>>

(* try_join! returns the first error and drops the other half.             *)
RelayFails ==
    /\ pc' = "relay_err" /\ polling' = FALSE
    /\ sl_to_rtp' = "done" /\ rtp_to_sl' = "done"
    /\ UNCHANGED <<sipVars, calls_count, session, relay_to, established>>

SlReadFails ==
    /\ pc = "media" /\ sl_to_rtp = "running" /\ sl = "closed"
    /\ sl' = "eof" /\ RelayFails

RtpSendFails ==
    /\ pc = "media" /\ sl_to_rtp = "running" /\ SendErrors
    /\ RelayFails /\ UNCHANGED sl

(* An RTP packet arrives and cannot be written to slmodemd.                *)
SlWriteFails ==
    /\ pc = "media" /\ rtp_to_sl = "running" /\ sl # "open"
    /\ RelayFails /\ UNCHANGED sl

(* Mutation of RelayJoined: the first half that ends, ends the relay.      *)
RelayJoinedByFirst == sl_to_rtp = "done" \/ rtp_to_sl = "done"

(* try_join! returns Ok when both halves have.                             *)
RelayJoined == sl_to_rtp = "done" /\ rtp_to_sl = "done"

(* Mutation of RelayReturns: the answer poll is joined, not selected.      *)
RelayReturnsAnswered ==
    /\ pc = "media" /\ RelayJoined /\ ~polling
    /\ pc' = "teardown"
    /\ UNCHANGED <<sipVars, calls_count, session, sl, relayVars, established>>

RelayReturns ==
    /\ pc = "media" /\ RelayJoined
    /\ pc' = "teardown" /\ polling' = FALSE
    /\ UNCHANGED <<sipVars, calls_count, session, sl, sl_to_rtp, rtp_to_sl,
                   relay_to, established>>
----------------------------------------------------------------------------
(* The three places that hang up, and where run() goes from each.          *)

HangsUp ==
    /\ pc \in {"no_rtp", "relay_err", "teardown"}
    /\ (\E sent \in Sends : Bye(sent)) \/ ByeReturns
    /\ UNCHANGED bridgeVars

HungUp(at) == pc = at /\ op = "none" /\ call = NoCall

(* Mutation of HungUpNoRtp: a call without media is dropped, not hung up.  *)
HungUpNoRtpSilently ==
    /\ pc = "no_rtp" /\ op = "none" /\ call # NoCall /\ Fail("none")
    /\ pc' = "dial" /\ UNCHANGED requests
    /\ UNCHANGED <<calls_count, session, sl, relayVars, established>>

HungUpNoRtp ==
    /\ HungUp("no_rtp") /\ pc' = "dial"
    /\ UNCHANGED <<sipVars, calls_count, session, sl, relayVars, established>>

(* Mutation of HungUpRelayError: back to the loop, like the other errors.  *)
HungUpRelayErrorLoops ==
    /\ HungUp("relay_err") /\ pc' = "dial"
    /\ UNCHANGED <<sipVars, calls_count, session, sl, relayVars, established>>

HungUpRelayError ==
    /\ HungUp("relay_err") /\ pc' = "exit_err"
    /\ UNCHANGED <<sipVars, calls_count, session, sl, relayVars, established>>

Terminates ==
    /\ HungUp("teardown") /\ SessionStep("Terminating", "terminate")
    /\ UNCHANGED <<sipVars, calls_count, sl, relayVars, established>>

Terminated ==
    /\ pc = "terminate" /\ SessionStep("Terminated", "dial")
    /\ UNCHANGED <<sipVars, calls_count, sl, relayVars, established>>
----------------------------------------------------------------------------
(* slmodemd closes its end.                                                *)
SlmodemdCloses ==
    /\ sl = "open" /\ sl' = "closed"
    /\ UNCHANGED <<sipVars, pc, calls_count, session, relayVars, established>>

TrunkSends == Trunk /\ UNCHANGED bridgeVars

(* run() has returned or panicked, and the process is gone.                *)
Stopped == pc \in Exits /\ UNCHANGED vars

(* Steps the bridge takes once it is scheduled: what they wait for is a    *)
(* timer of its own at most.                                               *)
Run == \/ Registers \/ TooManyCalls \/ DialEnds
       \/ Originates \/ BindsRtp \/ InviteStarts \/ InviteGoesOn
       \/ InviteFailed \/ InviteSucceeded \/ AcksAnswer
       \/ StartsRelay \/ RelayReturns
       \/ HangsUp \/ HungUpNoRtp \/ HungUpRelayError
       \/ Terminates \/ Terminated

(* Steps that wait for somebody else, or are one of several outcomes.      *)
Surroundings ==
       \/ DialReceived \/ DialInvalid \/ DrainFails \/ DrainPanics
       \/ PollsAnswer \/ SlToRtpEnds \/ RtpToSlEnds
       \/ SlReadFails \/ RtpSendFails \/ SlWriteFails
       \/ SlmodemdCloses \/ TrunkSends \/ Stopped

Next == Run \/ Surroundings

Spec == Init /\ [][Next]_vars

(* The runtime polls run() when a timer or a socket wakes it, and a closed *)
(* socket is readable: its end is seen by the relay half that reads it.    *)
FairSpec == Spec /\ WF_vars(Run) /\ WF_vars(SlToRtpEnds \/ SlReadFails)
----------------------------------------------------------------------------
(* Properties.                                                             *)

BridgeTypeOK ==
    /\ SipTypeOK
    /\ pc \in {"register", "dial", "originate", "bind", "setup", "inviting",
               "no_rtp", "ack", "connect", "media", "relay_err", "teardown",
               "terminate"} \cup Exits
    /\ calls_count \in 0 .. CallsLimit
    /\ session \in S!SessionStates \cup {"None"}
    /\ sl \in {"open", "closed", "eof"}
    /\ sl_to_rtp \in {"running", "done"} /\ rtp_to_sl \in {"running", "done"}
    /\ polling \in BOOLEAN
    /\ relay_to \in Addrs \cup {NoAddr}
    /\ established \subseteq 1 .. CallsLimit

(* The bridge takes every session through the life that module Session     *)
(* allows: one that carried media is never dropped for the next call.      *)
CallLifecycle == S!SessionSpec

(* Seen from outside, run() is the loop of module CallPhases, which the    *)
(* reader of the socket in module SlSocket relies on: after a set-up that  *)
(* gave a call, and after every relay, comes the hang-up, and only then    *)
(* the next dial line.                                                     *)
PhaseOf ==
    CASE pc = "register"                                  -> "start"
      [] pc = "dial"                                      -> "dial"
      [] pc \in {"originate", "bind", "setup", "inviting"} -> "setup"
      [] pc \in {"ack", "connect"}                        -> "connect"
      [] pc = "media"                                     -> "relay"
      [] pc \in {"no_rtp", "relay_err", "teardown", "terminate"} -> "hangup"
      [] OTHER                                            -> "over"

P == INSTANCE CallPhases WITH phase <- PhaseOf

PhasesOnly == P!PhaseSpec

(* No way through run() meets a transition the session refuses, which      *)
(* would make the `?' of session.transition() end the bridge.              *)
SessionNeverRejects == pc # "exit_session"

(* Every call invite() handed over is hung up with a BYE before the bridge *)
(* waits for the next dial line or returns, whichever way it gets there.   *)
EstablishedTornDown ==
    \A id \in established :
        \/ \E b \in requests : IsBye(b) /\ b.call = id
        \/ id = call.id /\ pc \notin {"dial"} \cup Exits

CallAcked == \E a \in requests : IsAck(a) /\ Own(a) /\ a.tag = call.tag

(* Media flows in an answered call only after its 200 was acknowledged,    *)
(* whether the answer came before the relay or was polled beside it.       *)
AckedBeforeMedia == pc = "media" /\ call.state = "Answered" => CallAcked

(* The answer poll is over when the call is: it never runs outside the     *)
(* relay, where it would eat the response to BYE or to the next INVITE,    *)
(* and there only for a call that is not answered.                         *)
PollOnlyInRelay ==
    polling => pc = "media" /\ op = "none" /\ call.state = "EarlyMedia"

(* A call that ends in order is the last: its relay ends only at the end   *)
(* of slmodemd's socket, so what loops is failed set-ups.                  *)
CompletedCallIsLast ==
    [][session = "Terminated" => session' = "Terminated"]_vars

(* Setting a call up ends, however many provisional or stale responses     *)
(* arrive: the turns of invite() are counted.                              *)
SetupEnds == pc = "inviting" ~> pc # "inviting"

(* Nothing has arrived from the far end since slmodemd closed: the half    *)
(* that writes to slmodemd waits for RTP and has not seen the close.       *)
WaitsForRtp == pc = "media" /\ sl_to_rtp = "done" /\ rtp_to_sl = "running"

(* When slmodemd has closed its socket, the bridge hangs up and stops, and *)
(* the one place where it may still be found instead, for as long as it    *)
(* takes, is the relay that waits for an RTP packet: neither the set-up,   *)
(* nor the answer poll, nor a BYE without response keeps it up.            *)
CloseEnds == sl # "open" ~> pc \in Exits \/ WaitsForRtp

(* The relay sends to the address of the answer, if it named another one   *)
(* than the provisional response did.                                      *)
RelayFollowsAnswer ==
    pc = "media" /\ call.state = "Answered" => relay_to = call.rtp
=============================================================================
