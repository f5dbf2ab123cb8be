----------------------------- MODULE SipTimers -----------------------------
(***************************************************************************)
(* The clock of a call set-up: the retransmission timer and the deadline   *)
(* of SipClient::invite (src/src/sip.rs), run inside                       *)
(* drain_during_sip_setup (src/src/bridge.rs), against a network that      *)
(* loses datagrams and a trunk that may ring for long.                     *)
(*                                                                         *)
(* Time goes in units of RECV_TIMEOUT, 500 ms, the longest that            *)
(* try_recv_response waits.  A datagram is delivered or lost in less than  *)
(* a unit, so none is under way when the clock ticks, unless it waits in   *)
(* the socket of a client that is not polled.  Module Sip has the          *)
(* responses this one leaves out: early media, and errors.                 *)
(***************************************************************************)
EXTENDS Integers

CONSTANTS
    TimerInitial,           \* TIMER_A_INITIAL_MS, in units
    TimerCap,               \* TIMER_A_CAP_MS, in units
    InviteRetransmitLimit,  \* INVITE_RETRANSMIT_LIMIT
    InviteTimeout,          \* cfg.invite_timeout, in units
    DrainLimit,             \* DRAIN_ITERATIONS_LIMIT
    FramesPerTick,          \* silence frames in a unit
    LossLimit,              \* datagrams the network may lose
    StallLimit,             \* units for which slmodemd does not read
    Challenging             \* trunks: one that asks for credentials (TRUE),
                            \* one that does not (FALSE), or both

ASSUME TimersAssumption ==
    /\ TimerInitial \in Nat \ {0} /\ TimerCap \in Nat
    /\ TimerInitial <= TimerCap
    /\ InviteRetransmitLimit \in Nat /\ InviteTimeout \in Nat
    /\ DrainLimit \in Nat /\ DrainLimit > 2 /\ FramesPerTick \in Nat
    /\ LossLimit \in Nat /\ StallLimit \in Nat
    /\ Challenging \subseteq BOOLEAN

VARIABLES
    now,              \* units since the first INVITE
    op,               \* where invite() is; "late" while it is not polled,
                      \* and "panic" is the drain's
    cseq,             \* of the INVITE that is outstanding
    got_provisional, retransmit_count, retransmit_timer, last_send,
    iterations,       \* turns the drain has done
    stalled,          \* units for which its writes have blocked
    owed,             \* and those whose ticks are still to be made up
    wire,             \* datagrams under way
    lost,             \* number of datagrams lost
    challenges,       \* does the trunk ask for credentials?
    trunk             \* what the trunk has made of the call

timer == <<got_provisional, retransmit_count, retransmit_timer, last_send>>
drain == <<iterations, stalled, owed>>
peer  == <<challenges, trunk>>
vars  == <<now, op, cseq, timer, drain, wire, lost, peer>>

Invite(n)      == [to |-> "trunk", cseq |-> n, status |-> 0]
Response(n, s) == [to |-> "client", cseq |-> n, status |-> s]

(* The INVITE that carries what the trunk asks for.                        *)
Wanted == IF challenges THEN 2 ELSE 1
----------------------------------------------------------------------------
(* Turns of the drain in n units of time.  Each silence frame, one every   *)
(* 20 ms, is a turn, and so is a read of the audio slmodemd has written,   *)
(* of which there is at most one in the time of a frame.                   *)

(* Mutation of Drained: drain_buf only holds a quarter of a frame.         *)
DrainedInPieces(n) == {4 * n * FramesPerTick}

Drained(n) == n * FramesPerTick .. 2 * n * FramesPerTick

(* The first tick of an interval comes at once.                            *)
FirstTick == 1 .. 2

Init ==
    /\ now = 0 /\ op = "top" /\ cseq = 1
    /\ got_provisional = FALSE /\ retransmit_count = 0
    /\ retransmit_timer = TimerInitial /\ last_send = 0
    /\ iterations \in FirstTick /\ stalled = 0 /\ owed = 0
    /\ wire = {Invite(1)} /\ lost = 0
    /\ challenges \in Challenging /\ trunk = "idle"

TimedOut == now >= InviteTimeout

(* Mutation of Due: one retransmission too few.                            *)
DueOneLess == /\ ~got_provisional
              /\ retransmit_count + 1 < InviteRetransmitLimit
              /\ now - last_send >= retransmit_timer

Due == /\ ~got_provisional
       /\ retransmit_count < InviteRetransmitLimit
       /\ now - last_send >= retransmit_timer

(* Mutation of Doubled: the cap is forgotten.                              *)
DoubledUncapped(t) == 2 * t

Doubled(t) == IF 2 * t < TimerCap THEN 2 * t ELSE TimerCap

TimesOut ==
    /\ op = "top" /\ TimedOut /\ op' = "timeout"
    /\ UNCHANGED <<now, cseq, timer, drain, wire, lost, peer>>

(* The datagram is the one `invite' was first bound to.                    *)
Retransmits ==
    /\ op = "top" /\ ~TimedOut /\ Due
    /\ op' = "recv" /\ wire' = wire \cup {Invite(1)}
    /\ retransmit_count' = retransmit_count + 1
    /\ last_send' = now /\ retransmit_timer' = Doubled(retransmit_timer)
    /\ UNCHANGED <<now, cseq, got_provisional, drain, lost, peer>>

Listens ==
    /\ op = "top" /\ ~TimedOut /\ ~Due /\ op' = "recv"
    /\ UNCHANGED <<now, cseq, timer, drain, wire, lost, peer>>

(* A datagram in the socket is read before the timeout is looked at.       *)
Heard(m) == op \in {"recv", "late"} /\ m \in wire /\ m.to = "client"

Receives(m) == Heard(m) /\ wire' = wire \ {m}

SkipsStale(m) ==
    /\ Receives(m) /\ m.cseq # cseq /\ op' = "top"
    /\ UNCHANGED <<now, cseq, timer, drain, lost, peer>>

HearsRinging(m) ==
    /\ Receives(m) /\ m.cseq = cseq /\ m.status = 180
    /\ op' = "top" /\ got_provisional' = TRUE
    /\ UNCHANGED <<now, cseq, retransmit_count, retransmit_timer, last_send,
                   drain, lost, peer>>

HearsAnswer(m) ==
    /\ Receives(m) /\ m.cseq = cseq /\ m.status = 200 /\ op' = "ok"
    /\ UNCHANGED <<now, cseq, timer, drain, lost, peer>>

(* The one retry with credentials; the trunk here accepts them.            *)
HearsChallenge(m) ==
    /\ Heard(m) /\ m.cseq = cseq /\ m.status = 407
    /\ op' = "top" /\ cseq' = cseq + 1
    /\ wire' = (wire \ {m}) \cup {Invite(cseq + 1)}
    /\ got_provisional' = FALSE /\ retransmit_count' = 0
    /\ retransmit_timer' = TimerInitial /\ last_send' = now
    /\ UNCHANGED <<now, drain, lost, peer>>
----------------------------------------------------------------------------
(* What the trunk sends again by itself: its answer, until it is ACKed.    *)
Repeated == IF trunk = "answered" THEN {Response(Wanted, 200)} ELSE {}

(* RECV_TIMEOUT passes in silence.  Ticks that were missed while a write   *)
(* blocked are made up in a burst.                                         *)
Tick ==
    /\ op = "recv" /\ wire = {}
    /\ \E n \in Drained(owed + 1) : /\ iterations + n < DrainLimit
                                   /\ iterations' = iterations + n
    /\ now' = now + 1 /\ op' = "top" /\ owed' = 0
    /\ wire' = Repeated
    /\ UNCHANGED <<cseq, timer, stalled, lost, peer>>

(* slmodemd does not read, and write_all(silence) blocks, in the body of   *)
(* the select!: no turn is made, and invite() is not polled.               *)
Stalls ==
    /\ op \in {"recv", "late"} /\ stalled < StallLimit
    /\ \A m \in wire : m.to = "client"
    /\ now' = now + 1 /\ op' = "late"
    /\ stalled' = stalled + 1 /\ owed' = owed + 1
    /\ wire' = wire \cup Repeated
    /\ UNCHANGED <<cseq, timer, iterations, lost, peer>>

(* Polled again, invite() finds nothing in the socket and its wait over.   *)
Wakes ==
    /\ op = "late" /\ wire = {} /\ op' = "top"
    /\ UNCHANGED <<now, cseq, timer, drain, wire, lost, peer>>

(* The last turn is done within the unit that follows, or in a burst.      *)
DrainPanics ==
    /\ op \in {"recv", "late"} /\ op' = "panic"
    /\ \E n \in Drained(IF op = "recv" THEN owed + 1 ELSE owed) :
          iterations + n >= DrainLimit
    /\ UNCHANGED <<now, cseq, timer, drain, wire, lost, peer>>
----------------------------------------------------------------------------
(* The trunk and the network (external).                                   *)

TrunkChallenges ==
    /\ challenges /\ Invite(1) \in wire
    /\ wire' = (wire \ {Invite(1)}) \cup {Response(1, 407)}
    /\ UNCHANGED <<now, op, cseq, timer, drain, lost, peer>>

(* A new call rings; a copy of its INVITE is answered with the response    *)
(* that was last given.                                                    *)
TrunkRings ==
    /\ Invite(Wanted) \in wire
    /\ trunk' = IF trunk = "idle" THEN "ringing" ELSE trunk
    /\ wire' = (wire \ {Invite(Wanted)}) \cup
                 {Response(Wanted, IF trunk = "answered" THEN 200 ELSE 180)}
    /\ UNCHANGED <<now, op, cseq, timer, drain, lost, challenges>>

TrunkAnswers ==
    /\ trunk = "ringing" /\ trunk' = "answered"
    /\ wire' = wire \cup {Response(Wanted, 200)}
    /\ UNCHANGED <<now, op, cseq, timer, drain, lost, challenges>>

Loses ==
    /\ lost < LossLimit /\ lost' = lost + 1
    /\ \E m \in wire : wire' = wire \ {m}
    /\ UNCHANGED <<now, op, cseq, timer, drain, peer>>

(* invite() has returned, or the process is gone.                          *)
Over == op \in {"ok", "timeout", "panic"} /\ UNCHANGED vars

Next == \/ TimesOut \/ Retransmits \/ Listens
        \/ \E m \in wire : \/ SkipsStale(m) \/ HearsRinging(m)
                           \/ HearsAnswer(m) \/ HearsChallenge(m)
        \/ Tick \/ Stalls \/ Wakes \/ DrainPanics
        \/ TrunkChallenges \/ TrunkRings \/ TrunkAnswers \/ Loses \/ Over

Spec == Init /\ [][Next]_vars
----------------------------------------------------------------------------
(* Properties.                                                             *)

TimersTypeOK ==
    /\ now \in 0 .. InviteTimeout + StallLimit
    /\ op \in {"top", "recv", "late", "ok", "timeout", "panic"}
    /\ cseq \in 1 .. Wanted
    /\ got_provisional \in BOOLEAN
    /\ retransmit_count \in 0 .. InviteRetransmitLimit
    /\ retransmit_timer \in TimerInitial .. TimerCap
    /\ last_send \in 0 .. now
    /\ iterations \in 0 .. DrainLimit - 1
    /\ stalled \in 0 .. StallLimit /\ owed \in 0 .. stalled
    /\ challenges \in BOOLEAN /\ lost \in 0 .. LossLimit
    /\ wire \subseteq [to : {"trunk", "client"}, cseq : 1 .. Wanted,
                       status : {0, 180, 200, 407}]
    /\ trunk \in {"idle", "ringing", "answered"}

(* As long as the network loses no more datagrams than invite() sends      *)
(* copies of an INVITE, no set-up times out before the trunk has the first *)
(* INVITE and its response, provisional or challenge, has got through.     *)
RepairsFirstLoss == op = "timeout" /\ cseq = 1 => trunk # "idle"

(* The same of the INVITE with credentials: a set-up only times out when   *)
(* the trunk has got the INVITE it wants and the far end is slow.          *)
RepairsLoss == op = "timeout" => trunk # "idle"

(* The drain gives a set-up 4.5 s at least, whatever audio slmodemd writes *)
(* in frames meanwhile and whatever is made up after a write has blocked.  *)
DrainCoversSetup == op = "panic" => now >= 9

(* The drain does not panic before the INVITE timeout has passed.          *)
PatientSetup == op = "panic" => now >= InviteTimeout
=============================================================================
