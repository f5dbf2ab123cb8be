------------------------------ MODULE Register ------------------------------
(***************************************************************************)
(* SipClient::register (src/src/sip.rs): REGISTER, the challenge, REGISTER *)
(* with credentials, and how long the client waits for each answer.        *)
(*                                                                         *)
(* Datagrams are never taken out of `arrived': one may come late, twice or *)
(* never.  A datagram is what the code reads of it, the status and the     *)
(* number of its CSeq; one that is no response has no status, and may have *)
(* no CSeq either (None).  The clock counts in a unit of which RECV_TIMEOUT*)
(* and REGISTER_TIMEOUT are multiples.                                     *)
(***************************************************************************)
EXTENDS Naturals

CONSTANTS
    RecvTimeout,        \* RECV_TIMEOUT
    RegisterTimeout,    \* REGISTER_TIMEOUT
    Provisionals,       \* 1xx statuses the registrar uses
    Finals,             \* and its final ones
    Strays              \* datagrams that answer no REGISTER

None == 0

ASSUME RegisterAssumption ==
    /\ {RecvTimeout, RegisterTimeout} \subseteq Nat \ {0}
    /\ Provisionals \subseteq 100..199 /\ Finals \subseteq 200..699
    /\ Strays \subseteq [cseq : Nat \ {1, 2}, status : {None}]

VARIABLES
    op,         \* the await point, or "done"
    outcome,
    cseq,       \* number of the last REGISTER sent, 0 before the first
    now,        \* the clock
    until,      \* when the recv_from under way times out
    deadline,   \* of the loop after the second REGISTER
    arrived     \* datagrams that may be read

vars == <<op, outcome, cseq, now, until, deadline, arrived>>

Init ==
    /\ op = "start" /\ outcome = "none" /\ cseq = 0
    /\ now = 0 /\ until = 0 /\ deadline = 0 /\ arrived = {}

Returns(result) == op' = "done" /\ outcome' = result
----------------------------------------------------------------------------
(* The first REGISTER: the first datagram that comes decides.              *)

SendFails == /\ op = "start" /\ Returns("send_error")
             /\ UNCHANGED <<cseq, now, until, deadline, arrived>>

Sends == /\ op = "start" /\ op' = "recv" /\ cseq' = 1
         /\ until' = now + RegisterTimeout
         /\ UNCHANGED <<outcome, now, deadline, arrived>>

Recv(m) == op = "recv" /\ m \in arrived

(* Mutation of RecvTimesOut: the client goes on waiting.                   *)
RecvTimesOutIgnored == op = "recv" /\ now >= until /\ UNCHANGED vars

RecvTimesOut == /\ op = "recv" /\ now >= until /\ Returns("timeout")
                /\ UNCHANGED <<cseq, now, until, deadline, arrived>>

(* Mutation of Accepts: any status below 300 will do.                      *)
AcceptsEarly(m) == m.status \in 100..299

Accepts(m) == m.status = 200

Registered(m) == /\ Recv(m) /\ Accepts(m) /\ Returns("ok")
                 /\ UNCHANGED <<cseq, now, until, deadline, arrived>>

(* Any other answer than a challenge, and one whose header is not there or *)
(* has no realm or nonce.                                                  *)
Refused(m) == /\ Recv(m) /\ ~Accepts(m) /\ Returns("refused")
              /\ UNCHANGED <<cseq, now, until, deadline, arrived>>

(* The challenge is answered, and the deadline set.                        *)
Challenged(m) ==
    /\ Recv(m) /\ m.status = 401
    /\ \/ /\ op' = "auth_top" /\ cseq' = cseq + 1
          /\ deadline' = now + RegisterTimeout /\ UNCHANGED outcome
       \/ Returns("send_error") /\ UNCHANGED <<cseq, deadline>>
    /\ UNCHANGED <<now, until, arrived>>
----------------------------------------------------------------------------
(* The loop after REGISTER with credentials.                               *)

AuthTimesOut == /\ op = "auth_top" /\ now >= deadline /\ Returns("timeout")
                /\ UNCHANGED <<cseq, now, until, deadline, arrived>>

(* Mutation of AuthListens: every turn has a deadline of its own.          *)
AuthListensAnew ==
    /\ op = "auth_top" /\ now < deadline
    /\ op' = "auth_recv" /\ until' = now + RecvTimeout
    /\ deadline' = now + RegisterTimeout
    /\ UNCHANGED <<outcome, cseq, now, arrived>>

AuthListens == /\ op = "auth_top" /\ now < deadline
               /\ op' = "auth_recv" /\ until' = now + RecvTimeout
               /\ UNCHANGED <<outcome, cseq, now, deadline, arrived>>

NextTurn == op' = "auth_top" /\ UNCHANGED <<outcome, cseq, now, until, deadline, arrived>>

AuthHearsNothing == op = "auth_recv" /\ now >= until /\ NextTurn

AuthRecv(m) == op = "auth_recv" /\ m \in arrived

(* Mutation of Stale: nothing is filtered.                                 *)
StaleNever(m) == FALSE

(* A CSeq that is there and is not the one of the second REGISTER.         *)
Stale(m) == m.cseq \notin {None, 2}

AuthSkips(m) == AuthRecv(m) /\ Stale(m) /\ NextTurn

(* The registrar's word, and its 100 as well: all but a 200 is a refusal.  *)
AuthDecided(m) ==
    /\ AuthRecv(m) /\ ~Stale(m)
    /\ Returns(IF Accepts(m) THEN "ok" ELSE "auth_refused")
    /\ UNCHANGED <<cseq, now, until, deadline, arrived>>
----------------------------------------------------------------------------
(* The registrar and the rest of the network (external): a transaction has *)
(* one final answer, and provisional ones before it.                       *)
RegistrarAnswers ==
    \E c \in 1 .. cseq, s \in Provisionals \cup Finals :
        /\ op # "done"
        /\ ~ \E m \in arrived : m.cseq = c /\ m.status >= 200
        /\ arrived' = arrived \cup {[cseq |-> c, status |-> s]}
        /\ UNCHANGED <<op, outcome, cseq, now, until, deadline>>

StrayArrives ==
    \E m \in Strays \ arrived :
        /\ op # "done" /\ arrived' = arrived \cup {m}
        /\ UNCHANGED <<op, outcome, cseq, now, until, deadline>>

(* Time passes while the client waits, up to the timeout that wakes it.    *)
Tick == /\ op \in {"recv", "auth_recv"} /\ now < until /\ now' = now + 1
        /\ UNCHANGED <<op, outcome, cseq, until, deadline, arrived>>

Client == \/ SendFails \/ Sends \/ RecvTimesOut
          \/ AuthTimesOut \/ AuthListens \/ AuthHearsNothing

Hears == \E m \in arrived :
            \/ Registered(m) \/ Refused(m) \/ Challenged(m)
            \/ AuthSkips(m) \/ AuthDecided(m)

Done == op = "done" /\ UNCHANGED vars

Next == Client \/ Hears \/ RegistrarAnswers \/ StrayArrives \/ Tick \/ Done

Spec == Init /\ [][Next]_vars

(* The client is polled when a timer or a datagram wakes it, and time      *)
(* passes however many datagrams arrive.                                   *)
FairSpec == Spec /\ WF_vars(Client) /\ SF_vars(Tick)
----------------------------------------------------------------------------
(* Properties.                                                             *)

RegisterTypeOK ==
    /\ op \in {"start", "recv", "auth_top", "auth_recv", "done"}
    /\ outcome \in {"none", "ok", "send_error", "timeout", "refused", "auth_refused"}
    /\ cseq \in 0 .. 2
    /\ {now, until, deadline} \subseteq Nat
    /\ arrived \subseteq [cseq : Nat, status : {None} \cup 100..699]

(* register() succeeds only if the registrar has accepted the very request *)
(* that was sent last: slmodemd is never released without a registration.  *)
RegisteredIsReal ==
    outcome = "ok" => [cseq |-> cseq, status |-> 200] \in arrived

(* The second REGISTER is given up as refused only on an answer to it, or  *)
(* on a datagram that has no CSeq, but never on the challenge or another   *)
(* left-over of the first.                                                 *)
RefusalIsReal ==
    outcome = "auth_refused" =>
        \E m \in arrived : m.cseq \in {None, 2} /\ m.status # 200

(* Neither stale nor stray datagrams prolong the wait: it is over after    *)
(* two timeouts and the last receive, which may end a little late.         *)
WaitIsBounded == now < 2 * RegisterTimeout + RecvTimeout

(* register() comes to an end, whatever arrives or does not.               *)
RegisterEnds == <>(op = "done")
=============================================================================
