----------------------------- MODULE CallPhases -----------------------------
(***************************************************************************)
(* What run() (src/src/bridge.rs) amounts to for somebody who sees neither *)
(* its datagrams nor its bytes: the phases a call goes through, and how    *)
(* often the bridge will go through them.  Modules Bridge and SlSocket,    *)
(* which know one side each of the same loop, both implement it.           *)
(*                                                                         *)
(*   start   before the registration and the `R' that releases slmodemd    *)
(*   dial    waiting for a DIAL line                                       *)
(*   setup   INVITE under way, the socket of slmodemd drained              *)
(*   connect the call is up, nobody reads the socket                       *)
(*   relay   media flows                                                   *)
(*   hangup  in bye(), nobody reads the socket                             *)
(*   over    run() has returned or panicked                                *)
(***************************************************************************)
EXTENDS Naturals

CONSTANT CallsLimit     \* CALLS_LIMIT: DIAL lines per lifetime

VARIABLES
    phase,
    calls_count         \* DIAL lines received so far

phaseVars == <<phase, calls_count>>

Successors == [ start   |-> {"dial"},
                setup   |-> {"dial", "connect", "hangup"},
                connect |-> {"relay"},
                relay   |-> {"hangup"},
                hangup  |-> {"dial"},
                dial    |-> {}, over |-> {} ]

PhaseInit == phase = "start" /\ calls_count = 0

(* A DIAL line counts as a call, whether its string is valid or not; one   *)
(* that fails and was the last makes the assertion of the loop panic.      *)
Dial == /\ phase = "dial" /\ calls_count < CallsLimit
        /\ calls_count' = calls_count + 1
        /\ \/ phase' \in {"dial", "setup"}
           \/ phase' = "over" /\ calls_count' = CallsLimit

GoOn == phase' \in Successors[phase] /\ UNCHANGED calls_count

(* Any phase may be the last: an error that run() passes on, a panic, the  *)
(* end of the socket.                                                      *)
Leave == phase # "over" /\ phase' = "over" /\ UNCHANGED calls_count

PhaseSpec == PhaseInit /\ [][Dial \/ GoOn \/ Leave]_phaseVars
=============================================================================
