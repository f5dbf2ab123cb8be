------------------------------ MODULE Session ------------------------------
(***************************************************************************)
(* The life of a call as src/src/session.rs records it: the table of       *)
(* `is_valid_transition', and what the bridge promises about it.           *)
(* `Session::new' makes a session in state Init; the object of the         *)
(* previous call has gone out of scope by then.  A session that has        *)
(* reached MediaActive must be taken through Terminating to Terminated     *)
(* before the next one is made; one whose setup failed may be dropped.     *)
(***************************************************************************)

VARIABLE session    \* state of the Session object, "None" before the first

SessionStates == {"Init", "Originating", "ConnectingMedia", "MediaActive",
                  "Terminating", "Terminated"}

(* Mutation of IsValidTransition: active media cannot be terminated.       *)
IsValidTransitionNoHangUp(from, to) ==
    <<from, to>> \in { <<"Init",            "Originating">>,
                       <<"Originating",     "ConnectingMedia">>,
                       <<"ConnectingMedia", "MediaActive">>,
                       <<"ConnectingMedia", "Terminating">>,
                       <<"Originating",     "Terminating">>,
                       <<"Terminating",     "Terminated">> }

IsValidTransition(from, to) ==
    <<from, to>> \in { <<"Init",            "Originating">>,
                       <<"Originating",     "ConnectingMedia">>,
                       <<"ConnectingMedia", "MediaActive">>,
                       <<"ConnectingMedia", "Terminating">>,
                       <<"Originating",     "Terminating">>,
                       <<"MediaActive",     "Terminating">>,
                       <<"Terminating",     "Terminated">> }

New == /\ session \notin {"MediaActive", "Terminating"}
       /\ session' = "Init"

Transition == \E to \in SessionStates : /\ IsValidTransition(session, to)
                                        /\ session' = to

SessionInit == session = "None"

SessionSpec == SessionInit /\ [][New \/ Transition]_session
=============================================================================
