--------------------------- MODULE RegisterProofs ---------------------------
(***************************************************************************)
(* Proofs about module Register, for every registrar, every set of stray   *)
(* datagrams and every pair of timeouts.                                   *)
(***************************************************************************)
EXTENDS Register, TLAPS

(* Which REGISTER an await point is about.                                 *)
CseqAt ==
    /\ op = "start" => cseq = 0
    /\ op = "recv" => cseq = 1
    /\ op \in {"auth_top", "auth_recv"} => cseq = 2

TypeInv == RegisterTypeOK /\ CseqAt

LEMMA TypeInit == Init => TypeInv
  BY DEF Init, TypeInv, RegisterTypeOK, CseqAt, None

LEMMA TypeStep == TypeInv /\ [Next]_vars => TypeInv'
  <1> SUFFICES ASSUME TypeInv, [Next]_vars PROVE TypeInv'
    OBVIOUS
  <1> USE RegisterAssumption DEF TypeInv, RegisterTypeOK, CseqAt, None
  <1>1. CASE SendFails \/ Sends \/ RecvTimesOut
    BY <1>1 DEF SendFails, Sends, RecvTimesOut, Returns
  <1>2. CASE AuthTimesOut \/ AuthListens \/ AuthHearsNothing
    BY <1>2 DEF AuthTimesOut, AuthListens, AuthHearsNothing, NextTurn, Returns
  <1>3. ASSUME NEW m \in arrived,
               Registered(m) \/ Refused(m) \/ AuthSkips(m) \/ AuthDecided(m)
        PROVE  TypeInv'
    BY <1>3 DEF Registered, Refused, AuthSkips, AuthDecided, AuthRecv, NextTurn,
       Returns
  <1>4. ASSUME NEW m \in arrived, Challenged(m) PROVE TypeInv'
    BY <1>4 DEF Challenged, Recv, Returns
  <1>5. CASE RegistrarAnswers
    <2>1. PICK c \in 1 .. cseq, s \in Provisionals \cup Finals :
              arrived' = arrived \cup {[cseq |-> c, status |-> s]}
      BY <1>5 DEF RegistrarAnswers
    <2>2. c \in Nat /\ s \in 100..699
      OBVIOUS
    <2> QED
      BY <1>5, <2>1, <2>2 DEF RegistrarAnswers
  <1>6. CASE StrayArrives \/ Tick \/ Done \/ UNCHANGED vars
    BY <1>6 DEF StrayArrives, Tick, Done, vars
  <1> QED
    BY <1>1, <1>2, <1>3, <1>4, <1>5, <1>6 DEF Next, Client, Hears

(* The locals of register() and what it reports keep their types.         *)
THEOREM TypeCorrect == Spec => []RegisterTypeOK
  <1>1. TypeInv => RegisterTypeOK
    BY DEF TypeInv
  <1> QED
    BY <1>1, TypeInit, TypeStep, PTL DEF Spec
----------------------------------------------------------------------------
(* A final answer under way belongs to a REGISTER that was sent.           *)
Origins == \A m \in arrived : m \in Strays \/ m.cseq \in 1 .. cseq

(* The outcomes that say something of the registrar.                       *)
Verdicts == RegisteredIsReal /\ RefusalIsReal

Truth == Origins /\ Verdicts /\ (op # "done" => outcome = "none")

LEMMA TruthInit == Init => Truth
  BY DEF Init, Truth, Origins, Verdicts, RegisteredIsReal, RefusalIsReal

LEMMA TruthStep == TypeInv /\ Truth /\ [Next]_vars => Truth'
  <1> SUFFICES ASSUME TypeInv, Truth, [Next]_vars PROVE Truth'
    OBVIOUS
  <1> USE RegisterAssumption
      DEF TypeInv, RegisterTypeOK, CseqAt, Truth, Origins, Verdicts,
          RegisteredIsReal, RefusalIsReal, None
  <1>1. CASE SendFails \/ Sends \/ RecvTimesOut
    BY <1>1 DEF SendFails, Sends, RecvTimesOut, Returns
  <1>2. CASE AuthTimesOut \/ AuthListens \/ AuthHearsNothing
    BY <1>2 DEF AuthTimesOut, AuthListens, AuthHearsNothing, NextTurn, Returns
  <1>3. ASSUME NEW m \in arrived, Registered(m) PROVE Truth'
    <2>1. m.status = 200 /\ op = "recv" /\ cseq = 1
      BY <1>3 DEF Registered, Recv, Accepts
    <2>2. m = [cseq |-> 1, status |-> 200]
      BY <2>1
    <2> QED
      BY <1>3, <2>1, <2>2 DEF Registered, Returns
  <1>4. ASSUME NEW m \in arrived, Refused(m) \/ AuthSkips(m) PROVE Truth'
    BY <1>4 DEF Refused, AuthSkips, AuthRecv, NextTurn, Returns
  <1>5. ASSUME NEW m \in arrived, Challenged(m) PROVE Truth'
    BY <1>5 DEF Challenged, Recv, Returns
  <1>6. ASSUME NEW m \in arrived, AuthDecided(m) PROVE Truth'
    <2>1. m.cseq \in {None, 2} /\ cseq = 2
      BY <1>6 DEF AuthDecided, AuthRecv, Stale
    <2>2. CASE m.status = 200
      <3>1. m = [cseq |-> 2, status |-> 200]
        BY <2>1, <2>2
      <3> QED
        BY <1>6, <2>1, <2>2, <3>1 DEF AuthDecided, Accepts, Returns
    <2>3. CASE m.status # 200
      BY <1>6, <2>1, <2>3 DEF AuthDecided, Accepts, Returns
    <2> QED
      BY <2>2, <2>3
  <1>7. CASE RegistrarAnswers \/ StrayArrives
    BY <1>7 DEF RegistrarAnswers, StrayArrives
  <1>8. CASE Tick \/ Done \/ UNCHANGED vars
    BY <1>8 DEF Tick, Done, vars
  <1> QED
    BY <1>1, <1>2, <1>3, <1>4, <1>5, <1>6, <1>7, <1>8 DEF Next, Client, Hears

(* register() succeeds only on the registrar's 200 to the last REGISTER.   *)
THEOREM SuccessIsReal == Spec => []RegisteredIsReal
  <1>1. Truth => RegisteredIsReal
    BY DEF Truth, Verdicts
  <1> QED
    BY <1>1, TypeInit, TypeStep, TruthInit, TruthStep, PTL DEF Spec

(* It gives up as refused after its credentials only on an answer to the   *)
(* second REGISTER, or a datagram without CSeq, whatever is left over of   *)
(* the first.                                                              *)
THEOREM RefusedIsReal == Spec => []RefusalIsReal
  <1>1. Truth => RefusalIsReal
    BY DEF Truth, Verdicts
  <1> QED
    BY <1>1, TypeInit, TypeStep, TruthInit, TruthStep, PTL DEF Spec
----------------------------------------------------------------------------
(* How late it can be at each await point.                                 *)
Clocks ==
    /\ op = "start" => now = 0
    /\ op = "recv" => now <= until /\ until = RegisterTimeout
    /\ op \in {"auth_top", "auth_recv"} => deadline <= 2 * RegisterTimeout
    /\ op = "auth_recv" => now <= until /\ until < deadline + RecvTimeout
    /\ WaitIsBounded

LEMMA ClocksInit == Init => Clocks
  BY RegisterAssumption DEF Init, Clocks, WaitIsBounded

LEMMA ClocksStep == TypeInv /\ Clocks /\ [Next]_vars => Clocks'
  <1> SUFFICES ASSUME TypeInv, Clocks, [Next]_vars PROVE Clocks'
    OBVIOUS
  <1>1. /\ RecvTimeout \in Nat /\ RegisterTimeout \in Nat
        /\ RecvTimeout > 0 /\ RegisterTimeout > 0
        /\ now \in Nat /\ until \in Nat /\ deadline \in Nat
    BY RegisterAssumption DEF TypeInv, RegisterTypeOK
  <1> USE <1>1 DEF Clocks, WaitIsBounded
  <1>2. CASE SendFails \/ Sends \/ RecvTimesOut
    BY <1>2 DEF SendFails, Sends, RecvTimesOut, Returns
  <1>3. CASE AuthTimesOut \/ AuthListens \/ AuthHearsNothing
    BY <1>3 DEF AuthTimesOut, AuthListens, AuthHearsNothing, NextTurn, Returns
  <1>4. ASSUME NEW m \in arrived,
               Registered(m) \/ Refused(m) \/ AuthSkips(m) \/ AuthDecided(m)
        PROVE  Clocks'
    BY <1>4 DEF Registered, Refused, AuthSkips, AuthDecided, AuthRecv, NextTurn,
       Returns
  <1>5. ASSUME NEW m \in arrived, Challenged(m) PROVE Clocks'
    BY <1>5 DEF Challenged, Recv, Returns
  <1>6. CASE RegistrarAnswers \/ StrayArrives \/ Tick \/ Done \/ UNCHANGED vars
    BY <1>6 DEF RegistrarAnswers, StrayArrives, Tick, Done, vars
  <1> QED
    BY <1>2, <1>3, <1>4, <1>5, <1>6 DEF Next, Client, Hears

(* The registration is over, or about to be, after two timeouts and one    *)
(* receive.                                                                *)
THEOREM WaitBounded == Spec => []WaitIsBounded
  <1>1. Clocks => WaitIsBounded
    BY DEF Clocks
  <1> QED
    BY <1>1, TypeInit, TypeStep, ClocksInit, ClocksStep, PTL DEF Spec
=============================================================================
