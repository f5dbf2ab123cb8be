---------------------------- MODULE TimersProofs ----------------------------
(***************************************************************************)
(* Proofs about module SipTimers, for any timer, limit, timeout and number *)
(* of losses: its types, what the retransmissions of an INVITE repair, and *)
(* how long the drain lets a set-up run.                                   *)
(***************************************************************************)
EXTENDS SipTimers, RecursionLemmas, TLAPS

Messages == [to : {"trunk", "client"}, cseq : 1 .. Wanted,
             status : {0, 180, 200, 407}]

Ops    == {"top", "recv", "late", "ok", "timeout", "panic"}
States == {"idle", "ringing", "answered"}

LEMMA Constants ==
    /\ TimerInitial \in Nat /\ TimerInitial > 0 /\ TimerCap \in Nat
    /\ TimerInitial <= TimerCap
    /\ InviteRetransmitLimit \in Nat /\ InviteTimeout \in Nat
    /\ DrainLimit \in Nat /\ DrainLimit > 2 /\ FramesPerTick \in Nat
    /\ LossLimit \in Nat /\ StallLimit \in Nat
    /\ Challenging \subseteq BOOLEAN
  BY TimersAssumption

LEMMA DoubledTyped ==
    ASSUME NEW t \in TimerInitial .. TimerCap
    PROVE  Doubled(t) \in TimerInitial .. TimerCap
  BY Constants DEF Doubled
----------------------------------------------------------------------------
(* Types.  A 407 is for the INVITE without credentials, and a read only    *)
(* starts before the deadline.                                             *)

(* Where invite() is, and the trunk.                                       *)
FlagsOK ==
    /\ op \in Ops /\ trunk \in States
    /\ got_provisional \in BOOLEAN /\ challenges \in BOOLEAN

(* What is under way.                                                      *)
GoodWire(w) ==
    /\ w \subseteq Messages
    /\ \A m \in w : m.status = 407 => m.cseq = 1 /\ challenges

WireOK == cseq \in 1 .. Wanted /\ GoodWire(wire)

(* The numbers.                                                            *)
ClockOK ==
    /\ now \in Nat /\ now <= InviteTimeout + stalled
    /\ op = "recv" => now < InviteTimeout
    /\ retransmit_count \in 0 .. InviteRetransmitLimit
    /\ retransmit_timer \in TimerInitial .. TimerCap
    /\ last_send \in 0 .. now
    /\ iterations \in 0 .. DrainLimit - 1
    /\ stalled \in 0 .. StallLimit /\ owed \in 0 .. stalled
    /\ lost \in 0 .. LossLimit

LEMMA WantedTyped == Wanted \in 1 .. 2 /\ 1 \in 1 .. Wanted /\ Wanted \in 1 .. Wanted
  BY DEF Wanted

LEMMA MessagesTyped ==
    /\ \A n \in 1 .. Wanted : Invite(n) \in Messages /\ Invite(n).status = 0
    /\ \A n \in 1 .. Wanted, s \in {180, 200, 407} :
          /\ Response(n, s) \in Messages
          /\ Response(n, s).status = s /\ Response(n, s).cseq = n
  BY DEF Messages, Invite, Response

(* What is taken from the wire leaves it good, and so does what is put     *)
(* there: an INVITE, a 180 or a 200.                                       *)
LEMMA WireShrinks ==
    ASSUME NEW w, GoodWire(w), NEW v, v \subseteq w
    PROVE  GoodWire(v)
  BY DEF GoodWire

LEMMA WireGrows ==
    ASSUME NEW w, GoodWire(w), NEW m \in Messages, m.status # 407
    PROVE  GoodWire(w \cup {m})
  BY DEF GoodWire

(* The wire is as good for a later state of a step that leaves `challenges'*)
(* alone, and they all do.                                                 *)
LEMMA SameTrunk == [Next]_vars => challenges' = challenges
  BY DEF Next, vars, peer, TimesOut, Retransmits, Listens, SkipsStale,
     HearsRinging, HearsAnswer, HearsChallenge, Tick, Stalls, Wakes, DrainPanics,
     TrunkChallenges, TrunkRings, TrunkAnswers, Loses, Over

LEMMA FlagsStep == FlagsOK /\ [Next]_vars => FlagsOK'
  <1> SUFFICES ASSUME FlagsOK, [Next]_vars PROVE FlagsOK'
    OBVIOUS
  <1> USE DEF FlagsOK, Ops, States
  <1>1. CASE TimesOut \/ Retransmits \/ Listens \/ Over \/ UNCHANGED vars
    BY <1>1 DEF TimesOut, Retransmits, Listens, Over, vars, timer, peer
  <1>2. CASE \E m \in wire : \/ SkipsStale(m) \/ HearsRinging(m)
                             \/ HearsAnswer(m) \/ HearsChallenge(m)
    BY <1>2 DEF SkipsStale, HearsRinging, HearsAnswer, HearsChallenge, timer, peer
  <1>3. CASE Tick \/ Stalls \/ Wakes \/ DrainPanics
    BY <1>3 DEF Tick, Stalls, Wakes, DrainPanics, timer, peer
  <1>4. CASE TrunkChallenges \/ TrunkRings \/ TrunkAnswers \/ Loses
    BY <1>4 DEF TrunkChallenges, TrunkRings, TrunkAnswers, Loses, timer, peer
  <1> QED
    BY <1>1, <1>2, <1>3, <1>4 DEF Next

LEMMA WireStep == WireOK /\ [Next]_vars => WireOK'
  <1> SUFFICES ASSUME WireOK, [Next]_vars PROVE WireOK'
    OBVIOUS
  <1>0. cseq \in 1 .. Wanted /\ GoodWire(wire)
    BY DEF WireOK
  <1>a. SUFFICES cseq' \in 1 .. Wanted /\ GoodWire(wire')
    <2>1. challenges' = challenges
      BY SameTrunk
    <2>2. Wanted' = Wanted
      BY <2>1 DEF Wanted
    <2>3. Messages' = Messages
      BY <2>2 DEF Messages
    <2>4. GoodWire(wire)' <=> GoodWire(wire')
      BY <2>1, <2>3 DEF GoodWire
    <2> QED
      BY <2>2, <2>4 DEF WireOK
  <1>1. CASE \/ TimesOut \/ Listens \/ Wakes \/ DrainPanics \/ Over
             \/ UNCHANGED vars
    <2>1. cseq' = cseq /\ wire' = wire
      BY <1>1 DEF TimesOut, Listens, Wakes, DrainPanics, Over, vars
    <2> QED
      BY <1>0, <2>1, Zenon
  <1>2. CASE \/ Loses
             \/ \E m \in wire : SkipsStale(m) \/ HearsRinging(m) \/ HearsAnswer(m)
    <2>1. cseq' = cseq /\ \E m \in wire : wire' = wire \ {m}
      BY <1>2 DEF Loses, SkipsStale, HearsRinging, HearsAnswer, Receives
    <2>2. wire' \subseteq wire
      BY <2>1
    <2> QED
      BY <1>0, <2>1, <2>2, WireShrinks, Zenon
  <1>3. CASE Retransmits
    <2>1. cseq' = cseq /\ wire' = wire \cup {Invite(1)}
      BY <1>3 DEF Retransmits
    <2>2. Invite(1) \in Messages /\ Invite(1).status # 407
      BY WantedTyped, MessagesTyped
    <2> QED
      BY <1>0, <2>1, <2>2, WireGrows, Zenon
  <1>4. CASE \E m \in wire : HearsChallenge(m)
    <2>1. PICK m \in wire : HearsChallenge(m)
      BY <1>4
    <2>2. /\ m.status = 407 /\ m.cseq = cseq
          /\ cseq' = cseq + 1 /\ wire' = (wire \ {m}) \cup {Invite(cseq + 1)}
      BY <2>1 DEF HearsChallenge
    <2>3. m.cseq = 1 /\ challenges
      BY <1>0, <2>2 DEF GoodWire
    <2>4. cseq + 1 = 2 /\ 2 \in 1 .. Wanted
      BY <2>2, <2>3 DEF Wanted
    <2>5. Invite(2) \in Messages /\ Invite(2).status # 407
      BY <2>4, MessagesTyped
    <2>6. GoodWire(wire \ {m})
      <3>1. wire \ {m} \subseteq wire
        OBVIOUS
      <3> QED
        BY <1>0, <3>1, WireShrinks, Zenon
    <2>7. GoodWire((wire \ {m}) \cup {Invite(2)})
      BY <2>5, <2>6, WireGrows, Zenon
    <2> QED
      BY <2>2, <2>4, <2>7, Zenon
  <1>5. Response(Wanted, 180) \in Messages /\ Response(Wanted, 180).status # 407
        /\ Response(Wanted, 200) \in Messages /\ Response(Wanted, 200).status # 407
    BY WantedTyped, MessagesTyped
  <1>6. CASE Tick \/ Stalls
    <2>1. cseq' = cseq /\ wire' \in {Repeated, wire \cup Repeated}
      BY <1>6 DEF Tick, Stalls
    <2>2. GoodWire({}) /\ {} \cup {Response(Wanted, 200)} = {Response(Wanted, 200)}
      BY DEF GoodWire
    <2>3. GoodWire({} \cup {Response(Wanted, 200)})
      BY <1>5, <2>2, WireGrows, Zenon
    <2>4. GoodWire(wire \cup {Response(Wanted, 200)})
      BY <1>0, <1>5, WireGrows, Zenon
    <2>5. GoodWire(Repeated) /\ GoodWire(wire \cup Repeated)
      <3>1. CASE trunk = "answered"
        BY <2>2, <2>3, <2>4, <3>1, Zenon DEF Repeated
      <3>2. CASE trunk # "answered"
        <4>1. Repeated = {} /\ wire \cup {} = wire
          BY <3>2 DEF Repeated
        <4> QED
          BY <1>0, <2>2, <4>1, Zenon
      <3> QED
        BY <3>1, <3>2
    <2>6. CASE wire' = Repeated
      BY <1>0, <2>1, <2>5, <2>6, Zenon
    <2>7. CASE wire' = wire \cup Repeated
      BY <1>0, <2>1, <2>5, <2>7, Zenon
    <2> QED
      BY <2>1, <2>6, <2>7
  <1>7. CASE TrunkChallenges
    <2>1. /\ cseq' = cseq /\ challenges
          /\ wire' = (wire \ {Invite(1)}) \cup {Response(1, 407)}
      BY <1>7 DEF TrunkChallenges
    <2>2. Response(1, 407) \in Messages /\ Response(1, 407).cseq = 1
      BY WantedTyped, MessagesTyped
    <2> QED
      BY <1>0, <2>1, <2>2 DEF GoodWire
  <1>8. CASE TrunkRings
    <2> DEFINE m == Response(Wanted, IF trunk = "answered" THEN 200 ELSE 180)
               w == wire \ {Invite(Wanted)}
    <2>1. cseq' = cseq /\ wire' = w \cup {m} /\ w \subseteq wire
      BY <1>8 DEF TrunkRings
    <2>2. m \in Messages /\ m.status # 407
      BY <1>5
    <2> HIDE DEF m, w
    <2>3. GoodWire(w)
      BY <1>0, <2>1, WireShrinks, Zenon
    <2> QED
      BY <1>0, <2>1, <2>2, <2>3, WireGrows, Zenon
  <1>9. CASE TrunkAnswers
    <2>1. cseq' = cseq /\ wire' = wire \cup {Response(Wanted, 200)}
      BY <1>9 DEF TrunkAnswers
    <2> QED
      BY <1>0, <1>5, <2>1, WireGrows, Zenon
  <1> QED
    BY <1>1, <1>2, <1>3, <1>4, <1>6, <1>7, <1>8, <1>9, Zenon DEF Next

(* A unit counts one or two turns a frame.                                 *)
LEMMA DrainedBounds ==
    ASSUME NEW u \in Nat, NEW n \in Drained(u)
    PROVE  n \in Nat /\ FramesPerTick * u <= n /\ n <= 2 * (FramesPerTick * u)
  <1>1. FramesPerTick * u \in Nat /\ u * FramesPerTick = FramesPerTick * u
        /\ 2 * u * FramesPerTick = 2 * (FramesPerTick * u)
    BY Constants
  <1> QED
    BY <1>1 DEF Drained

(* What a step may do to the numbers.                                      *)
LEMMA ClockStep == ClockOK /\ [Next]_vars => ClockOK'
  <1> SUFFICES ASSUME ClockOK, [Next]_vars PROVE ClockOK'
    OBVIOUS
  <1> USE Constants DEF ClockOK, drain
  <1>1. CASE TimesOut \/ Over \/ UNCHANGED vars
    BY <1>1 DEF TimesOut, Over, vars, timer
  <1>2. CASE Listens
    BY <1>2 DEF Listens, TimedOut, timer
  <1>3. CASE Retransmits
    BY <1>3, DoubledTyped DEF Retransmits, TimedOut, Due
  <1>4. CASE \E m \in wire : \/ SkipsStale(m) \/ HearsRinging(m)
                             \/ HearsAnswer(m) \/ HearsChallenge(m)
    <2>1. /\ now' = now /\ op' # "recv" /\ lost' = lost
          /\ iterations' = iterations /\ stalled' = stalled /\ owed' = owed
          /\ \/ /\ retransmit_count' = retransmit_count
                /\ retransmit_timer' = retransmit_timer
                /\ last_send' = last_send
             \/ /\ retransmit_count' = 0
                /\ retransmit_timer' = TimerInitial
                /\ last_send' = now
      BY <1>4 DEF SkipsStale, HearsRinging, HearsAnswer, HearsChallenge, timer
    <2> QED
      BY <2>1
  <1>5. CASE Tick
    <2>1. PICK n \in Drained(owed + 1) : /\ iterations + n < DrainLimit
                                         /\ iterations' = iterations + n
      BY <1>5 DEF Tick
    <2>2. n \in Nat
      BY <2>1, DrainedBounds
    <2> QED
      BY <1>5, <2>1, <2>2 DEF Tick, timer
  <1>6. CASE Wakes \/ DrainPanics
    BY <1>6 DEF Wakes, DrainPanics, timer
  <1>9. CASE Stalls
    BY <1>9 DEF Stalls, timer
  <1>7. CASE TrunkChallenges \/ TrunkRings \/ TrunkAnswers
    BY <1>7 DEF TrunkChallenges, TrunkRings, TrunkAnswers, timer
  <1>8. CASE Loses
    BY <1>8 DEF Loses, timer
  <1> QED
    BY <1>1, <1>2, <1>3, <1>4, <1>5, <1>6, <1>7, <1>8, <1>9 DEF Next

(* The inductive invariant.                                                *)
Typed == FlagsOK /\ WireOK /\ ClockOK

LEMMA TimersInvariant == Spec => []Typed
  <1>1. Init => Typed
    <2> SUFFICES ASSUME Init PROVE Typed
      OBVIOUS
    <2>1. FlagsOK
      BY Constants DEF Init, FlagsOK, Ops, States
    <2>2. Invite(1) \in Messages /\ Invite(1).status # 407
      BY WantedTyped, MessagesTyped
    <2>3. GoodWire({}) /\ {} \cup {Invite(1)} = {Invite(1)}
      BY DEF GoodWire
    <2>4. GoodWire({Invite(1)})
      BY <2>2, <2>3, WireGrows, Zenon
    <2>5. WireOK
      BY <2>4, WantedTyped, Zenon DEF WireOK, Init
    <2>6. ClockOK
      BY Constants DEF Init, ClockOK, FirstTick
    <2> QED
      BY <2>1, <2>5, <2>6 DEF Typed
  <1>2. Typed /\ [Next]_vars => Typed'
    BY FlagsStep, WireStep, ClockStep DEF Typed
  <1> QED
    BY <1>1, <1>2, PTL DEF Spec

(* The state of a set-up stays in its types: no more copies go out than    *)
(* the limit, the timer stays between its first value and its cap, and the *)
(* loop never runs past the deadline.                                      *)
THEOREM TimersTypeCorrect == Spec => []TimersTypeOK
  <1>0. ClockOK => now \in 0 .. InviteTimeout + StallLimit
    BY Constants DEF ClockOK
  <1>1. Typed => TimersTypeOK
    BY <1>0, Zenon DEF Typed, FlagsOK, WireOK, GoodWire, ClockOK, TimersTypeOK, Ops,
       States, Messages
  <1> QED
    BY <1>1, TimersInvariant, PTL
----------------------------------------------------------------------------
(* The patience of the drain.  The limit of the code is 500 turns, 20 * 25 *)
(* frames: the five seconds of its test, counted twice because a chunk of  *)
(* audio may be read for each frame that is written.                       *)
DrainIsSized == FramesPerTick > 1 /\ DrainLimit >= 20 * FramesPerTick

(* A unit of time counts one or two turns a frame, at once or when it is   *)
(* made up, and only the limit makes the drain panic.                      *)
Counted ==
    /\ FramesPerTick * now <= iterations + FramesPerTick * owed
    /\ iterations + 2 * (FramesPerTick * owed) <= 2 * (FramesPerTick * now) + 2
    /\ op = "panic" => DrainLimit <= 2 * (FramesPerTick * (now + 1)) + 2
    /\ op = "timeout" => now >= InviteTimeout

LEMMA CountedStep ==
    ASSUME Typed, Counted, [Next]_vars
    PROVE  Counted'
  <1> USE Constants DEF Counted, Typed, ClockOK, drain
  <1>0. /\ now \in Nat /\ owed \in Nat /\ iterations \in Nat
        /\ FramesPerTick * now \in Nat /\ FramesPerTick * owed \in Nat
        /\ FramesPerTick * (now + 1) = FramesPerTick * now + FramesPerTick
        /\ FramesPerTick * (owed + 1) = FramesPerTick * owed + FramesPerTick
        /\ FramesPerTick * 0 = 0
    OBVIOUS
  <1>1. CASE Tick
    <2>1. /\ now' = now + 1 /\ op' = "top" /\ owed' = 0
          /\ \E n \in Drained(owed + 1) : iterations' = iterations + n
      BY <1>1 DEF Tick
    <2>2. /\ iterations' \in Nat
          /\ iterations + FramesPerTick * (owed + 1) <= iterations'
          /\ iterations' <= iterations + 2 * (FramesPerTick * (owed + 1))
      BY <1>0, <2>1, DrainedBounds
    <2> QED
      BY <1>0, <2>1, <2>2
  <1>2. CASE Stalls
    <2>1. /\ now' = now + 1 /\ op' = "late" /\ owed' = owed + 1
          /\ iterations' = iterations
      BY <1>2 DEF Stalls
    <2> QED
      BY <1>0, <2>1
  <1>3. CASE DrainPanics
    <2>1. PICK u \in {owed, owed + 1} :
             \E n \in Drained(u) : iterations + n >= DrainLimit
      BY <1>3 DEF DrainPanics
    <2>2. /\ DrainLimit <= iterations + 2 * (FramesPerTick * u)
          /\ FramesPerTick * u \in Nat
      BY <1>0, <2>1, DrainedBounds
    <2>3. FramesPerTick * u <= FramesPerTick * owed + FramesPerTick
      BY <1>0, <2>1
    <2>4. /\ now' = now /\ iterations' = iterations /\ owed' = owed
          /\ op' = "panic"
      BY <1>3 DEF DrainPanics
    <2> QED
      BY <1>0, <2>2, <2>3, <2>4
  <1>4. CASE TimesOut
    BY <1>4 DEF TimesOut, TimedOut
  <1>5. CASE \/ Retransmits \/ Listens \/ Wakes \/ Over \/ UNCHANGED vars
             \/ TrunkChallenges \/ TrunkRings \/ TrunkAnswers \/ Loses
             \/ \E m \in wire : \/ SkipsStale(m) \/ HearsRinging(m)
                                \/ HearsAnswer(m) \/ HearsChallenge(m)
    <2>1. /\ now' = now /\ iterations' = iterations /\ owed' = owed
          /\ op' = op \/ op' \notin {"panic", "timeout"}
      BY <1>5 DEF Retransmits, Listens, Wakes, Over, vars, TrunkChallenges,
         TrunkRings, TrunkAnswers, Loses, SkipsStale, HearsRinging,
         HearsAnswer, HearsChallenge
    <2> QED
      BY <2>1
  <1> QED
    BY <1>1, <1>2, <1>3, <1>4, <1>5, Zenon DEF Next

LEMMA CountedInvariant == Spec => []Counted
  <1>1. Init => Counted
    BY Constants DEF Init, Counted, FirstTick
  <1>2. Typed /\ Counted /\ [Next]_vars => Counted'
    BY CountedStep
  <1> QED
    BY <1>1, <1>2, TimersInvariant, PTL DEF Spec

(* Whatever the length of a frame, for every limit of at least what five   *)
(* seconds take, and however slmodemd reads: the drain never panics before *)
(* a set-up has run for 4.5 s.                                             *)
THEOREM DrainIsPatient ==
    ASSUME DrainIsSized
    PROVE  Spec => []DrainCoversSetup
  <1>1. Typed /\ Counted => DrainCoversSetup
    <2> SUFFICES ASSUME Typed, Counted, op = "panic", now < 9 PROVE FALSE
      BY Constants DEF DrainCoversSetup, Typed, ClockOK
    <2>1. 20 * FramesPerTick <= 2 * (FramesPerTick * (now + 1)) + 2
      BY Constants DEF Typed, ClockOK, Counted, DrainIsSized
    <2>2. now \in 0 .. 8 /\ FramesPerTick \in Nat /\ FramesPerTick > 1
      BY Constants DEF Typed, ClockOK, DrainIsSized
    <2> QED
      BY <2>1, <2>2
  <1> QED
    BY <1>1, TimersInvariant, CountedInvariant, PTL

(* A set-up has not run longer than the limit of the drain, not counting   *)
(* the time for which slmodemd did not read its silence, whatever the      *)
(* INVITE timeout: 10 s, with the values of the code.                      *)
DrainEnds == FramesPerTick * (now - stalled) < DrainLimit

THEOREM DrainEndsSetup == Spec => []DrainEnds
  <1>1. Typed /\ Counted => DrainEnds
    <2> SUFFICES ASSUME Typed, Counted PROVE DrainEnds
      OBVIOUS
    <2>1. /\ now \in Nat /\ owed \in Nat /\ stalled \in Nat /\ owed <= stalled
          /\ FramesPerTick \in Nat /\ iterations < DrainLimit
          /\ iterations \in Nat /\ DrainLimit \in Nat
      BY Constants DEF Typed, ClockOK
    <2>2. /\ FramesPerTick * (now - stalled)
                = FramesPerTick * now - FramesPerTick * stalled
          /\ FramesPerTick * owed <= FramesPerTick * stalled
          /\ FramesPerTick * now \in Nat /\ FramesPerTick * owed \in Nat
          /\ FramesPerTick * stalled \in Nat
      BY <2>1
    <2> QED
      BY <2>1, <2>2 DEF Counted, DrainEnds
  <1> QED
    BY <1>1, TimersInvariant, CountedInvariant, PTL

(* So the INVITE timeout of the configuration never fires when it is       *)
(* longer than that and than slmodemd stops reading, as Config's default   *)
(* of 60 s is for any pause of up to 50 s: a set-up that gets no final     *)
(* response ends in the panic of the drain.  Run TimersPatience shows that *)
(* panic; this says that there is no other end.                            *)
DrainIsFirst ==
    /\ StallLimit <= InviteTimeout
    /\ DrainLimit <= FramesPerTick * (InviteTimeout - StallLimit)

THEOREM TimeoutNeverFires ==
    ASSUME DrainIsFirst
    PROVE  Spec => [](op # "timeout")
  <1>1. DrainEnds /\ Typed /\ Counted => op # "timeout"
    <2> SUFFICES ASSUME DrainEnds, Typed, Counted, op = "timeout" PROVE FALSE
      OBVIOUS
    <2>1. /\ now \in Nat /\ stalled \in Nat /\ stalled <= StallLimit
          /\ now >= InviteTimeout
      BY Constants DEF Typed, ClockOK, Counted
    <2>2. InviteTimeout - StallLimit \in Nat /\ now - stalled \in Nat
          /\ InviteTimeout - StallLimit <= now - stalled
      BY <2>1, Constants DEF DrainIsFirst
    <2>3. FramesPerTick * (InviteTimeout - StallLimit)
            <= FramesPerTick * (now - stalled)
      BY <2>2, Constants
    <2>4. /\ FramesPerTick * (InviteTimeout - StallLimit) \in Nat
          /\ FramesPerTick * (now - stalled) \in Nat /\ DrainLimit \in Nat
      BY <2>2, Constants
    <2> QED
      BY <2>3, <2>4 DEF DrainEnds, DrainIsFirst
  <1> QED
    BY <1>1, TimersInvariant, CountedInvariant, DrainEndsSetup, PTL
----------------------------------------------------------------------------
(* What the retransmissions repair.  The wait before each copy of an       *)
(* INVITE, and when the copy goes out, as long as nothing is heard.        *)
Interval[n \in 0 .. InviteRetransmitLimit] ==
    IF n = 0 THEN TimerInitial ELSE Doubled(Interval[n - 1])

CopyTime[n \in 0 .. InviteRetransmitLimit] ==
    IF n = 0 THEN 0 ELSE CopyTime[n - 1] + Interval[n - 1]

(* No more datagrams are lost than invite() sends copies, and the copy     *)
(* after the last loss still goes out before the timeout, even if invite() *)
(* is not polled for a while.  With the values of the code, and the        *)
(* timeout of Config's default, that is seven losses and 40 s without a    *)
(* poll: the seventh copy is due after 39 units, of 120.                   *)
LossesFit ==
    /\ LossLimit <= InviteRetransmitLimit
    /\ CopyTime[LossLimit] + StallLimit < InviteTimeout

LEMMA IntervalDef ==
    /\ Interval \in [0 .. InviteRetransmitLimit -> TimerInitial .. TimerCap]
    /\ Interval[0] = TimerInitial
    /\ \A n \in 1 .. InviteRetransmitLimit : Interval[n] = Doubled(Interval[n - 1])
  <1> DEFINE m == InviteRetransmitLimit
             A == TimerInitial .. TimerCap
             T == [p \in A \X (1 .. m) |-> Doubled(p[1])]
             Eq(f) == f = [n \in 0 .. m |-> IF n = 0 THEN TimerInitial ELSE Doubled(f[n - 1])]
  <1>1. m \in Nat /\ TimerInitial \in A
    BY Constants
  <1>2. \A t \in A, k \in 1 .. m : T[<<t, k>>] = Doubled(t)
    OBVIOUS
  <1>3. T \in [A \X (1 .. m) -> A]
    BY DoubledTyped
  <1> HIDE DEF T, m, A
  <1>4. PICK f \in [0 .. m -> A] : IsRun(f, TimerInitial, T, m)
    BY <1>1, <1>3, RunExists
  <1>5. ASSUME NEW k \in 0 .. m
        PROVE  f[k] = IF k = 0 THEN TimerInitial ELSE Doubled(f[k - 1])
    <2>1. f[k] = IF k = 0 THEN TimerInitial ELSE T[<<f[k - 1], k>>]
      BY <1>4 DEF IsRun
    <2>2. k # 0 => k - 1 \in 0 .. m /\ k \in 1 .. m
      BY <1>1
    <2> QED
      BY <1>2, <2>1, <2>2
  <1>6. Eq(f)
    BY <1>5
  <1>7. Interval = CHOOSE g : Eq(g)
    BY Zenon DEF Interval, m
  <1>8. Eq(Interval)
    <2> HIDE DEF Eq
    <2> QED
      BY <1>6, <1>7, Zenon
  <1>9. /\ 0 \in 0 .. m
        /\ \A n \in 1 .. m : n \in 0 .. m /\ n # 0
    BY <1>1
  <1>10. Interval[0] = TimerInitial
    BY <1>8, <1>9
  <1>11. \A n \in 1 .. m : Interval[n] = Doubled(Interval[n - 1])
    BY <1>8, <1>9
  <1>12. \A n \in 0 .. m : Interval[n] \in A
    <2>1. \A k \in 1 .. m : Interval[k - 1] \in A => Interval[k] \in A
      BY <1>11, DoubledTyped DEF A
    <2> QED
      BY <1>1, <1>10, <2>1, StaysIn
  <1>13. Interval \in [0 .. m -> A]
    BY <1>8, <1>12
  <1> QED
    BY <1>10, <1>11, <1>13 DEF m, A

LEMMA CopyTimeDef ==
    /\ CopyTime \in [0 .. InviteRetransmitLimit -> Nat]
    /\ CopyTime[0] = 0
    /\ \A n \in 1 .. InviteRetransmitLimit :
          CopyTime[n] = CopyTime[n - 1] + Interval[n - 1]
  <1> DEFINE m == InviteRetransmitLimit
             T == [p \in Nat \X (1 .. m) |-> p[1] + Interval[p[2] - 1]]
             Eq(f) == f = [n \in 0 .. m |-> IF n = 0 THEN 0 ELSE f[n - 1] + Interval[n - 1]]
  <1>1. m \in Nat /\ 0 \in Nat
    BY Constants
  <1>2. \A t \in Nat, k \in 1 .. m : T[<<t, k>>] = t + Interval[k - 1]
    OBVIOUS
  <1>3. \A k \in 1 .. m : Interval[k - 1] \in Nat
    BY IntervalDef, Constants
  <1>4. T \in [Nat \X (1 .. m) -> Nat]
    BY <1>3
  <1> HIDE DEF T, m
  <1>5. PICK f \in [0 .. m -> Nat] : IsRun(f, 0, T, m)
    BY <1>1, <1>4, RunExists
  <1>6. ASSUME NEW k \in 0 .. m
        PROVE  f[k] = IF k = 0 THEN 0 ELSE f[k - 1] + Interval[k - 1]
    <2>1. f[k] = IF k = 0 THEN 0 ELSE T[<<f[k - 1], k>>]
      BY <1>5 DEF IsRun
    <2>2. k # 0 => k - 1 \in 0 .. m /\ k \in 1 .. m
      BY <1>1
    <2> QED
      BY <1>2, <2>1, <2>2
  <1>7. Eq(f)
    BY <1>6
  <1>8. CopyTime = CHOOSE g : Eq(g)
    BY Zenon DEF CopyTime, m
  <1>9. Eq(CopyTime)
    <2> HIDE DEF Eq
    <2> QED
      BY <1>7, <1>8, Zenon
  <1>10. /\ 0 \in 0 .. m
         /\ \A n \in 1 .. m : n \in 0 .. m /\ n # 0
    BY <1>1
  <1>11. CopyTime[0] = 0
    BY <1>9, <1>10
  <1>12. \A n \in 1 .. m : CopyTime[n] = CopyTime[n - 1] + Interval[n - 1]
    BY <1>9, <1>10
  <1>13. \A n \in 0 .. m : CopyTime[n] \in Nat
    <2>1. \A k \in 1 .. m : CopyTime[k - 1] \in Nat => CopyTime[k] \in Nat
      BY <1>3, <1>12
    <2> QED
      BY <1>1, <1>11, <2>1, StaysIn
  <1>14. CopyTime \in [0 .. m -> Nat]
    BY <1>9, <1>13
  <1> QED
    BY <1>11, <1>12, <1>14 DEF m

(* A later copy goes out later.                                            *)
LEMMA CopiesInOrder ==
    \A k \in 0 .. InviteRetransmitLimit : \A n \in 0 .. k : CopyTime[n] <= CopyTime[k]
  <1> DEFINE m == InviteRetransmitLimit
             S == {k \in 0 .. m : \A n \in 0 .. k : CopyTime[n] <= CopyTime[k]}
  <1>1. m \in Nat
    BY Constants
  <1>2. 0 \in S
    BY <1>1, CopyTimeDef
  <1>3. ASSUME NEW k \in 1 .. m, k - 1 \in S PROVE k \in S
    <2>1. /\ CopyTime[k] = CopyTime[k - 1] + Interval[k - 1]
          /\ CopyTime[k] \in Nat /\ CopyTime[k - 1] \in Nat
          /\ Interval[k - 1] \in Nat
      BY <1>1, CopyTimeDef, IntervalDef, Constants
    <2>2. ASSUME NEW n \in 0 .. k PROVE CopyTime[n] <= CopyTime[k]
      <3>1. CASE n = k
        BY <2>1, <3>1
      <3>2. CASE n # k
        <4>1. n \in 0 .. k - 1 /\ CopyTime[n] \in Nat
          BY <1>1, <3>2, CopyTimeDef
        <4>2. CopyTime[n] <= CopyTime[k - 1]
          BY <1>3, <4>1
        <4> QED
          BY <2>1, <4>1, <4>2
      <3> QED
        BY <3>1, <3>2
    <2> QED
      BY <2>2
  <1> HIDE DEF S
  <1>4. 0 .. m \subseteq S
    BY <1>1, <1>2, <1>3, BoundedInduction
  <1> QED
    BY <1>4 DEF S

(* As long as the trunk has not heard the first INVITE, or its challenge   *)
(* has not got through ...                                                 *)
Unheard == cseq = 1 /\ trunk = "idle"

(* ... the INVITE or the challenge is the only datagram under way, and     *)
(* when there is none, one more has been lost than copies went out; ...    *)
OneDatagram ==
    /\ wire \in {{}, {Invite(1)}, {Response(1, 407)}}
    /\ ~got_provisional
    /\ retransmit_count <= lost
    /\ wire = {} => retransmit_count + 1 <= lost

(* ... and the copies went out at their times, or later by no more than    *)
(* invite() was not polled, and so will the next.                          *)
OnSchedule ==
    /\ retransmit_timer = Interval[retransmit_count]
    /\ last_send <= CopyTime[retransmit_count] + stalled
    /\ op \in {"top", "recv", "late", "panic"}
    /\ op = "top" => wire = {} \/ now = 0
    /\ op = "late" => Invite(1) \notin wire
    /\ retransmit_count < InviteRetransmitLimit =>
          /\ op # "panic" =>
                now <= CopyTime[retransmit_count] + retransmit_timer + stalled
          /\ op = "recv" => now < last_send + retransmit_timer

Waiting == Unheard => OneDatagram /\ OnSchedule

(* The steps that leave it unheard, when it is.                            *)
LEMMA StaysUnheard ==
    ASSUME Typed, [Next]_vars, Unheard'
    PROVE  /\ Unheard
           /\ \/ TimesOut \/ Retransmits \/ Listens
              \/ Tick \/ Stalls \/ Wakes \/ DrainPanics
              \/ TrunkChallenges \/ Loses \/ Over \/ UNCHANGED vars
              \/ \E m \in wire : SkipsStale(m) \/ HearsRinging(m) \/ HearsAnswer(m)
  <1>1. cseq' = 1 /\ trunk' = "idle" /\ cseq \in Nat /\ cseq > 0
    <2>1. cseq \in 1 .. Wanted
      BY Zenon DEF Typed, WireOK
    <2> QED
      BY <2>1, WantedTyped DEF Unheard
  <1>2. CASE \/ TimesOut \/ Retransmits \/ Listens
             \/ Tick \/ Stalls \/ Wakes \/ DrainPanics
             \/ TrunkChallenges \/ Loses \/ Over \/ UNCHANGED vars
             \/ \E m \in wire : SkipsStale(m) \/ HearsRinging(m) \/ HearsAnswer(m)
    <2>1. cseq' = cseq /\ trunk' = trunk
      BY <1>2 DEF TimesOut, Retransmits, Listens, Tick, Stalls, Wakes,
         DrainPanics, TrunkChallenges, Loses, Over, SkipsStale, HearsRinging, HearsAnswer,
         vars, peer
    <2> QED
      BY <1>1, <1>2, <2>1 DEF Unheard
  <1>3. ASSUME NEW m \in wire, HearsChallenge(m) PROVE FALSE
    BY <1>1, <1>3 DEF HearsChallenge
  <1>4. ~TrunkRings
    BY <1>1 DEF TrunkRings
  <1>5. ~TrunkAnswers
    BY <1>1 DEF TrunkAnswers
  <1> QED
    BY <1>2, <1>3, <1>4, <1>5, Zenon DEF Next

(* Nothing that invite() could hear is under way.                          *)
LEMMA NothingToHear ==
    ASSUME Unheard, OneDatagram, NEW m \in wire
    PROVE  ~SkipsStale(m) /\ ~HearsRinging(m) /\ ~HearsAnswer(m)
  BY DEF Unheard, OneDatagram, Invite, Response, SkipsStale, HearsRinging,
     HearsAnswer, Receives, Heard

(* The timeout does not come before the copy that gets through.            *)
LEMMA NoTimeout ==
    ASSUME Typed, LossesFit, OneDatagram, OnSchedule
    PROVE  ~TimesOut
  <1> SUFFICES ASSUME op = "top", now >= InviteTimeout PROVE FALSE
    BY DEF TimesOut, TimedOut
  <1> DEFINE n == retransmit_count
  <1>1. /\ LossLimit \in Nat /\ InviteRetransmitLimit \in Nat
        /\ InviteTimeout \in Nat /\ LossLimit <= InviteRetransmitLimit
        /\ lost \in 0 .. LossLimit /\ n \in 0 .. InviteRetransmitLimit
        /\ now \in Nat /\ stalled \in Nat /\ stalled <= StallLimit
        /\ StallLimit \in Nat
    BY Constants DEF Typed, ClockOK, LossesFit
  <1>2. /\ CopyTime[LossLimit] \in Nat
        /\ CopyTime[LossLimit] + StallLimit < InviteTimeout
    BY <1>1, CopyTimeDef DEF LossesFit
  <1>3. wire = {}
    BY <1>1, <1>2 DEF OnSchedule
  <1>4. n + 1 \in 1 .. LossLimit /\ n < InviteRetransmitLimit
    BY <1>1, <1>3 DEF OneDatagram
  <1>5. now <= CopyTime[n] + Interval[n] + stalled
    BY <1>4 DEF OnSchedule
  <1> HIDE DEF n
  <1>6. CopyTime[n + 1] = CopyTime[n] + Interval[n]
    <2>1. n + 1 \in 1 .. InviteRetransmitLimit /\ (n + 1) - 1 = n
      BY <1>1, <1>4
    <2> QED
      BY <2>1, CopyTimeDef
  <1>7. CopyTime[n + 1] <= CopyTime[LossLimit] /\ CopyTime[n + 1] \in Nat
    <2>1. LossLimit \in 0 .. InviteRetransmitLimit /\ n + 1 \in 0 .. LossLimit
          /\ n + 1 \in 0 .. InviteRetransmitLimit
      BY <1>1, <1>4
    <2> QED
      BY <2>1, CopiesInOrder, CopyTimeDef
  <1> QED
    BY <1>1, <1>2, <1>5, <1>6, <1>7

LEMMA RetransmitsOnTime ==
    ASSUME Typed, OneDatagram, OnSchedule, Retransmits
    PROVE  OneDatagram' /\ OnSchedule'
  <1> DEFINE n == retransmit_count
  <1>1. /\ op = "top" /\ ~got_provisional /\ n < InviteRetransmitLimit
        /\ now - last_send >= retransmit_timer
        /\ op' = "recv" /\ wire' = wire \cup {Invite(1)}
        /\ retransmit_count' = n + 1 /\ last_send' = now
        /\ retransmit_timer' = Doubled(retransmit_timer)
        /\ now' = now /\ got_provisional' = got_provisional /\ lost' = lost
        /\ stalled' = stalled
    BY DEF Retransmits, Due, drain
  <1>2. /\ n \in 0 .. InviteRetransmitLimit /\ InviteRetransmitLimit \in Nat
        /\ now \in Nat /\ last_send \in 0 .. now /\ stalled \in Nat
        /\ retransmit_timer \in Nat /\ retransmit_timer > 0
        /\ lost \in Nat
    BY Constants DEF Typed, ClockOK
  <1>3. wire = {} /\ now <= CopyTime[n] + retransmit_timer + stalled
    BY <1>1, <1>2 DEF OnSchedule
  <1>4. wire' = {Invite(1)}
    BY <1>1, <1>3
  <1>5. n + 1 <= lost
    BY <1>3 DEF OneDatagram
  <1>6. OneDatagram'
    BY <1>1, <1>4, <1>5 DEF OneDatagram, Invite, Response
  <1>7. n + 1 \in 1 .. InviteRetransmitLimit /\ (n + 1) - 1 = n
    BY <1>1, <1>2
  <1>8. retransmit_timer = Interval[n]
    BY DEF OnSchedule
  <1> HIDE DEF n
  <1>9. /\ Interval[n + 1] = Doubled(Interval[n])
        /\ CopyTime[n + 1] = CopyTime[n] + Interval[n]
        /\ Interval[n + 1] \in Nat /\ Interval[n + 1] > 0
        /\ CopyTime[n + 1] \in Nat
    BY <1>7, IntervalDef, CopyTimeDef, Constants
  <1>10. /\ retransmit_timer' = Interval[n + 1]
         /\ last_send' <= CopyTime[n + 1] + stalled
    BY <1>1, <1>3, <1>8, <1>9
  <1>11. /\ now < last_send' + retransmit_timer'
         /\ now <= CopyTime[n + 1] + retransmit_timer' + stalled
    BY <1>1, <1>2, <1>9, <1>10
  <1>12. OnSchedule'
    BY <1>1, <1>10, <1>11 DEF OnSchedule
  <1> QED
    BY <1>6, <1>12

LEMMA WaitingStep ==
    ASSUME Typed, LossesFit, Waiting, [Next]_vars
    PROVE  Waiting'
  <1> SUFFICES ASSUME Unheard' PROVE OneDatagram' /\ OnSchedule'
    BY DEF Waiting
  <1>1. Unheard /\ OneDatagram /\ OnSchedule
    BY StaysUnheard DEF Waiting
  <1>2. /\ ~TimesOut
        /\ \A m \in wire : ~SkipsStale(m) /\ ~HearsRinging(m) /\ ~HearsAnswer(m)
    BY <1>1, NoTimeout, NothingToHear
  <1>3. /\ retransmit_count \in Nat /\ lost \in Nat /\ now \in Nat
        /\ last_send \in Nat /\ retransmit_timer \in Nat
        /\ InviteRetransmitLimit \in Nat /\ stalled \in Nat
        /\ CopyTime[retransmit_count] \in Nat
    BY Constants, CopyTimeDef DEF Typed, ClockOK
  <1>4. CASE Retransmits
    BY <1>1, <1>4, RetransmitsOnTime
  <1>5. CASE Listens \/ Wakes \/ DrainPanics \/ Over \/ UNCHANGED vars
    <2>1. /\ wire' = wire /\ got_provisional' = got_provisional /\ lost' = lost
          /\ retransmit_count' = retransmit_count /\ now' = now
          /\ retransmit_timer' = retransmit_timer /\ last_send' = last_send
          /\ stalled' = stalled
      BY <1>5 DEF Listens, Wakes, DrainPanics, Over, vars, timer, drain
    <2>2. OneDatagram'
      BY <1>1, <2>1 DEF OneDatagram, Invite, Response
    <2>3. \/ op' = op
          \/ op' = "panic"
          \/ op' = "top" /\ op = "late" /\ wire = {}
          \/ op' = "recv" /\ op = "top" /\ ~Due
      BY <1>5 DEF Listens, Wakes, DrainPanics, Over, vars
    <2>4. OnSchedule'
      BY <1>1, <1>3, <2>1, <2>3 DEF OnSchedule, OneDatagram, Due
    <2> QED
      BY <2>2, <2>4
  <1>6. CASE Tick
    <2>1. /\ op = "recv" /\ op' = "top" /\ wire = {} /\ wire' = {}
          /\ now' = now + 1
          /\ got_provisional' = got_provisional /\ lost' = lost
          /\ retransmit_count' = retransmit_count
          /\ retransmit_timer' = retransmit_timer /\ last_send' = last_send
          /\ stalled' = stalled
      BY <1>1, <1>6 DEF Tick, Repeated, Unheard, timer
    <2>2. OneDatagram'
      BY <1>1, <2>1 DEF OneDatagram
    <2>3. OnSchedule'
      BY <1>1, <1>3, <2>1 DEF OnSchedule
    <2> QED
      BY <2>2, <2>3
  <1>8. CASE Stalls
    <2>1. /\ op' = "late" /\ wire' = wire /\ now' = now + 1
          /\ op \in {"recv", "late"} /\ \A m \in wire : m.to = "client"
          /\ got_provisional' = got_provisional /\ lost' = lost
          /\ retransmit_count' = retransmit_count
          /\ retransmit_timer' = retransmit_timer /\ last_send' = last_send
          /\ stalled' = stalled + 1
      BY <1>1, <1>8 DEF Stalls, Repeated, Unheard, timer
    <2>2. OneDatagram'
      BY <1>1, <2>1 DEF OneDatagram
    <2>3. Invite(1) \notin wire
      BY <2>1 DEF Invite
    <2>4. OnSchedule'
      BY <1>1, <1>3, <2>1, <2>3 DEF OnSchedule
    <2> QED
      BY <2>2, <2>4
  <1>7. CASE TrunkChallenges \/ Loses
    <2>1. /\ op' = op /\ now' = now /\ stalled' = stalled /\ got_provisional' = got_provisional
          /\ retransmit_count' = retransmit_count
          /\ retransmit_timer' = retransmit_timer /\ last_send' = last_send
          /\ wire # {}
      BY <1>7 DEF TrunkChallenges, Loses, timer, drain
    <2>2. \/ lost' = lost /\ wire' = {Response(1, 407)}
          \/ lost' = lost + 1 /\ wire' = {}
      <3>1. CASE TrunkChallenges
        <4>1. /\ Invite(1) \in wire /\ lost' = lost
              /\ wire' = (wire \ {Invite(1)}) \cup {Response(1, 407)}
          BY <3>1 DEF TrunkChallenges
        <4>2. wire = {Invite(1)}
          BY <1>1, <4>1 DEF OneDatagram, Invite, Response
        <4> QED
          BY <4>1, <4>2
      <3>2. CASE Loses
        <4>1. lost' = lost + 1 /\ \E m \in wire : wire' = wire \ {m}
          BY <3>2 DEF Loses
        <4> QED
          BY <1>1, <4>1 DEF OneDatagram
      <3> QED
        BY <1>7, <3>1, <3>2
    <2>3. OneDatagram'
      BY <1>1, <1>3, <2>1, <2>2 DEF OneDatagram
    <2>4. Invite(1) \notin wire'
      BY <2>2 DEF Invite, Response
    <2>5. OnSchedule'
      BY <1>1, <1>3, <2>1, <2>4 DEF OnSchedule
    <2> QED
      BY <2>3, <2>5
  <1> QED
    BY <1>2, <1>4, <1>5, <1>6, <1>7, <1>8, StaysUnheard

(* For every timer and every limit: when the network loses no more         *)
(* datagrams than invite() sends copies, and the last copy that may be     *)
(* needed goes out before the timeout, no set-up times out unheard.        *)
THEOREM FirstLossRepaired ==
    ASSUME LossesFit
    PROVE  Spec => []RepairsFirstLoss
  <1>1. Init => Waiting
    <2> SUFFICES ASSUME Init PROVE OneDatagram /\ OnSchedule
      BY DEF Waiting
    <2>1. 0 \in 0 .. InviteRetransmitLimit
      BY Constants
    <2>2. Interval[0] = TimerInitial /\ CopyTime[0] = 0
      BY IntervalDef, CopyTimeDef
    <2> QED
      BY <2>1, <2>2, Constants DEF Init, OneDatagram, OnSchedule
  <1>2. Typed /\ Waiting /\ [Next]_vars => Waiting'
    BY WaitingStep
  <1>3. Typed /\ Waiting => RepairsFirstLoss
    BY DEF Waiting, Unheard, OnSchedule, RepairsFirstLoss, Typed, FlagsOK, States
  <1> QED
    BY <1>1, <1>2, <1>3, TimersInvariant, PTL DEF Spec

(* A trunk that asks for no credentials is always reached: what run        *)
(* TimersLostRetry shows, that a lost INVITE with credentials is never     *)
(* sent again, is all that the retransmissions leave unrepaired.           *)
THEOREM LossRepairedUnchallenged ==
    ASSUME LossesFit, TRUE \notin Challenging
    PROVE  Spec => []RepairsLoss
  <1>1. Init => ~challenges
    BY Constants DEF Init
  <1>2. ~challenges /\ [Next]_vars => ~challenges'
    BY SameTrunk
  <1>3. Typed /\ ~challenges /\ RepairsFirstLoss => RepairsLoss
    <2> SUFFICES ASSUME Typed, ~challenges, RepairsFirstLoss, op = "timeout"
                 PROVE  trunk # "idle"
      BY DEF RepairsLoss
    <2>1. cseq \in 1 .. Wanted
      BY Zenon DEF Typed, WireOK
    <2>2. cseq = 1
      BY <2>1 DEF Wanted
    <2> QED
      BY <2>2 DEF RepairsFirstLoss
  <1> QED
    BY <1>1, <1>2, <1>3, TimersInvariant, FirstLossRepaired, PTL DEF Spec
=============================================================================
