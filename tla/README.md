# Verification of slmodem-sip-bridge

TLA+ models of the bridge, TLC configurations that check them on small
instances, and TLAPS proofs for every value of the constants.  Paths of the code
are relative to the repository, so that the program itself is in `src/src/`.

## 1. The system

`slmodem-sip-bridge` connects the software modem `slmodemd` to a telephone
network.  slmodemd starts it with one end of a socket pair.  The bridge registers
at a SIP trunk, waits for a line `DIAL:<string>` on the socket, calls that number,
and copies audio between the socket (16 bit samples) and RTP (mu-law) until one
side ends; it then hangs up.  It is one asynchronous task: everything that is
concurrent happens in the futures that `run()` joins or selects, in the trunk, in
the network and in slmodemd.

### Components

| Component | Code | State | Operations | Module |
|---|---|---|---|---|
| SIP client, calls | `sip.rs` | UDP socket; the `Call` (Call-ID, CSeq, To tag, remote RTP address, state); the locals of `invite` | `invite`, `poll_answer`, `ack`, `bye` | `Sip` |
| SIP client, registration | `sip.rs` | CSeq of REGISTER, deadline | `register` | `Register` |
| SIP client, timers | `sip.rs`, `bridge.rs` | retransmission interval, deadline, iteration counter | timer A, `try_recv_response` | `SipTimers` |
| Digest | `sip.rs` | none | response, header | `Digest` |
| Main loop | `bridge.rs: run` | place in the loop, `calls_count` | set-up, hang-up, exits | `Bridge` |
| Dial wait | `bridge.rs: wait_for_dial_string` | line buffer | silence every 20 ms, find a DIAL line | `SlSocket` |
| Set-up drain | `bridge.rs: drain_during_sip_setup` | iteration counter | poll `invite` while audio is discarded and silence written | `SlSocket`, `Bridge`, `SipTimers` |
| Media relay | `bridge.rs: relay_media` | two halves, carried byte, RTP stream | copy in both directions | `SlSocket`, `Bridge` |
| Session | `session.rs` | state of the call's life cycle | checked transitions | `Session` |
| RTP packets | `rtp.rs` | sequence number, timestamp, SSRC | build, parse | `RtpPacket`, `SlSocket` |
| Codec | `codec.rs` | carried byte | encode, decode, align | `Mulaw`, `SlSocket` |
| SDP, dial string | `sdp.rs`, `dial_string.rs` | none | parse | `SdpAnswer`, `DialString` |
| Configuration, start, descriptor | `config.rs`, `main.rs`, `slmodem.rs` | none after start | parse, adopt the socket | not modelled |

### How they interact

* `run()` owns the client and *awaits* its methods; `invite` is polled by the
  drain and can be **dropped** at an await point when slmodemd closes.
* `poll_answer` runs beside the relay in a `select!` and reads the same SIP socket
  as `invite` and `bye` do.
* The two halves of the relay are joined with `try_join!`: it returns at the first
  error, or when both have ended.
* Every datagram of the trunk goes to whoever reads the socket next.  There is no
  dispatcher: a response of an earlier transaction, an earlier call or of the
  REGISTER is told apart, or not, by the reader.
* The socket of slmodemd is handed from the dial wait to the drain to the relay.
  Each has a buffer of its own; what the one before has not read is for the next.
  A `write_all` inside an arm of `select!` keeps the other arms from running.

### What is hard

Responses that are late, repeated or lost; two futures and the main loop on one
socket; dropped futures; the many ways out of `run()`, all of which should hang
up; retransmission and deadlines across an authentication retry; counters that end in an
assertion; a join of two halves of which only one is told that the call is over;
a stream cut into reads anywhere, in lines and in samples; two peers that may
both wait for the other to read; counters that wrap.
`PROJECT.json`, "hazards", has each with its line and the properties for it.

### What makes each component correct

* **SIP client.** It believes of a call what the trunk answered to *this* INVITE;
  acknowledges what is owed and nothing else; sends credentials once; nothing
  follows a BYE and the BYE has the highest CSeq; a lost INVITE is repaired.
* **Registration.** Success and refusal are the registrar's word on the last
  REGISTER; the wait is bounded whatever arrives.
* **Main loop.** Every established call is hung up on every path; media flows only
  in an acknowledged call; the answer poll is confined to the relay; set-up ends;
  the bridge stops once slmodemd has gone.
* **Session.** The main loop never asks for a refused transition.
* **Dial wait, drain.** A DIAL line is heard wherever reads split it; the DSP is
  never starved; the drain's iteration limit leaves a set-up the time it needs.
* **Relay, RTP.** No byte of audio is lost, repeated or reordered, samples are never
  split, one direction does not block the other, headers order the packets.
* **Codec, packets, SDP, dial string, digest.** Agreement with the standards' own
  definitions.

## 2. The modules

| Module | What it is |
|---|---|
| `CallPhases` | **abstract**: the loop of `run()` as seen from outside, phases of a call and number of calls |
| `Session` | transition table of `session.rs`; `SessionSpec`, the **abstract** life of a call |
| `AudioPipe` | **abstract**: a pipe of bytes that leave in order, in whole samples |
| `Sip` | `SipClient` from INVITE to BYE, with the trunk and the network |
| `Bridge` | `run()`, **composing** `Sip` (EXTENDS) and `Session` (INSTANCE) with the relay, the poll and slmodemd's end |
| `SlSocket` | the bytes between slmodemd and the bridge: dial wait, drain, relay, RTP counters |
| `Register` | `register()` with its clock, and the registrar |
| `SipTimers` | the clock of a set-up: timer A, INVITE deadline, drain limit |
| `Mulaw`, `RtpPacket`, `SdpAnswer`, `DialString`, `Digest` | the pure functions, as operators |
| `Formats` | those functions against reference definitions, one state for each input |
| `SipProofs`, `SipMatchingProofs`, `BridgeProofs`, `TimersProofs`, `RegisterProofs`, `SlSocketProofs`, `FormatProofs` | theorems |
| `RecursionLemmas` | induction over numbers, and along a sequence: what the proofs about loops over bytes, lines and copies cite |
| `MCSip`, `MCBridge`, `MCSlSocket`, `MCRegister`, `MCFormats` | sets for TLC's instances |

Which implements which:

    Session <--- Bridge ---> CallPhases <--- SlSocket ---> AudioPipe
                   |
                  Sip        (every behaviour of Bridge is one of SipSpec)

`Bridge` has the SIP side of `run()` and no bytes, `SlSocket` has the bytes and takes
the outcome of a set-up to be any.  Both implement `CallPhases` with the same
variables `phase` and `calls_count`: this is where the two halves meet.

Operators called "Mutation of X" are X as a plausible error in the code would make
it; no specification uses them.  They serve to show that a property notices.

### `Sip`

`requests` and `responses` are the sets of all datagrams ever sent, and nothing
leaves them: any datagram may be delivered late, in any order, repeatedly or never.
A retransmission of the trunk adds nothing to the set and is a second delivery.  A
datagram has the fields the code reads (Call-ID, CSeq number, status, To tag, SDP).  A request has also
a field `dialog` for the properties: whether the BYE of its call was out when it was sent.  A repetition after the BYE is
thus a datagram of its own, and `NothingAfterBye` sees it.

An operation of the client is a chain of actions, one for each stretch between two
await points.  `op` is that point:

| `op` | Code |
|---|---|
| `none` | no method is running |
| `invite_top` | head of the response loop of `invite` (assertion, deadline, retransmission) |
| `invite_recv` | in `try_recv_response` |
| `bye_recv` | `bye` waits for one datagram |
| `panic` | the assertion on the number of turns failed |

`loop` holds the locals of `invite`, `call` the `Call` the bridge has (or
`NoCall`).  Each status the `match` tells apart has its own `Invite...` action.
`sent`, `acked` say whether a `send_to` succeeded; they are only ever
false with `SendErrors`.  Deadlines and timers may expire at any visit of the
loop, which allows every timing; `SipTimers` adds the clock.  Answers to REGISTER
that are still under way are the `Residues` of `RegisterResidue`.  Abstracted: message
text, generated Call-IDs and tags (distinct for each call).  A response without a
status line is silence, as in the code.

`Caller` is any use of the client that its assertions permit: the properties of `Sip` are
checked and proved for every caller and not only for the bridge.

### `Bridge`

`pc` is where `run()` is: `register`, `dial` (wait_for_dial_string), `originate`,
`bind`, `setup`/`inviting` (drain_during_sip_setup before/after the first poll of
`invite`), `ack`, `connect`, `media` (relay_media and the poll), `no_rtp`,
`relay_err`, `teardown` (the three places that call `bye`), `terminate`, and the
exits.  An exit has only a self-loop, so that TLC's deadlock check applies to all
else.  `established` is a history variable.

`SlToRtpEnds`, `SlReadFails` and `RtpSendFails` are the outcomes of one half,
`RtpToSlEnds`, `SlWriteFails` of the other; `RelayFails` is `try_join!` with an
error, `RelayReturns` without one, which also drops the answer poll as `select!`
does.

### `SlSocket`

Towards the bridge the socket is a bounded sequence of bytes (`queue`), and a read
takes any number of them up to the size of its buffer, as a read may.  slmodemd
writes DIAL lines and samples of two distinct bytes, of which some may look like
a newline.  The prefix `DIAL:` and the dialled string count as a byte each: the code
only compares whole lines, and it appends, clears and counts the bytes in between
in the same way.  In the other direction only the number of unread frames matters
(`feed`).

| State | Code |
|---|---|
| `phase` | place in `run()`; `fails` is the hang-up after a relay that failed |
| `line_buf` | the `Vec` of `wait_for_dial_string`, with its limit |
| `writing` | a `write_all` of silence waits inside an arm of `select!`, so that no arm runs |
| `residual` | the odd byte of `align_slin_buffer` |
| `halves`, `rtp_writing` | the futures of `try_join!` that still run; one of them waits for room |
| `rtp` | `seq` and `timestamp` of `RtpSender` |
| `sent` | history: the packets, as headers and bytes of audio |

`HearsByte` is one turn of the loop over the bytes of a read, `HeardOver` the whole loop; `Aligned` is
`align_slin_buffer`, `Advanced` the two counters, which start at 0 as in `create_rtp_pair`.

### `Register`

`op` is the await point: `recv` for the one receive after the first REGISTER,
`auth_top` and `auth_recv` for the loop after the second.  `arrived` is a set that
nothing leaves, as in `Sip`; `Strays` are datagrams that answer nothing, with or
without a CSeq.  The clock counts in a unit of which both timeouts are multiples;
time passes while a receive waits.

### `SipTimers`

The unit of time is `RECV_TIMEOUT`, 500 ms.  A datagram is delivered or lost in
less than a unit.  The clock ticks when nothing is under way, that is, when
`try_recv_response` waits its whole timeout.  Each unit costs the drain one or two iterations per
20 ms frame (`Drained`): a silence tick, and a read if slmodemd wrote a frame; the first tick of the interval
comes at once (`FirstTick`).  A write of silence blocks when slmodemd does not read (`Stalls`, for `StallLimit` units in
all): time passes, the drain counts nothing and does not poll `invite` (`op` is `late`).  Afterwards `invite` reads what is in
its socket before it looks at the clock (`Heard`, `Wakes`), and the interval makes up the ticks it missed (`owed`).  Left out
because `Sip` has them: early media, error responses, the limit of 1000
turns (500 s of silence, far beyond the deadline).

### The pure functions

Each is written as the code computes it, and `Formats` states what it should
compute without using it: `Mulaw` (segments from a table, bits with `\div` and
`%`) against the nearest of the 256 levels; `RtpPacket` (offsets into bytes)
against the header from which the bytes were made; `SdpAnswer` (a recursive function
along the lines) against the sections of a body; `DialString` against its comments;
`Digest` (a hash is the tuple of what was hashed) against what a registrar computes
from the header it receives.

## 3. The runs

All `.cfg` files give constants values only.  `CHECK_DEADLOCK FALSE` is used for
`Sip` only: the client has nothing to do after its last call, and a panic ends the process.

| Run | Shows |
|---|---|
| `SipOneCall` | one call against every status in any order, failing sends, both addresses and a refused body: types, no ACK without a final response, "answered" is true, a reported rejection was acknowledged, a failure seen by the poll is real in a call without challenge, silence after BYE, without even a repetition |
| `BridgeOneCall` | every branch of `run()`, failing sends and answers to REGISTER still under way: types, no refused transition, the poll only in the relay of an unanswered call, no deadlock; liveness: set-up ends, and after slmodemd closes the bridge stops or waits in the relay for RTP, and nowhere else |
| `BridgeTwoCalls` | two calls in one lifetime, the responses of the first delivered in the second: every established call hung up, ACK before media, BYE last, credentials once, refinement of `SessionSpec` and of `CallPhases`, a completed call is the last |
| `SlSocketCall` | two DIAL lines, three samples, reads cut anywhere, a socket that fills in both directions: refinement of `AudioPipe` and `CallPhases`, headers order the packets over two wraps; liveness: a DIAL line is heard, silence is fed, audio gets out of a relay whose other half is blocked |
| `RegisterOnce` | every answer, late, twice or never, among strays: success and refusal are real, the wait is bounded; liveness: `register` ends |
| `TimersLoss` | four losses, trunks with and without authentication, the drain's real limit, a socket of slmodemd that blocks for a second: a loss of the first INVITE or of its response is always repaired, and the drain's assertion leaves a set-up 4.5 s |
| `FormatsAll` | the pure functions on all bounded inputs; RTP packets have no padding |

The runs that end in a violation each show a disagreement between what the repository
says and what the code does; they are described in section 6.

### Bounds

* `CallsLimit` 1 or 2 (code: 1000).  What one call leaves for a later one is in
  `responses`; a third call adds no new kind of leftover, since every reader compares at most
  the CSeq number, which starts again at 1 in each call.
* `ResponseLoopLimit` 5 in `SipOneCall`, 4 in `BridgeOneCall`, 2 in `BridgeTwoCalls` (code:
  1000): 5 is enough for provisional, challenge, stale, ringing and final response in
  one set-up, and all are small enough that the panic at the limit is reached.
* `InviteRetransmitLimit` 1 (code: 7) in `Sip` and `Bridge`, where a further copy
  of a datagram adds nothing to the set.
* One or two RTP addresses: an answer either repeats the address of the early
  media or names another.
* Statuses: 183 and 100 for provisional, 200, 302 (a final that is neither success
  nor error), 407 and 486.  The code treats 180 like 183, 401 like 407 and all other errors
  like 486.
* `SendErrors`: true in `SipOneCall` and `BridgeOneCall`.  `BridgeTwoCalls` has it false, because
  `EstablishedTornDown` and `AckedBeforeMedia` can only hold when sends succeed:
  a BYE or ACK that cannot be sent is not sent.
* `RegisterResidue`: true in `BridgeOneCall`; false where `AnsweredIsReal` is
  checked, which a left-over can violate in the same way as an earlier call does.
* `SlSocketCall`: `Capacity` 5 holds a DIAL line and a sample and is then full;
  read buffers of 3 and 4 take a line or two samples in one or several
  reads, odd ones among them; `LineBufLimit` 3 is met; `FeedCapacity` 1
  blocks at once; two DIAL lines (`DialLimit`), valid or not, of which the
  assertion of the loop counts both; three samples (`SampleLimit`) of which one has a
  byte 0x0A; both counters have modulus 2 and wrap within the packets sent.
* `RegisterOnce`: timeouts 2 and 7 (code: 1 and 20 half seconds): the larger is no
  multiple of the smaller, so that the last receive overruns the deadline.
* `SipTimers`: 500 ms units; `DrainLimit` 500, `FramesPerTick` 25, timer 1 and cap 8
  units as in the code.  `TimersLoss` has 4 copies (code: 7) against 4 losses, and an
  INVITE timeout of 18 units: the last copy goes out at 15 units, when the
  interval has met its cap, and the drain panics between 9 units (4.98 s: 250 ticks and as many reads, the first of them at
  once) and what the timeout leaves it, so that timeouts and panics both happen.  `StallLimit` is 2 units, so that ticks are made up in bursts
  and INVITE deadlines are overrun; the two runs that end in a violation need neither and have 0 there.
* `FormatsAll`: all 65536 samples and 256 codes; headers with 0, 1 and 15 CSRCs, no
  extension or 0, 1 and 256 words (two bytes of length), payloads of one and two bytes
  with both values at the ends of a byte, cut short by up to 20 bytes, so that cuts lie in the payload, in the extension and in the CSRCs;
  sequence numbers and timestamps in which every byte differs from its neighbours, up to 65535 and 2^31 (TLC's integers have 32 bits); SDP bodies of up to four lines with two
  addresses; dial strings of up to four of five characters; all challenges the
  parameters of `Digest` allow.

No symmetry is used: the sets it would apply to have two elements at most.

### Fairness

`Bridge`: `FairSpec` is `WF_vars(Run)` and weak fairness of the half that reads slmodemd.
`Run` holds the steps for which the code waits for nobody, or for a timer of its own at most:
the runtime wakes `run()` for them.  A closed socket is readable, so the reading
half sees its end.  It is assumed that slmodemd goes on reading, so that the writes of
silence complete.  Nothing is assumed of the trunk: the actions `TrunkSends`, `PollsAnswer`,
`DialReceived` and the errors have no fairness.
That includes RTP: the half that writes to slmodemd meets the closed socket only if a packet arrives, which nobody
promises.  When `sl_to_rtp` has ended in order and none arrives, `try_join!` waits for the other half, and the bridge outlives
slmodemd.  `CloseEnds` therefore has this place as its second way to end (`WaitsForRtp`), and says that there is no third.

`SlSocket`: `SF_vars(Dialling)`, because `select!` picks at random among the arms that are
ready, and a full socket of silence disables the read for a while: a read that is ready
again and again is taken.  `WF_vars(SilenceTick)`, `WF_vars(SilenceWritten)`: a timer,
and a write that has room.  `WF_vars(Relaying)`: the half that reads is polled
while it has data, whatever the other half waits for.  slmodemd has no fairness;
`DialHeard` has its assumption, that slmodemd reads again and again, as the left side of
an implication.

`Register`: `WF_vars(Client)`, the client is polled when a timer wakes it, and `SF_vars(Tick)`,
time passes however many datagrams arrive in between.  The network has none.

## 4. What is proved

tlapm proves the following for **every** value of the constants allowed by the
assumptions of the modules, which TLC evaluates in each run: any number of calls, any limits,
timeouts, sizes of buffers and moduli, any sets of statuses and addresses.  A theorem that
needs more says so in its ASSUME.

`SipProofs`:

* `SipTypeCorrect` — `SipSpec => []SipTypeOK`.
* `ByeComesLast`, `CredentialsSentOnce` — `ByeIsLast` and `CredentialsOnce`.  Neither is
  inductive: that a BYE has a higher CSeq than all else needs that the bridge knows the highest
  CSeq of its call, that no request is of a call not yet placed, and that a call with a BYE is not
  sent to again.  The strengthening is `DialogInv`:
  `HeldCall` (the held call is the last one placed), `InCall` (a method in progress
  has a call), `KnownCalls` (requests are of calls that were placed), `CallOpen` (the held
  call has no BYE yet and no request above its CSeq), `RetryCseq` (CSeq and
  `auth_retry_done` go together).  Its steps are proved action by action.
* `SilentAfterBye` — `NothingAfterBye`, from the same invariant: whoever may send has a call whose BYE is not out
  (`CallOpen`), so that every request is made while its dialog is `open`, the BYE itself included.  As a request records
  this, the theorem is about datagrams that are sent twice as well.

`SipMatchingProofs`, what the client believes of the first call of a process, as the code is:

* `AnswerIsReal`, `AcksAreOwed`, `RejectionsAreAcked`, `PlainFailuresAreReal` — `AnsweredIsReal`, `AckIsOwed`, `RejectionIsAcked` and
  `PlainPollFailureIsReal` until a second call is placed (`placed <= 1`), for any statuses, limits and failing sends, with
  `RegisterResidue = FALSE`, and the last of them if the trunk uses no 2xx but 200, the only one the code knows.
  The invariant is `MatchInv`: all requests are of calls (`Mine`), every response answers one of
  them (`Asked`), a transaction has one final response (`OneFinal`), a second INVITE means a
  challenge that was acknowledged (`Retried`), `invite` works on a call in `Trying` (`InTrying`), and after a
  rejection no INVITE is open (`Rejected`).  The filter by CSeq is what tells the transactions of one dialog apart:
  with `OneFinal` a final response with the number of the outstanding INVITE is its own (lemma `Heard`).  Steps that hear
  only responses of their own dialog (`OwnNext`) keep it, and in the first call there is no other dialog
  (`FirstHearsOwn`).  Calls are only ever added (`PlacedGrows`), so that a state of the first call has only such states
  before it.  Both restrictions are needed, and the code does not guarantee them, because it does not compare Call-IDs: run `SipStaleAnswer`.

`BridgeProofs`:

* `NeverRejects`, from `SessionAt`: the place in `run()` determines the session's state.
* `ImplementsLifecycle` — `Spec => CallLifecycle`, the refinement of `Session`: the
  initial state maps, and under `SessionAt` each step is a transition, a new
  session, or a stutter.
* `ImplementsPhases` — `Spec => PhasesOnly`, the refinement of `CallPhases`.
* `CompletedIsLast`, from `SessionAt` and `EndOfSocket`: the relay ends in order
  only when slmodemd's socket is at its end, and no dial line is read from there.
* `UsesClient` — `Spec => SipSpec`: the bridge is one of the callers of `Sip`, so the
  theorems about the client hold of the bridge.  `BridgeDialogs` and `FirstCallIsReal` state what follows: in
  every call the BYE is sent once and last, nothing comes after it, not even a repetition of an earlier request, credentials go out
  in one INVITE, and what `run()` believes of its first call is what the trunk said (with `RegisterResidue = FALSE`).
* `BridgeTypeCorrect`.
* `PollsInRelay` — `PollOnlyInRelay`, from `PollInv`: at each place where the poll could start or go on
  no other method is at the socket.
* `MediaIsAcked` — `AckedBeforeMedia`, if sends succeed (`SendErrors = FALSE`), from
  `AckInv`: a call that leaves `ack` answered, or that the poll found answered, has its ACK among the requests.
* `EstablishedIsHungUp` — `EstablishedTornDown`, if sends succeed: `HandedOver` says what the client alone
  guarantees of a call it handed over and of one in `bye`, and `TearInv` that an established call
  has its BYE or is held at one of the places that lead to it (`Holding`).

`SlSocketProofs`:

* `SocketImplementsPhases` — `Spec => PhasesOnly`, with `Counted` (the number of calls never
  passes its limit, and the loop does not start again at it).
* `AudioIsCarried` — `Spec => AudioArrivesInOrder`, the refinement of `AudioPipe` for any
  sizes of socket, buffers and reads.  The invariant is `AudioTypeOK` (the odd byte is at most one) with
  `GateAt` (what the phase says about the halves).  The work is in the lemmas on cutting and
  joining: a read puts the odd byte before what it took, cuts off whole samples, and what
  remains with the rest of the queue is the old pipe without its first bytes.
* `PacketsInOrder` — `HeadersOrderPackets`, for any moduli: `OneRelay` (a relay ends with the
  bridge or at the end of the socket, so that there is no second one with new counters) and `Continues` (the counters are those after the last packet).
* `RelayMaySend` — with a read buffer of at most 2048 bytes, the size in the
  code, no payload trips an assertion of `send_packet` (`BoundedSends`: the odd byte and a
  whole read still make at most 1024 samples).

* `SocketTypeCorrect` — `SocketTypeOK`, from `AudioTypeOK`, `SocketFlags` and `SocketBounds`.  Its bound on `line_buf` is
  about a loop over the bytes of a read: `HeardTyped` shows by induction along the read that the line
  stays within `LINE_BUF_LIMIT` and without a newline after every byte.
* `DialIsKept` — an action property: a line that dials a number, once it is at the head of what was kept and of what
  waits in the socket, stays there through every read, write and tick, until a set-up starts
  or slmodemd closes.  It needs `NumbersFit`: the limit is at least the two bytes of such a
  line (256 in the code), and no byte of the prefix or of a number is a newline.  It is the safety half of `DialHeard`.

`TimersProofs`:

* `TimersTypeCorrect` — `TimersTypeOK`, from `Typed`: `FlagsOK`, `WireOK`, and `ClockOK` for the clock, the timer and its cap.
* `FirstLossRepaired` — `RepairsFirstLoss`, from `Waiting`: as long as the trunk has not
  taken the first INVITE, either one datagram is under way or more have been lost than copies were sent (`OneDatagram`),
  and the copies went out at their times or, when `invite` was not polled then, as much later as it was not (`OnSchedule`: the times are
  the recursive functions `Interval` and `CopyTime` of the number of copies).  Its hypothesis `LossesFit` is the condition under which
  retransmission can help at all: no more losses than copies, and the copy after the last loss goes out before
  the INVITE timeout, `StallLimit` included.  With the constants of the code it says seven losses: that copy is at 39 units of 120, which leaves 40 s for blocked writes.
* `LossRepairedUnchallenged` — `RepairsLoss`, which `TimersLostRetry` refutes, holds under `LossesFit` for a trunk that never
  challenges: the INVITE with credentials, which is not retransmitted, is all that is left to loss.
* `DrainIsPatient` — `DrainCoversSetup`, for any frame length and any limit of at least 20
  iterations a frame in a unit (`DrainIsSized`; the code: 500 and 25), from `Counted`: one or two iterations
  for each frame of the time that has passed, at once or made up after a write that blocked, one or two for the first tick, and none begun at the limit.
* `DrainEndsSetup` — not counting the units in which writes of silence were blocked, no set-up reaches `DrainLimit / FramesPerTick` units: 10 s with the
  values of the code, whatever the INVITE timeout.  While a write blocks there is no bound: neither the drain nor `invite` runs.
* `TimeoutNeverFires` — the finding of `TimersPatience` for all values: with an INVITE timeout longer than that and the blocked time together
  (`DrainIsFirst`; with the default of 60 s, up to 50 s of blocked writes) `invite` never reaches it, and a set-up without a final response has no end but the panic.

`RegisterProofs`:

* `TypeCorrect`; `SuccessIsReal` and `RefusedIsReal` — `RegisteredIsReal`, `RefusalIsReal`, from
  `Truth`: what has arrived is a stray or answers a REGISTER that was sent (`Origins`).
* `WaitBounded` — `WaitIsBounded`, from `Clocks`: where the clock may be at each await point.

`FormatProofs`, for all inputs that the constants of `Formats` allow, of any length:

* `SentParses` — `parse_packet(build_packet(...))` is the payload, for every payload
  that may be sent and any numbers in the header; `SentRead` — `SentIsReadable`, with both counters in network order,
  for any sets `Sequences`, `Timestamps` and `Payloads` of what 16 bits, 32 bits and a packet can hold.
* `PayloadParsed` — `ParsesPayload`: any payloads, a header of any number of CSRCs, with an extension of any length or none, and a packet
  cut anywhere (`Payloads`, `CsrcCounts`, `ExtensionWords`, `Cuts` are any sets); the header has no padding bit.  The bytes of the header are described (`IsRfcHeader`) and not computed, so that
  where the payload begins follows from their number.
* `EndpointNamed` — `AnswerNamesEndpoint`, by induction along the lines of the body: `FoundAfter` says what has been
  found after each of them in terms of the last connection line so far.
* `DialAccepted` — an accepted dial string is the end of the line after its tone letters, not empty and
  of allowed characters only, for any length; `DialNumberKept` — `DialKeepsNumber`, also the converse:
  what splits into tone letters and a number is accepted as that number.
* `SampleQuantised`, `SamplesOrdered`, `CodeKept` — `QuantisesClosely`, `QuantisesInOrder`, `CodesSurvive`, by the structure
  of the code and not by cases of 65536 samples: `TableIs` says that the table of exponents finds the highest bit,
  `HasCell` that every biased magnitude lies in one of the 8 by 16 cells, `CellEncoded` and `CellDecoded` that a cell
  becomes its code and the code the middle of the cell, and `LevelsGrow` that these middles are in the order of the cells.

`RecursionLemmas` has the induction that the others use.  The theorems of the library on induction
take the property as an operator; here a property is a *set* of numbers, and one that has not all of
them has a least one missing (lemma `Least`, from the well-foundedness of the order).  A loop is
a recursive function `f[k]`; `RunExists`, `StaysIn` and `Agree` say that it has its values, that an invariant of
one step is one of the loop, and that two loops that go on alike agree.

### Only model-checked

* Liveness (`SetupEnds`, `CloseEnds`, `DialHeard`, `SilenceFed`, `AudioGetsOut`, `RegisterEnds`): proofs of
  liveness under fairness are beyond the prover used.

* `CredentialsVerify`: it compares two formulas, and a proof would only unfold them.

Every other property of a passing run is a theorem for all values of the
constants, with the hypotheses named above.

## 5. Not modelled

* Requests from the trunk (a BYE of the far end, a re-INVITE): the code does not read them, and
  to it they are silence.
* Header layout and text of messages, MD5, generated identifiers: abstracted to the fields the
  code reads, to a hash that is never equal by accident, and to uniqueness.
* The SDP offer: text without alternatives.
* Audio towards slmodemd as bytes: RTP is decoded packet by packet without state, so
  that `Mulaw` and `RtpPacket` have all there is; `SlSocket` counts the frames.
* `main.rs`, `config.rs`: the arguments become constants of the models once, and `main` awaits
  `run()`.  `slmodem.rs`: system calls on one descriptor before anything else runs.

## 6. Where code and documentation disagree

Each is a run that TLC ends with a counterexample; `PROJECT.json`, "findings", quotes the lines.

| Run | Property | In short |
|---|---|---|
| `SipStaleAnswer` | `AnsweredIsReal` | responses are matched by CSeq number only: a late answer to one call answers the next |
| `SipStaleChallenge` | `PollFailureIsReal` | the poll has no filter: a repeated challenge ends it |
| `BridgeOldAddress` | `RelayFollowsAnswer` | the address of the answer is stored and not used |
| `TimersLostRetry` | `RepairsLoss` | after the retry the *first* INVITE is retransmitted |
| `TimersPatience` | `PatientSetup` | the drain panics after about 5 to 10 s of ringing, the INVITE timeout is 60 s |

### Further observations

No run of the project shows these; the definitions named here state them.

* A second challenge, or one without realm or nonce, is not acknowledged (`InviteAuthFails`); an
  answer without SDP is hung up unacknowledged (`AfterInvite`).
* The To tag of a challenge stays in the ACK of the answer (`WithTag`, `InviteChallenged`).
* A failed ACK makes `run()` return with the call up (`AcksAnswer`); an INVITE that was given up
  is not cancelled (`InviteTimesOut`, `InviteCancelled`).
* Without incoming RTP the relay outlives slmodemd (`RelayReturns`, `WaitsForRtp`).
* With a read in the time of each frame the 500 iterations of the drain are used up after 4.98 s, as the first
  tick comes at once (`FirstTick`); the test `drain_iterations_limit_covers_setup_window` (`bridge.rs:617-629`)
  computes 10 s from the ticks alone and asks for 5 s.
* While slmodemd does not read, a set-up stands still: neither the drain's limit nor the INVITE timeout is looked
  at (`Stalls`).
* `parse_packet` does not look at the padding bit: the padding of a packet that has some, which RFC 3550 (5.1) excludes
  from the payload, is played as audio (`RfcHeader` has no padding for this reason).
* With the cap of 4 s the seven retransmissions are over after 19.5 s and not after about 32 s
  (`Doubled`).
* A 100 or any other datagram that comes before the challenge ends the registration (`Refused`).
* Audio before a DIAL line without a newline between them, and all that follows its newline in the same
  read, is dropped with it (`HearsByte`): two lines in one read are one line heard.
* The drain may end in the middle of a sample, and the relay begins with whatever byte comes
  next (`StartsRelay`).
* A qop list such as `auth,auth-int` gets a header with `qop=auth` and the response of the
  formula without qop (`Response`, `AuthHeader`).
* Port 0, by which an answer refuses a medium, is taken for a port; a connection line in
  another medium's section replaces the address of the audio (`Reads`).

## 7. Plan

Done, in this order: `Session`, `Sip`, `Bridge`, `SipTimers`, `SipProofs`, `BridgeProofs`, `CallPhases`,
`SlSocket`, `AudioPipe`, `Register`, the pure functions with `Formats`, and the
proofs about them.

The proofs now cover every property of a passing run but liveness and `CredentialsVerify`.  What would come next:

* Liveness, when a prover for it is at hand.  Its safety halves are proved: `WaitBounded` for `RegisterEnds`,
  `DialIsKept` for `DialHeard`, `DrainEndsSetup` for `SetupEnds`.
* If the code comes to compare Call-IDs: the guard goes into the actions of `Sip`, the lemmas on `OwnNext` cover every step, and the
  theorems of `SipMatchingProofs` hold of every call.
* The requests of the trunk, if the code comes to read them.
