# REDesk in TLA+

A specification of REDesk, the remote-desktop program of this repository: TLA+
modules translated from its sources, TLC configurations that model-check them
on small instances, and TLAPS proofs of the properties that matter most for
every value of the constants. File and line references are relative to `src/`.

    tlc -config Servers.cfg MCServers  one model-checking run
    tlapm RelayProofs.tla              the proofs about one component

## 1. The system

REDesk lets a viewer see and drive another machine. A machine finds its peer
through the *rendezvous server* (a directory of ids) and, when no direct path
exists, exchanges datagrams with it through the *relay server*. On the
controlled machine a privileged *daemon* owns capture, encoding and transport
and takes commands from the user interface over a local socket; the *session
manager* decides what a peer may do; the *Noise session* protects what the two
ends exchange. The repository is at its first phase: the control logic of these
parts is real, the media engines behind it are stubs.

| Component | State | Operations | Meets |
|---|---|---|---|
| session manager (`core/session`) | session table, capability ceiling, deny list, key pins, audit log | begin, handshake started / completed, authorize, deny, check, close, policy setters | daemon, UI and crypto call it; observers are called back |
| rendezvous (`server/rendezvous`) | id registry, broker sessions, time of the last sweep | REGISTER, KEEPALIVE, LOOKUP, BROKER, sweep | datagrams of peers |
| relay (`server/relay`) | token to pair of endpoints, last activity | allocate, route, sweep | datagrams of peers |
| key store and Noise session (`core/crypto`) | stored identity and seed; static keys, handshake counters, nonces | generate, load, store; write / read handshake message, encrypt, decrypt | the other end, over any network |
| session controller (`ui/src/SessionController`) | state, pending timers, view stack, status text, remote id, host-role flags | connect, PIN, disconnect, timer callbacks, accept / reject, toggles | the user, Main.qml, the service client's errors |
| daemon (`service/src`) | engines, socket, path, accept thread | bring-up, pump, serve, stop | local clients, signals, the file system |
| local preview (`ui/src/LocalScreenSource`, `platform/macos`) | capturer, stream, posted frames | start, stop, sample, deliver | ScreenCaptureKit's queue, the event loop |
| capture, codec, transport stubs (`core/`) | frame index, keyframe flags, connection states, target bitrate | start, stop, pump, encode, decode, connect, send, feedback, negotiation | the application, by callbacks that may call them again |
| engine mirror (`service/src/engine_*`) | two run flags, a session count | start, stop, next frame, encode, send, open and close a session | the daemon's loop |
| input and clipboard (`core/input`) | recorded events, clipboard entries | inject, set | callbacks |
| service client (`ui/src/ServiceClient`) | connection state, receive buffer | connect, send, drain frames | the daemon's socket |

**What is hard here.** The servers are single threads whose clean-up runs only
when traffic wakes them. The daemon has two threads that share a listening
socket and a path that outlives the process, and clients that may stall. The
controller runs on timers nobody cancels. The preview shares an object, by raw
pointer, between the event loop and a queue it waits for with a timeout. The
session manager and the Noise session are passive objects that may be called in
any order and over any network. The media stubs and the service client call the
application back in the middle of their own operations, and the application may
call them again from there. `PROJECT.json` lists these hazards one by one
with the properties aimed at them.

**What makes each part correct.** Session manager: no capability is usable
without an audited grant, no grant goes above the ceiling, and a changed key never
goes unnoticed. Rendezvous: an id stays with its holder while the holder is live,
only the holder's key is attested, and answers are not too old. Relay: a token joins two endpoints and
nothing else. Noise session: no packet is accepted twice or out of order, and
ends that finish know each other. Controller: no session without a PIN, no state
without an exit, and a status line that is about the present state. Service
client: the messages of the stream, whatever the pieces it arrives in. Media
path: no keyframe request is lost, the two ends choose the same codec, the
bitrate settles. Daemon: only the owner gets in, teardown waits for the
handler, everybody is served. Preview: a capturer is not deleted under its
queue.

## 2. Modules

| Module | Models | Notes |
|---|---|---|
| `SessionManager` | `core/session` | one action per public method; an error return is a `last` result |
| `ServerLoop` | what the two servers' loops share | the clock and when a sweep is due |
| `Rendezvous` | `server/rendezvous` | one action per datagram handled, the sweep that follows it included |
| `RelayPairing` | what the relay promises | a token has at most two members, a datagram goes to the other one |
| `Relay` | `server/relay` | the allocation table, its clock and sweep; implements `RelayPairing` |
| `KeyStore` | `core/crypto` stub key store | one store per device; a seed that wraps |
| `NoiseSession` | `core/crypto` stub session | extends `KeyStore`: each end is made from its device's identity; the set of everything ever sent |
| `SessionController` | `ui/src/SessionController` viewer role, `Main.qml` | slots and timer callbacks, pending timers counted |
| `ControllerWindow` | the rest of `SessionController` | extends it: status, remote id, host role, toggles; every step is a step of `SessionController` or leaves it alone |
| `ServiceClient` | `ui/src/ServiceClient` | connection states, the parser loop, slots that run inside it |
| `Engines` | `service/src/engine_*` | run flags, session count, outcome of a pipeline pass |
| `Daemon` | `service/src` | extends `Engines`: main thread and accept thread step by step between system calls |
| `LocalScreen` | preview and macOS capturer | event loop, sample queues, ScreenCaptureKit |
| `StubCapturer`, `StubCodec`, `Loopback` | `core/capture`, `core/codec`, `core/transport` | the components' own operations |
| `Media` | their composition | a stack of running callbacks; the application calls any operation from any of them |
| `CongestionController` | `core/transport` bitrate controller | unsigned arithmetic of a given width |
| `Framing` | `proto/`, `core/codec` negotiation | pure operators: tiers, payload budget, fragment count |
| `MediaControl` | negotiation, fragmentation and feedback of one stream | composes the last two with a link that changes |

`MC*` modules give the constants their values for TLC. `MCServers`, `MCUi` and
`MCMedia` each check components that share no state and of which no property
relates two: the two servers, the three objects behind the user interface, the
media path and its set-up. A variable (`server`, `object`, `part`) chosen
initially says which one runs; the others stay in their initial state, in which
all their invariants hold, so a run is the union of the components' own state
graphs and not their product. The specifications of such components have names of
their own (`RelaySpec`, `ScreenSpec`, `ClientSpec`, `ControlSpec`), and the fairness
of each is the one of its own specification. `*Proofs` modules extend the modules
of a component with theorems (`UiProofs` those of the controller and of the
preview, `MediaProofs` those of `Media` and `MediaControl`).
Operators keep the names of the functions
they model. An operator introduced by the comment *A slip* is a plausible bug in
the code it stands next to; substituting it must break a property, which is how
each property is known to depend on the code.

**How state corresponds.**

* `SessionManager`: `state`, `granted`, `peer` are the fields of the sessions
  in `Impl::sessions`; a capability mask is a set; the unbounded audit vector is
  kept as the set of grants ever recorded and the records the latest call added.
  `first` (history) is the key of the first handshake accepted for a routing id.
  Observers are sinks.
* `Rendezvous`: `registry` and `sessions` are the two maps; `handled` is when
  the loop last finished an iteration, `holder` (history) the last accepted
  registration of each id, kept when the registry forgets it. A signature is the
  pair it covers. `recv_from` blocks with no timeout, so `Tick` may happen any
  number of times between two iterations, with no sweep.
* `Relay`: an allocation has two legs in the order they were claimed. `heard`
  (history) is when a token was last heard of.
* `NoiseSession`: `offers` and `packets` only grow and are read any number of
  times in any order or never, which is loss, duplication and reordering at
  once. The stub's XOR stream is the pair of keys it is made from: unmasking
  with the same pair gives the plaintext, with another one `Garbled`.
* `KeyStore`: an identity is its public key. A store is used until its device's
  session is made; the session holds a copy, so later uses change nothing here.
* `SessionController`: `QTimer::singleShot` callbacks are counters; the order of
  timers of different length is left open, as their start times are.
* `ControllerWindow`: a text is its kind and the id it names. `ServiceError` is
  the service client's error, which overwrites the text in any state.
* `ServiceClient`: bytes are numbers below `Base`, and `Base`, `LenBytes`,
  `OpBytes`, `MaxFrame` are parameters, so a small instance has lengths that are
  too small, good and too large. `loop` says whether the parser's loop is between
  two frames or in a slot. The local socket is external. `Parse` is the reference:
  what a stream that is there as a whole contains.
* `Media`: `stack` holds the callbacks that are running, innermost first; an
  operation that calls back pushes one and what it does afterwards happens when
  that callback returns. Pictures and bytes are left out; `fits`, `whole` and
  `video` are what the transport and the decoder look at. `owed`, `known` and
  `restarted` are history variables.
* `CongestionController`: the comparisons of doubles with 10 % and 2 % and the
  factor 0.85 are integer inequalities with the same outcome; the code's constants
  are scaled down in the run, and rates wrap at `Width`. A link is the kind of report
  it gives (`Kind`); every report is of one kind and every kind reaches `onFeedback`.
* `Daemon`: `pc` and `acc` are the two threads, split wherever the other thread
  or a client could notice; `path` survives `Crash` and `Restart` and is "stale"
  when the socket it was bound to is gone. The code ignores the result of both its
  unlinks, so `Unlink` may leave the path; `undeleted` (history) says that one of
  this process did. A reply to a client that has hung up raises SIGPIPE, which
  nothing ignores: `Killed`.
* `LocalScreen`: a capturer is known by its number; one that was deleted may
  still be reached through the stream's raw pointer, and then either works on
  (its memory is not reused yet) or the process dies. ScreenCaptureKit is
  external; the one thing assumed of it is that it reports a stream ended or
  stopped only when the stream's sample handler is not running.

## 3. Runs

| Run | Configuration | States | Shows |
|---|---|---|---|
| `session_manager` | 2 sessions, 1 routing id, 2 keys, 2 capabilities | 384 k | `GrantsAccounted`, `GateSound`, `KeyChangeAlerted`, `ExplicitGrantOnly` |
| `servers` | TTL 3, sweep 2, guard 5, time to 9; rendezvous: 1 id, 2 keys, 2 endpoints; relay: 2 tokens, 3 endpoints | 187 k | `StalenessBounded`, `AnswersFresh`, `AttestsHolder`, `NoTakeoverOfLiveId`; `IdleBounded`, `LivePairStable`, `ImplementsPairing` (refinement) |
| `ui` | controller: 4 PINs, 2 pending lookups, 2 ids, 2 toggles | 350 k | `PinPerSession`, `NoStuckState`, `StatusCurrent`, `PinLeadsToSession` (liveness) |
| | preview: 3 captures of 2 samples | | `DeletedOnlyAfterOverrun`, `PictureMovesForward`, `GuiUnblocks` (liveness) |
| | client: 2 byte values, 2 length bytes, 6 bytes a connection, 2 connections | | `StreamIntact` (against the reference parser), `MalformedIsFinal`, `StateTracksSocket`, `FramesArrive` (liveness) |
| `daemon` | 2 owners and a stranger, 1 tick | 48 k | `OnlyOwnersConnect`, `HandledIsValid`, `HandlerBeforeTeardown`, `EndpointLifecycle`, `ShutdownCompletes`, `ClientsServed` (liveness) |
| `noise_session` | 2 keys, 2 seeds, 2 payloads, 3 sends | 1.05 M | `InOrder`, `NoncesFresh`, `HandshakeAgreement`, `HandshakeCompletes` (liveness) |
| `media` | path: callbacks 3 deep, frame index to 1 | 1.13 M | `KeyframeDebt`, `ShapeFirst`, `DecodedWasEncoded` |
| | control: rates modulo 64, 5-bit sizes, 3-bit counts, all sets of tiers, 12 reports | | `NegotiationAgreed`, `FragmentsCover` (against reference definitions), `RateResponds`, `RateConverges` (liveness) |

Six more runs are of properties that TLC must find violated; they are in
"Where the code and its comments disagree".

What some of the properties leave open, since the code does:
`ExplicitGrantOnly` is about what a call of `authorize` adds. `AnswersFresh` bounds
the age of an answer at the end of the iteration before it, because the server
blocks without a timeout. `PinPerSession` does not say that every PIN leads to a
session: a disconnect may come first. `StreamIntact` lets a client that is not
authenticated drop what it reads; an authenticated one delivers everything.
`FragmentsCover` holds up to the limits of the two integers. `RateResponds` and
`RateConverges` say nothing of a link on which no packet arrives. `MalformedIsFinal`
is about lengths out of bounds: a misread length within bounds is a frame.

Type correctness is proved rather than run (section 4).

**Why the bounds are enough.** Two sessions of one id are needed for a key to
change between them; two capabilities let a request lie inside, partly above
and wholly above the ceiling. The servers' periods keep the order of the code's
constants (rendezvous: sweep 15 s < TTL 60 s < guard 90 s; relay: 10 s < 30 s),
and time runs long enough for a record to be written, expire, be swept and be
written again. A third endpoint meets a full pair; a second token could mix with
the first. Three sends give a late packet one before and one after it. Three
captures let one that outlived its `stop()` meet two later ones. Two connections
of six bytes hold a frame, a frame cut anywhere by the end of the connection, and
a bad length after good ones. Three nested callbacks are a pump, a request or a
restart made from inside its callback, and one call inside that; a frame index
above 1 behaves as 1. The widths of the control part are small enough for every
sum and count to wrap and large enough for each to be exact as well; negotiation
is checked for every pair of capability sets; the reports lie on both sides of each
threshold, with sums that wrap among them. Four PINs let
the timers of an abandoned session, of the next and of a PIN submitted twice be
pending together. Fingerprints, keys, endpoints and tokens are only compared for
equality, which is what the symmetry sets use.

**Deadlock** is checked except where the system may stop: `NoiseSession` (all
that may be sent was sent and read) and, in `ui`, `LocalScreen` (the process died).

**Fairness.** The controller's pending timers fire (a running event loop). The
daemon's two threads are scheduled (`Spec`); `PoliteSpec` adds that clients do
not stall for ever, which the code does not enforce, and `daemon_stop` shows what
happens otherwise. Each end of a handshake keeps calling `writeMessage` and
`readMessage` while it is unfinished, and with what was sent still there to read.
The service client's event loop reads what has arrived and its parser's loop goes
on when a slot returns; nothing is assumed of the peer. A receiver keeps sending
feedback while a stream lasts (`MediaControl`). In the preview a wait of ten seconds
ends and an idle event loop runs what was posted; nothing is assumed of ScreenCaptureKit. Nothing anywhere makes a user
act, and no fairness is assumed of the servers.

### Where the code and its comments disagree

Six are runs that TLC must find violated.

* `controller_teardown`: timers of a torn-down session bring it up
  (`ui/src/SessionController.h:110`, `SessionController.cpp:94-105`).
* `daemon_stop`: `stop()` joins a thread that may be blocked in a read
  (`service/src/ipc_server.h:81`, `ipc_server.cpp:73-81, 181-183`).
* `noise_round_trip`: both ends put their own key first, so `handshakeHash` differs
  and `decrypt` does not invert the other end's `encrypt` unless both devices have
  one key (`crypto_stub.cpp:139-144, 227-229`, against lines 7-8 and
  `tests/test_crypto_handshake.cpp:55-80`). The stub's key stores hand out the same
  keys in every process (`crypto_stub.cpp:289`), which hides it.
* `service_client_auth`: messages are emitted whatever the state, before
  authentication too (`ui/src/ServiceClient.cpp:138`, against `ServiceClient.h:15-17`).
* `fragments_wrap`: `fragmentCount` is too small when the rounded-up size or the
  count overflows (`transport.proto.h:193-198`, against lines 184-187 and
  `tests/test_proto_framing.cpp:56`); a message of many fragments may then pass for
  a whole one (174-181).
* `dead_link_rate`: a report in which every packet was lost has loss ratio 0 and
  raises the rate (`transport_stub.cpp:127-137`, against lines 125-126).

The others the modules have as the code has them, and no property depends on
either reading.

* Session manager: the fingerprint learned in the handshake goes to a local copy
  and not to the session, as `core/session/session.cpp:157-158` says it does;
  `authorize` with an empty result moves the session to Denied without an audit
  record (`session.cpp:209-213`, against `session.h:10-11`); `authorize` of a session
  that was closed or denied makes it Active with all it held before, also what is
  above a ceiling lowered since (`session.h:157` speaks of the request only); the
  allow list is
  never read; a close from inside the audit observer is overwritten by the
  transition to Active (`session.cpp:217-223`).
* Rendezvous: `lookup` returns an expired record until a sweep removes it
  (`registry_store.h:49`: "nullopt if unknown or expired"), which is why
  `StalenessBounded` and `AnswersFresh` add the sweep period to the TTL; a keepalive
  that was delayed moves a peer's endpoint back; LOOKUP_OK carries no endpoint
  (`server/rendezvous/protocol.h:33`).
* Relay: a datagram from a third party keeps an allocation alive
  (`server/relay/allocation_table.cpp:40`).
* Noise session: a "fresh" identity (`crypto.h:116`) repeats after 256. Under KK the
  remote key supplied is replaced by the one in the message, and a session made
  without one is made all the same.
* Session controller: the toggles for control and clipboard start switched on,
  against "Default-deny" (`SessionController.h:161`); `connectToId("")` overwrites
  the status in any state; a PIN accepted for one id may connect while the window
  shows another.
* Service client: any opcode is emitted ("known opcode", `ServiceClient.h:20`), and a
  slot that disconnects does not end the parser's loop. The daemon writes a
  little-endian length and no opcode under another endpoint name: its reply, read by
  this client, is a length out of bounds or a message that is not one, so the two do
  not yet work together and are not composed here.
* Media: `createLoopbackPair` returns two ends that are Idle ("connected pair",
  `transport.h`), and a closed end still receives; the cursor callback fires after
  a `stop()` from inside the frame callback; a capture restarted from inside a
  cursor callback never sends the cursor's shape, the exception in `ShapeFirst`.
* Bitrate: `target + 500` wraps near 2^32.
* Wire headers: `FrameHeader` is 18 bytes, its comment says 12; the channel numbers
  of `proto/` and `core/` differ though they are to be "in lockstep". `proto/` lists
  HEVC 4:4:4 as a tier of its own, which `tests/test_codec_negotiation.cpp:35` offers
  without 4:2:0, where `core/` has it as a way of coding HEVC (`codec.h:73`) and
  ignores it without; `NegotiationAgreed` compares the two on the tiers an end
  advertises in `core/`'s sense (`Advertised`), for all capabilities.
* Preview: without a native backend it says it captures a test pattern that nobody
  pumps (`ui/src/LocalScreenSource.cpp:31-34`).

## 4. Proofs

The proofs hold for every value of the constants that satisfies the modules'
named assumptions (`BoundsAssumption`, `CapsAssumption` and so on), which TLC
evaluates on its instances.

* **`SessionManagerProofs`**: `TypeCorrect`; `GrantsAlwaysAccounted`, inductive
  given the types; `GateAlwaysSound`, from both (a check is permitted from the
  grant mask, which only authorize writes, with its record);
  `KeyChangesAlwaysAlerted`, from `TrustInv` (the pin of a routing id is its first
  key) and the frame lemma `TrustFrame`: only a completed handshake touches the pins;
  `GrantsAreExplicit`, action by action.
* **`RendezvousProofs`**: the invariant `Inv` strengthens `StalenessBounded`
  with what the last sweep left behind (`SweptInv`: nothing was expired *then*,
  and all newer is fresher) and `RegistryIsLatest` (a binding is the last accepted one); `NoTakeover` needs `GoneInv`
  as well: an id that left the registry had been silent for longer than the TTL,
  without which a sweep followed by a new registration could take a live id.
  `SweepStep` and `IterationInv` are the argument about the end of an iteration,
  cited by every handler. `AnswersAlwaysFresh` follows from `StalenessBounded` in the
  state before: a lookup reads what the last iteration left.
* **`RelayProofs`**: `Inv` says that legs are claimed in order, differ, and that
  an allocation's activity time is when its token was last heard. From it
  `StalenessAlwaysBounded`, `LivePairsStay`, and `RelayImplementsPairing`: under
  the mapping of two legs to the set of those claimed, Init maps to Init, a
  datagram to an abstract datagram (and forgetting), everything else to
  forgetting or a stutter.
* **`UiProofs`**, the controller: type, `PinPerSession` and no stuck state are inductive
  together. `WindowImplementsSession` shows that every step of
  `ControllerWindow` is a step of `SessionController` or a stutter, so its
  invariants carry over (`WindowKeepsPromises`); `StatusAlwaysCurrent` needs in
  addition that a PIN or a connection under way is what the text says.
* **`NoiseSessionProofs`**: `TransportInv` bounds every accepted nonce by
  `recv_nonce` and every sent one by `send_nonce`; `HandshakeInv` says that an
  offer holds its sender's key, that a key read came from an offer and that an end
  that is done has read (so an end without a session has not been heard of,
  `Unmade`).
  `AcceptedInOrder`, `NoncesAlwaysFresh`, `HandshakesAgree` and `TypeCorrect`
  follow.
* **`DaemonProofs`**: `ControlInv` relates the main thread's position to the
  engines, the socket, the path, the unlinks that failed and the accept thread;
  `HandlerAlwaysBeforeTeardown` and `EndpointAlwaysCared` are consequences. bind fails
  on a path that is there, which is why a server never runs under another's name. `ClientInv` says that whoever is in
  the backlog or served connected to a listening socket under a hardened path, and
  how far its request has been read: `OnlyOwnersEver`, `HandledAlwaysValid` and
  `TypeCorrect`.
* **`MediaProofs`**: `ShapeInv` says that while a cursor callback runs, and in
  every later frame of a capture, the shape has been delivered or the capture was
  restarted from inside a cursor callback; from it `ShapeAlwaysFirst`, for any
  depth of nesting. `DebtAlwaysKept` is inductive: the flags are cleared before
  the callback, so a request from inside it survives. `DecodedAlwaysEncoded` needs
  `Rooted`: below every receive callback of a whole packet lies the packet callback
  it was sent from.
  For the set-up and the rate, `ControlInv` adds to the types that an end which
  has chosen a codec has chosen `Best` of what the sender encodes and the receiver
  decodes, and that the target lies between the bounds. `NegotiatedBest` is why
  the two points of view agree, `BestIsHighest` why the result is the wire
  header's rule: `NegotiationAlwaysAgreed`. `FragmentArithmetic` is the argument
  about the two conversions that may wrap, for all widths, sizes and budgets:
  `FragmentsAlwaysCover`. `FeedbackStep` and `TuneStep` say what one call does to
  the target and `ReportKinds` which branch a report of each kind takes, with a sum
  of packet counts that may wrap: `RateAlwaysResponds`. `RateAlwaysProgresses` is
  the safety half of `RateConverges`: on a congested and on a clear link each report
  takes the target strictly nearer to the bound it ends at.
* **`ServiceClientProofs`**: the connection state and the types are inductive. That
  the messages emitted are those of the reference parser is not: it speaks of the
  bytes read only, and the next portion may complete a frame that began in an
  earlier one. `Live` therefore says for *every* stream that begins with what was
  read (`Ahead`): the reference parser finds in it the messages emitted so far,
  followed by what it finds from the offset where the buffer begins. `Rejected` is
  the other case, a length out of bounds and the socket gone; a new connection
  starts `Fresh`. Reading keeps `Live` because it narrows the streams ahead,
  emitting because one frame of the buffer is one unfolding of the parser
  (`FrameMatches`, `ParseUnfolds`), for any number of byte values, length bytes and
  bounds. From it `StreamAlwaysIntact`, `MalformedAlwaysFinal` and
  `NothingTakenBack`: what was emitted is also right of the bytes still to come.
* **`UiProofs`**, the preview: `ScreenInv` says which stream may be sampling and
  what a wait of the event loop is about; a capturer deleted with a live stream
  has overrun (`DeletedAlwaysAfterOverrun`). `OrderInv` says that until then all
  that is posted is in order, after the picture on screen and before whatever the
  one live queue may still post: `PictureAlwaysForward`.

**Assumptions.** They are the ranges of the parameters: a byte has at least one
value, a length at least one byte, the opcode fits the largest frame
(`FrameAssumption`); 16 bits count at least to one and 32 at least as far
(`WidthAssumption`); initial rates are in order and the step is below the width
(`RatesAssumption`); reports and requested bounds are unsigned integers of that
width (`ControlAssumption`).

**Induction over data.** The big-endian value and the reference parser are
recursive functions. That they satisfy their equations and have the expected
types is proved by induction stated with sets rather than operators:
`LeastElement` (a non-empty set of naturals has a least one) follows from the
library's `WFMin` and `NatLessThanWellFounded`, and `IntervalInduction` from it
by taking the set of counterexamples. Existence of the function comes first: one
that satisfies the equation on part of its domain is extended by one argument
(`BigEndianType` from the first byte on, `ParseUnfolds` from the last offset back).

Only model-checked: liveness (`PinLeadsToSession`, `ShutdownCompletes`,
`ClientsServed`, `HandshakeCompletes`, `GuiUnblocks`, `FramesArrive`,
`RateConverges`), which needs ENABLED and fairness and is out of the prover's
reach. Every invariant and every action property of a passing run is a theorem.

## 5. Not modelled

Logging, painting and layout, the service installer's printouts, the platform
back-ends that are skeletons or single system calls, the socket wrappers other
than their blocking receive, the Windows pipe branch of the IPC server. Input and
clipboard: the injector appends to a log, the clipboard keeps the last entry of
each kind, and no code of the repository uses either, so what would be hard (two
clipboards mirrored onto each other, `core/input/input.h` "own-write-suppress to
avoid sync loops") does not exist yet. `proto/ipc.proto.h` and most of the other
wire headers are constants and layouts that nothing reads yet. Observers of the
session manager that call it again, and two daemons on one path. Time is discrete
and does not go back, though `system_clock` may. Nonces are unbounded in
`NoiseSession`. The deny list and the ceiling bind what is decided after they
change, as in the code: a live session keeps its grants.

## 6. Plan

1. The steps that the other liveness properties rest on as action theorems, the way
   `RateAlwaysProgresses` is the step of `RateConverges`.
2. Re-entrant observers in `SessionManager`: `authorize` in two steps.
3. The composition of `ServiceClient` with the daemon once both speak one framing,
   and of the clipboard with the transport once something mirrors it.
