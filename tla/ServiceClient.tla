---------------------------- MODULE ServiceClient ----------------------------
(***************************************************************************)
(* The user interface's end of the local channel (ui/src/ServiceClient):   *)
(* connection states, and the parser that cuts [length][opcode][payload]   *)
(* frames out of a byte stream that arrives in pieces of any size.         *)
(*                                                                         *)
(* Everything runs on the event loop.  Slots of messageReceived run in the *)
(* middle of drainFrames and may call any public slot; those of            *)
(* stateChanged and errorOccurred, which the window uses for its texts,    *)
(* are taken not to call the client.                                       *)
(*                                                                         *)
(* The socket (QLocalSocket) and the peer are external.  connectToServer   *)
(* on a socket that is in use fails; disconnectFromServer waits, closing,  *)
(* for what is still to be written and reads nothing more; a peer that     *)
(* goes away is an error followed by a disconnection.                      *)
(***************************************************************************)
EXTENDS Naturals, Sequences, SequencesExt

CONSTANTS
    Base,         \* values of a byte, 256 in the code
    LenBytes,     \* kLenBytes
    OpBytes,      \* kOpBytes
    MaxFrame,     \* kMaxFrameBytes
    MaxBytes,     \* bound: bytes a peer sends on one connection
    MaxConnects   \* bound: calls of connectToService

ASSUME FrameAssumption ==
    /\ Base \in Nat \ {0} /\ LenBytes \in Nat \ {0} /\ OpBytes \in Nat /\ MaxFrame \in Nat
    /\ OpBytes <= MaxFrame
ASSUME ClientBoundsAssumption == MaxBytes \in Nat /\ MaxConnects \in Nat

VARIABLES
    client_state,      \* state_
    token,      \* auth_token_ is not empty
    rx,         \* rx_buffer_
    loop,       \* drainFrames: not running, between two frames, or in a slot
    sock,       \* the socket's state
    unsent,     \* the socket holds bytes still to be written
    connects,   \* calls of connectToService that went on
    inbound,     \* all the peer of the current connection has sent
    taken,      \* how many of these bytes readAll() has returned
    out         \* history: messages emitted for the current connection

client == <<client_state, token, rx, loop>>
socket == <<sock, unsent>>
wire == <<inbound, taken, out>>
clientVars == <<client, socket, connects, wire>>

State == {"Disconnected", "Connecting", "Authenticating", "Ready", "Error"}
Byte == 0..(Base - 1)

ClientInit ==
    /\ client_state = "Disconnected" /\ token = FALSE /\ rx = <<>> /\ loop = "no"
    /\ sock = "unconnected" /\ unsent = FALSE /\ connects = 0
    /\ inbound = <<>> /\ taken = 0 /\ out = <<>>

\* Public slots are called from the event loop or from a slot of messageReceived.
Callable == loop \in {"no", "slot"}
\* Socket events come from the event loop.
Idle == loop = "no"

-----------------------------------------------------------------------------
(* The connection *)

\* onConnected and beginAuth: without a token the client stays where it is.
Connected(tok) == IF tok THEN "Ready" ELSE "Authenticating"

\* connectToServer: at once, later, or not at all, which is also what happens
\* to a socket that is in use.  Of the old stream nothing more is read.
connectToServer(tok) ==
    /\ \/ sock = "unconnected" /\ sock' = "connected" /\ client_state' = Connected(tok)
       \/ sock = "unconnected" /\ sock' = "connecting" /\ client_state' = "Connecting"
       \/ sock' = sock /\ client_state' = "Error"
    /\ inbound' = <<>> /\ taken' = 0 /\ out' = <<>>

\* A slip: what the last connection left in the buffer stays there.
connectToServiceKeepsBuffer(tok) ==
    /\ Callable
    /\ client_state \notin {"Connecting", "Authenticating", "Ready"}
    /\ connects < MaxConnects /\ connects' = connects + 1
    /\ token' = tok
    /\ connectToServer(tok)
    /\ UNCHANGED <<rx, loop, unsent>>

\* A slip: a client that is proving its token may start over.
connectToServiceAgain(tok) ==
    /\ Callable
    /\ client_state \notin {"Connecting", "Ready"}
    /\ connects < MaxConnects /\ connects' = connects + 1
    /\ token' = tok
    /\ rx' = <<>>
    /\ connectToServer(tok)
    /\ UNCHANGED <<loop, unsent>>

connectToService(tok) ==
    /\ Callable
    /\ client_state \notin {"Connecting", "Authenticating", "Ready"}
    /\ connects < MaxConnects /\ connects' = connects + 1
    /\ token' = tok
    /\ rx' = <<>>
    /\ connectToServer(tok)
    /\ UNCHANGED <<loop, unsent>>

\* The socket closes, at once unless bytes are still to be written.
disconnectFromServer ==
    sock' = IF sock # "unconnected" /\ unsent THEN "closing" ELSE "unconnected"

disconnectFromService ==
    /\ Callable
    /\ disconnectFromServer
    /\ client_state' = "Disconnected"
    /\ UNCHANGED <<token, rx, loop, unsent, connects, wire>>

onConnected ==
    /\ Idle /\ sock = "connecting"
    /\ sock' = "connected"
    /\ client_state' = Connected(token)
    /\ UNCHANGED <<token, rx, loop, unsent, connects, wire>>

\* A connection attempt fails.
onSocketError ==
    /\ Idle /\ sock = "connecting"
    /\ sock' = "unconnected"
    /\ client_state' = "Error"
    /\ UNCHANGED <<token, rx, loop, unsent, connects, wire>>

\* The peer goes away (an error, then disconnected), or a socket that was
\* closing is done.
onDisconnected ==
    /\ Idle /\ sock \in {"connected", "closing"}
    /\ sock' = "unconnected" /\ unsent' = FALSE
    /\ client_state' = "Disconnected"
    /\ UNCHANGED <<token, rx, loop, connects, wire>>

\* A command is written only when authenticated (and not above the cap).
sendCommand ==
    /\ Callable
    /\ client_state = "Ready"
    /\ unsent' = TRUE
    /\ UNCHANGED <<client, sock, connects, wire>>

-----------------------------------------------------------------------------
(* Reading *)

\* qFromBigEndian.
BigEndian(bytes) ==
    LET value[k \in 0..Len(bytes)] ==
            IF k = 0 THEN 0 ELSE value[k - 1] * Base + bytes[k]
    IN  value[Len(bytes)]

InBounds(n) == n \in OpBytes..MaxFrame

\* The message in the frame of length n at offset i of s.
MessageAt(s, i, n) ==
    [opcode |-> BigEndian(SubSeq(s, i + LenBytes + 1, i + LenBytes + OpBytes)),
     payload |-> SubSeq(s, i + LenBytes + OpBytes + 1, i + LenBytes + n)]

\* A slip: short reads are left for later.
onReadyReadFullOnly ==
    /\ Idle /\ sock = "connected"
    /\ \E k \in (taken + LenBytes + MaxFrame)..Len(inbound) :
        /\ rx' = rx \o SubSeq(inbound, taken + 1, k)
        /\ taken' = k
    /\ loop' = "frames"
    /\ UNCHANGED <<client_state, token, socket, connects, inbound, out>>

\* readyRead: some of what the peer sent has arrived, in no particular portions.
onReadyRead ==
    /\ Idle /\ sock = "connected"
    /\ \E k \in (taken + 1)..Len(inbound) :
        /\ rx' = rx \o SubSeq(inbound, taken + 1, k)
        /\ taken' = k
    /\ loop' = "frames"
    /\ UNCHANGED <<client_state, token, socket, connects, inbound, out>>

\* The first frame in the buffer: its length field is out of bounds, or all of
\* it is there.
frameLen == BigEndian(SubSeq(rx, 1, LenBytes))
Malformed == Len(rx) >= LenBytes /\ ~InBounds(frameLen)
Complete == Len(rx) >= LenBytes /\ InBounds(frameLen) /\ Len(rx) >= LenBytes + frameLen

\* drainFrames returns and waits for more.
drainWaits ==
    /\ loop # "no"
    /\ ~Malformed /\ ~Complete
    /\ loop' = "no"
    /\ UNCHANGED <<client_state, token, rx, socket, connects, wire>>

\* A slip: a bad length empties the buffer and keeps the connection.
drainRejectsResync ==
    /\ loop # "no" /\ Malformed
    /\ rx' = <<>>
    /\ loop' = "no"
    /\ UNCHANGED <<client_state, token, socket, connects, wire>>

\* A length out of bounds ends the connection.
drainRejects ==
    /\ loop # "no" /\ Malformed
    /\ disconnectFromServer
    /\ client_state' = "Disconnected"
    /\ rx' = <<>>
    /\ loop' = "no"
    /\ UNCHANGED <<token, unsent, connects, wire>>

\* A message is emitted, and the loop goes on when its slots return.  It does
\* not look at the state: a slot that disconnects does not stop it.
drainEmits ==
    /\ loop # "no" /\ Complete
    /\ out' = Append(out, MessageAt(rx, 0, frameLen))
    /\ rx' = SubSeq(rx, LenBytes + frameLen + 1, Len(rx))
    /\ loop' = "slot"
    /\ UNCHANGED <<client_state, token, socket, connects, inbound, taken>>

drainFrames == drainWaits \/ drainRejects \/ drainEmits

-----------------------------------------------------------------------------
(* The other end *)

PeerSends(b) ==
    /\ sock = "connected" /\ Len(inbound) < MaxBytes
    /\ inbound' = Append(inbound, b)
    /\ UNCHANGED <<client, socket, connects, taken, out>>

\* The socket has written what it held.
Flushed ==
    /\ Idle /\ sock = "connected" /\ unsent
    /\ unsent' = FALSE
    /\ UNCHANGED <<client, sock, connects, wire>>

ClientNext ==
    \/ \E tok \in BOOLEAN : connectToService(tok)
    \/ disconnectFromService \/ sendCommand
    \/ onConnected \/ onSocketError \/ onDisconnected
    \/ onReadyRead \/ drainFrames
    \/ \E b \in Byte : PeerSends(b)
    \/ Flushed

\* A running event loop: bytes that have arrived are read, and the parser's
\* loop and the slots it calls come to an end.
ClientSpec == ClientInit /\ [][ClientNext]_clientVars /\ WF_clientVars(onReadyRead) /\ WF_clientVars(drainFrames)

-----------------------------------------------------------------------------
(* Properties *)

\* The type of every variable; no more bytes are read than were sent.
ClientTypeOK ==
    /\ client_state \in State /\ token \in BOOLEAN /\ rx \in Seq(Byte)
    /\ loop \in {"no", "frames", "slot"}
    /\ sock \in {"unconnected", "connecting", "connected", "closing"} /\ unsent \in BOOLEAN
    /\ connects \in 0..MaxConnects
    /\ inbound \in Seq(Byte) /\ taken \in 0..Len(inbound)
    /\ out \in Seq([opcode : Nat, payload : Seq(Byte)])

\* The reference parser: what a stream that is there as a whole contains from
\* each offset on, up to its end or to the first length out of bounds.
ParseFrom(s) ==
    LET from[i \in 0..Len(s)] ==
            LET n == BigEndian(SubSeq(s, i + 1, i + LenBytes)) IN
            IF i + LenBytes > Len(s) THEN [messages |-> <<>>, bad |-> FALSE]
            ELSE IF ~InBounds(n) THEN [messages |-> <<>>, bad |-> TRUE]
            ELSE IF i + LenBytes + n > Len(s) THEN [messages |-> <<>>, bad |-> FALSE]
            ELSE LET rest == from[i + LenBytes + n] IN
                 [messages |-> <<MessageAt(s, i, n)>> \o rest.messages, bad |-> rest.bad]
    IN  from
Parse(s) == ParseFrom(s)[0]

Read == SubSeq(inbound, 1, taken)

\* What is emitted are messages of the bytes read on this connection, in
\* order, however these were cut up (ServiceClient.cpp:99-143): none is split,
\* repeated or built from what an earlier connection left in the buffer, also
\* when slots disconnect and connect again in the middle of the loop; and an
\* authenticated client loses none.  Opcodes are not told apart: the code has
\* no table of known ones yet.
StreamIntact ==
    /\ IsPrefix(out, Parse(Read).messages)
    /\ client_state = "Ready" /\ loop = "no" => out = Parse(Read).messages

\* "malformed -> drop + disconnect" (ServiceClient.h:19-20): once a length out
\* of bounds has been read nothing more is, whatever else is in the buffer.
MalformedIsFinal ==
    loop = "no" /\ Parse(Read).bad => sock # "connected" /\ rx = <<>>

\* The client's idea of the connection (setState) and the socket agree when
\* the event loop is idle: it is never Ready on a dead socket, and never has a
\* live one it thinks gone.
StateTracksSocket ==
    /\ client_state = "Ready" => sock = "connected" /\ token
    /\ client_state = "Authenticating" => sock = "connected" /\ ~token
    /\ sock = "connected" => client_state \in {"Authenticating", "Ready"}
    /\ sock = "connecting" <=> client_state = "Connecting"

\* To an authenticated client, a frame that has been sent is delivered unless
\* the connection ends (onReadyRead appends and drains; nothing waits for a
\* later frame).
FramesArrive ==
    \A n \in 1..(MaxBytes \div (LenBytes + OpBytes)) :
        client_state = "Ready" /\ Len(Parse(inbound).messages) >= n
            ~> client_state # "Ready" \/ Len(out) >= n

(* What a comment says and the code does not do. *)

\* ServiceClient.h:15-17, "Until the handshake completes, no session commands
\* are accepted/sent": a message reaches the slots of an authenticated client
\* only.  drainFrames does not look at the state.
NothingBeforeAuth == [][Len(out') > Len(out) => client_state = "Ready"]_clientVars

=============================================================================
