-------------------------------- MODULE Media --------------------------------
(***************************************************************************)
(* The media path of the core library: capturer, encoder, transport and    *)
(* decoder, which call the application back on its own thread before they  *)
(* return.  A callback may call any of them again, so the state is that of *)
(* the components and the stack of the callbacks that are running; the     *)
(* application either calls an operation or returns from the innermost     *)
(* callback, and the operation that made it continues from there.          *)
(***************************************************************************)
EXTENDS StubCapturer, StubCodec, Loopback

CONSTANT MaxDepth   \* bound: nested callbacks

ASSUME MaxDepthAssumption == MaxDepth \in Nat

VARIABLES
    stack,       \* the running callbacks, innermost first
    owed,        \* history: a keyframe was asked for (or none was made yet) and none followed
    known,       \* history: the shape of the cursor was delivered in this capture
    restarted    \* history: this capture was started from inside a cursor callback

history == <<owed, known, restarted>>
vars == <<capturer, encoder, loopback, stack, history>>

Init ==
    /\ CapturerInit /\ EncoderInit /\ LoopbackInit
    /\ stack = << >>
    /\ owed = TRUE /\ known = FALSE /\ restarted = FALSE

Running(cb) == \E i \in 1..Len(stack) : stack[i].cb = cb
Innermost(cb) == stack # << >> /\ Head(stack).cb = cb
Invoke(callback) == Len(stack) < MaxDepth /\ stack' = <<callback>> \o stack
\* The innermost callback returns and the operation it served makes the next one.
Replace(callback) == stack' = <<callback>> \o Tail(stack)

----------------------------------------------------------------------------
(* The capturer: start, stop, and pump up to its first callback.           *)

Start ==
    /\ \E cursor \in BOOLEAN : start(cursor)
    /\ known' = FALSE
    /\ restarted' = Running("cursor")
    /\ UNCHANGED <<encoder, loopback, stack, owed>>

Stop == stop /\ UNCHANGED <<encoder, loopback, stack, history>>

Pump ==
    /\ pump
    /\ Invoke(Frame)
    /\ UNCHANGED <<capturer, encoder, loopback, history>>

\* A frame callback returns: the cursor sample is next, if it is wanted by the
\* configuration of this moment; a stop() meanwhile does not prevent it.
FrameReturns ==
    /\ Innermost("frame")
    /\ IF CursorWanted
       THEN /\ Replace(CursorSample)
            /\ known' = (known \/ CursorSample.shape)
            /\ UNCHANGED <<capturer, owed, restarted>>
       ELSE pumpEnds /\ stack' = Tail(stack) /\ UNCHANGED history
    /\ UNCHANGED <<encoder, loopback>>

CursorReturns ==
    /\ Innermost("cursor")
    /\ pumpEnds
    /\ stack' = Tail(stack)
    /\ UNCHANGED <<encoder, loopback, history>>

----------------------------------------------------------------------------
(* The encoder.  Any frame may be encoded, captured or made by hand; the    *)
(* capturer's own are larger than one transport message.                   *)

Encode ==
    /\ \E fits \in BOOLEAN : Invoke(Packet(fits))
    /\ encode
    /\ owed' = (owed /\ ~Keyframe)
    /\ UNCHANGED <<capturer, loopback, known, restarted>>

RequestKeyframe ==
    /\ requestKeyframe
    /\ owed' = TRUE
    /\ UNCHANGED <<capturer, loopback, stack, known, restarted>>

PacketReturns ==
    /\ Innermost("packet")
    /\ encodeReturns
    /\ stack' = Tail(stack)
    /\ UNCHANGED <<capturer, loopback, history>>

----------------------------------------------------------------------------
(* The transport, and the decoder behind it.                               *)

SetReceiveCallback(e) == setReceiveCallback(e) /\ UNCHANGED <<capturer, encoder, stack, history>>

Connect(e) ==
    /\ connect(e) /\ Invoke([cb |-> "state"])
    /\ UNCHANGED <<capturer, encoder, history>>
Close(e) ==
    /\ close(e) /\ Invoke([cb |-> "state"])
    /\ UNCHANGED <<capturer, encoder, history>>

\* What may be sent: an encoded packet from its callback, and from anywhere a
\* message of another channel or a piece of a packet.
Outgoing ==
    {[video |-> FALSE, whole |-> TRUE, fits |-> TRUE], [video |-> TRUE, whole |-> FALSE, fits |-> TRUE]}
    \cup (IF Innermost("packet") THEN {[video |-> TRUE, whole |-> TRUE, fits |-> Head(stack).fits]} ELSE {})

Send(e, m) ==
    /\ send(e, m.fits)
    /\ Invoke([cb |-> "receive", video |-> m.video, whole |-> m.whole])
    /\ UNCHANGED <<capturer, encoder, history>>

\* What arrived on the video channel is handed to the decoder, from inside the
\* receive callback; a part of a packet is refused.
Decode ==
    /\ Innermost("receive") /\ Head(stack).video
    /\ Decodes(Head(stack))
    /\ Invoke([cb |-> "decoded"])
    /\ UNCHANGED <<capturer, encoder, loopback, history>>

\* These callbacks are the last thing their operation does.
OtherReturns ==
    /\ stack # << >> /\ Head(stack).cb \in {"receive", "decoded", "state"}
    /\ stack' = Tail(stack)
    /\ UNCHANGED <<capturer, encoder, loopback, history>>

Next ==
    \/ Start \/ Stop \/ Pump \/ FrameReturns \/ CursorReturns
    \/ Encode \/ RequestKeyframe \/ PacketReturns
    \/ \E e \in Ends : SetReceiveCallback(e) \/ Connect(e) \/ Close(e)
    \/ \E e \in Ends, m \in Outgoing : Send(e, m)
    \/ Decode \/ OtherReturns

Spec == Init /\ [][Next]_vars

----------------------------------------------------------------------------
(* Properties.                                                             *)

Callback ==
    [cb : {"frame", "state", "decoded"}] \cup [cb : {"cursor"}, shape : BOOLEAN]
    \cup [cb : {"packet"}, fits : BOOLEAN]
    \cup [cb : {"receive"}, video : BOOLEAN, whole : BOOLEAN]

\* Every callback frame on the stack is one the components make, and the flags
\* are what their declarations say.
TypeOK ==
    /\ capturing \in BOOLEAN /\ frame_index \in Nat
    /\ capture_cursor \in BOOLEAN /\ cursor_cb \in BOOLEAN
    /\ force_keyframe \in BOOLEAN /\ first_frame \in BOOLEAN
    /\ tstate \in [Ends -> {"Idle", "Connected", "Closed"}]
    /\ receiver \in [Ends -> BOOLEAN]
    /\ stack \in Seq(Callback) /\ Len(stack) <= MaxDepth
    /\ owed \in BOOLEAN /\ known \in BOOLEAN /\ restarted \in BOOLEAN

\* A request for a keyframe is answered by the next packet encoded after it,
\* wherever it was made: encode() clears its flags before the packet callback,
\* so a request from inside that callback is still owed when it returns.
KeyframeDebt == owed <=> Keyframe

\* A cursor sample without a shape ("shape unchanged") is only delivered in a
\* capture that delivered the shape before.  A capture started from inside a
\* cursor callback is the exception: the pump it interrupts counts one more
\* frame after start() has set the index to 0, and the shape is never sent.
ShapeFirst ==
    \A i \in 1..Len(stack) :
        (i = 1 /\ stack[i].cb = "cursor" /\ ~stack[i].shape) => known \/ restarted

\* The decoder gives a picture only for a packet that encode() made whole and
\* that fits one message (codec_stub.cpp:179-207; transport_stub.cpp:75): inside
\* the receive callback of one sent from the packet callback, not for a part.
DecodedWasEncoded ==
    \A i \in 1..Len(stack) : stack[i].cb = "decoded" =>
        \E j \in (i + 1)..Len(stack) : stack[j].cb = "packet" /\ stack[j].fits

=============================================================================
