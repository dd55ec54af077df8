----------------------------- MODULE MediaProofs -----------------------------
(***************************************************************************)
(* Proofs about the media path, for captures of any length and callbacks   *)
(* nested to any depth; and about its set-up and its rate, for any integer *)
(* widths, capabilities, messages and reports.                             *)
(***************************************************************************)
EXTENDS Media, MediaControl, TLAPS

\* The stack is a sequence, all that is needed of its type here.
StackSeq == stack \in Seq(Callback)

\* Once a cursor sample is out, and for as long as its callback runs, the shape
\* was delivered in this capture or the capture began inside that callback.
CursorTold == Running("cursor") => known \/ restarted
\* A capture past its first frame that samples the cursor has delivered it.
LaterTold == frame_index # 0 /\ CursorWanted => known \/ restarted

ShapeInv == StackSeq /\ frame_index \in Nat /\ CursorTold /\ LaterTold

-----------------------------------------------------------------------------
(* The stack *)

LEMMA CallbackFacts ==
    /\ Frame \in Callback /\ CursorSample \in Callback
    /\ \A fits \in BOOLEAN : Packet(fits) \in Callback
    /\ [cb |-> "state"] \in Callback /\ [cb |-> "decoded"] \in Callback
    /\ \A video, whole \in BOOLEAN :
          [cb |-> "receive", video |-> video, whole |-> whole] \in Callback
<1>1. (frame_index = 0) \in BOOLEAN
  OBVIOUS
<1>2. QED BY <1>1, Zenon DEF Callback, Frame, CursorSample, Packet

\* Calling back adds a callback of one kind and no other.
LEMMA InvokeFacts ==
    ASSUME StackSeq, NEW c \in Callback, Invoke(c)
    PROVE  StackSeq' /\ (c.cb # "cursor" => (Running("cursor")' => Running("cursor")))
<1>1. stack' = <<c>> \o stack /\ stack \in Seq(Callback)
  BY DEF Invoke, StackSeq
<1>2. stack' \in Seq(Callback) /\ Len(stack') = Len(stack) + 1 /\ Len(stack) \in Nat
  BY <1>1
<1>3. stack'[1] = c /\ \A i \in 2..Len(stack') : stack'[i] = stack[i - 1]
  BY <1>1, <1>2
<1>4. ASSUME c.cb # "cursor", NEW i \in 1..Len(stack'), stack'[i].cb = "cursor"
      PROVE  i - 1 \in 1..Len(stack) /\ stack[i - 1].cb = "cursor"
  BY <1>2, <1>3, <1>4
<1>5. QED BY <1>2, <1>4 DEF StackSeq, Running

\* Returning takes the innermost callback away.
LEMMA ReturnFacts ==
    ASSUME StackSeq, stack # << >>, stack' = Tail(stack)
    PROVE  StackSeq' /\ (Running("cursor")' => Running("cursor"))
<1>1. stack \in Seq(Callback) /\ stack' \in Seq(Callback)
      /\ Len(stack) \in Nat /\ Len(stack') = Len(stack) - 1
  BY DEF StackSeq
<1>2. \A i \in 1..Len(stack') : i + 1 \in 1..Len(stack) /\ stack'[i] = stack[i + 1]
  BY <1>1
<1>3. QED BY <1>1, <1>2 DEF StackSeq, Running

LEMMA ReplaceFacts ==
    ASSUME StackSeq, stack # << >>, NEW c \in Callback, Replace(c)
    PROVE  StackSeq'
BY DEF StackSeq, Replace

-----------------------------------------------------------------------------
LEMMA ShapeNext == ShapeInv /\ [Next]_vars => ShapeInv'
<1> SUFFICES ASSUME ShapeInv, [Next]_vars PROVE ShapeInv'
  OBVIOUS
<1> USE DEF ShapeInv
<1>1. ASSUME UNCHANGED <<capturer, known, restarted>>,
             StackSeq', Running("cursor")' => Running("cursor")
      PROVE  ShapeInv'
  BY <1>1 DEF capturer, CursorTold, LaterTold, CursorWanted
<1>2. CASE Start
  <2>1. stack' = stack /\ frame_index' = 0 /\ restarted' = Running("cursor")
    BY <1>2 DEF Start, start
  <2>2. Running("cursor")' => Running("cursor")
    BY <2>1 DEF Running
  <2>3. StackSeq' /\ LaterTold' /\ frame_index' \in Nat
    BY <2>1 DEF StackSeq, LaterTold
  <2>4. CursorTold'
    BY <2>1, <2>2 DEF CursorTold
  <2>5. QED BY <2>3, <2>4
<1>3. CASE Stop
  BY <1>3 DEF Stop, stop, history, StackSeq, CursorTold, LaterTold, CursorWanted, Running
<1>4. CASE Pump
  <2>1. Frame.cb # "cursor" /\ Frame \in Callback
    BY CallbackFacts DEF Frame
  <2>2. QED BY <1>1, <1>4, <2>1, InvokeFacts DEF Pump, history
<1>5. CASE FrameReturns
  <2>1. stack # << >>
    BY <1>5 DEF FrameReturns, Innermost
  <2>2. CASE CursorWanted
    <3>1. /\ Replace(CursorSample) /\ UNCHANGED <<capturer, restarted>>
          /\ known' = (known \/ CursorSample.shape)
      BY <1>5, <2>2 DEF FrameReturns
    <3>2. StackSeq'
      BY <2>1, <3>1, CallbackFacts, ReplaceFacts
    <3>3. CursorSample.shape <=> frame_index = 0
      BY DEF CursorSample
    <3>4. known' \/ restarted'
      BY <2>2, <3>1, <3>3 DEF LaterTold
    <3>5. QED BY <3>1, <3>2, <3>4 DEF capturer, CursorTold, LaterTold
  <2>3. CASE ~CursorWanted
    <3>1. pumpEnds /\ stack' = Tail(stack) /\ UNCHANGED <<known, restarted>>
      BY <1>5, <2>3 DEF FrameReturns, history
    <3>2. StackSeq' /\ (Running("cursor")' => Running("cursor"))
      BY <2>1, <3>1, ReturnFacts
    <3>3. ~CursorWanted' /\ frame_index' \in Nat
      BY <2>3, <3>1 DEF pumpEnds, CursorWanted
    <3>4. QED BY <3>1, <3>2, <3>3 DEF CursorTold, LaterTold
  <2>4. QED BY <2>2, <2>3
<1>6. CASE CursorReturns
  <2>1. stack # << >> /\ Running("cursor")
    <3>1. stack # << >> /\ Head(stack).cb = "cursor"
      BY <1>6 DEF CursorReturns, Innermost
    <3>2. 1 \in 1..Len(stack) /\ stack[1] = Head(stack)
      BY <3>1 DEF StackSeq
    <3>3. QED BY <3>1, <3>2 DEF Running
  <2>2. pumpEnds /\ stack' = Tail(stack) /\ UNCHANGED <<known, restarted>>
    BY <1>6 DEF CursorReturns, history
  <2>3. StackSeq' /\ frame_index' \in Nat
    BY <2>1, <2>2, ReturnFacts DEF pumpEnds
  <2>4. known' \/ restarted'
    BY <2>1, <2>2 DEF CursorTold
  <2>5. QED BY <2>3, <2>4 DEF CursorTold, LaterTold
<1>7. CASE Encode
  <2>1. PICK fits \in BOOLEAN : Invoke(Packet(fits))
    BY <1>7 DEF Encode
  <2>2. Packet(fits).cb # "cursor" /\ Packet(fits) \in Callback
    BY CallbackFacts DEF Packet
  <2>3. StackSeq' /\ (Running("cursor")' => Running("cursor"))
    BY <2>1, <2>2, InvokeFacts
  <2>4. QED BY <1>1, <1>7, <2>3 DEF Encode
<1>8. CASE RequestKeyframe
  BY <1>1, <1>8 DEF RequestKeyframe, StackSeq, Running
<1>9. CASE PacketReturns \/ OtherReturns
  <2>1. stack # << >> /\ stack' = Tail(stack) /\ UNCHANGED <<capturer, known, restarted>>
    BY <1>9 DEF PacketReturns, OtherReturns, Innermost, history
  <2>2. QED BY <1>1, <2>1, ReturnFacts
<1>10. ASSUME NEW e \in Ends, SetReceiveCallback(e) PROVE ShapeInv'
  BY <1>1, <1>10 DEF SetReceiveCallback, history, StackSeq, Running
<1>11. ASSUME NEW e \in Ends, Connect(e) \/ Close(e) PROVE ShapeInv'
  <2> DEFINE c == [cb |-> "state"]
  <2>1. Invoke(c) /\ c.cb # "cursor" /\ c \in Callback
    BY <1>11, CallbackFacts DEF Connect, Close
  <2> HIDE DEF c
  <2>2. StackSeq' /\ (Running("cursor")' => Running("cursor"))
    BY <2>1, InvokeFacts
  <2>3. QED BY <1>1, <1>11, <2>2 DEF Connect, Close, history
<1>12. ASSUME NEW e \in Ends, NEW m \in Outgoing, Send(e, m) PROVE ShapeInv'
  <2> DEFINE c == [cb |-> "receive", video |-> m.video, whole |-> m.whole]
  <2>1. m.video \in BOOLEAN /\ m.whole \in BOOLEAN
    <3>1. \/ m = [video |-> FALSE, whole |-> TRUE, fits |-> TRUE]
          \/ m = [video |-> TRUE, whole |-> FALSE, fits |-> TRUE]
          \/ m = [video |-> TRUE, whole |-> TRUE, fits |-> Head(stack).fits]
      BY DEF Outgoing
    <3>2. CASE m = [video |-> FALSE, whole |-> TRUE, fits |-> TRUE]
      <4>1. m.video = FALSE /\ m.whole = TRUE
        BY <3>2, Zenon
      <4>2. QED BY <4>1, Zenon
    <3>3. CASE m = [video |-> TRUE, whole |-> FALSE, fits |-> TRUE]
      <4>1. m.video = TRUE /\ m.whole = FALSE
        BY <3>3, Zenon
      <4>2. QED BY <4>1, Zenon
    <3>4. CASE m = [video |-> TRUE, whole |-> TRUE, fits |-> Head(stack).fits]
      <4>1. m.video = TRUE /\ m.whole = TRUE
        BY <3>4, Zenon
      <4>2. QED BY <4>1, Zenon
    <3>5. QED BY <3>1, <3>2, <3>3, <3>4
  <2>2. Invoke(c) /\ c.cb # "cursor" /\ c \in Callback
    BY <1>12, <2>1, CallbackFacts DEF Send
  <2> HIDE DEF c
  <2>3. StackSeq' /\ (Running("cursor")' => Running("cursor"))
    BY <2>2, InvokeFacts
  <2>4. QED BY <1>1, <1>12, <2>3 DEF Send, history
<1>13. CASE Decode
  <2> DEFINE c == [cb |-> "decoded"]
  <2>1. Invoke(c) /\ c.cb # "cursor" /\ c \in Callback
    BY <1>13, CallbackFacts DEF Decode
  <2> HIDE DEF c
  <2>2. StackSeq' /\ (Running("cursor")' => Running("cursor"))
    BY <2>1, InvokeFacts
  <2>3. QED BY <1>1, <1>13, <2>2 DEF Decode, history
<1>14. CASE UNCHANGED vars
  BY <1>1, <1>14 DEF vars, history, StackSeq, Running
<1>15. QED
  BY <1>2, <1>3, <1>4, <1>5, <1>6, <1>7, <1>8, <1>9, <1>10, <1>11, <1>12, <1>13, <1>14
  DEF Next

\* capturer_stub.cpp:109-132: in a capture that was not begun inside a cursor
\* callback the first cursor sample carries the shape, however stops, restarts
\* and pumps are nested in callbacks.
THEOREM ShapeAlwaysFirst == Spec => []ShapeFirst
<1>1. Init => ShapeInv
  BY DEF Init, CapturerInit, ShapeInv, StackSeq, CursorTold, LaterTold, Running
<1>2. ShapeInv => ShapeFirst
  BY DEF ShapeInv, CursorTold, ShapeFirst, Running
<1>3. QED BY <1>1, <1>2, ShapeNext, PTL DEF Spec

\* Every variable keeps its type, and the stack holds callbacks the components
\* make and nothing else.
THEOREM TypeCorrect == Spec => []TypeOK
<1> DEFINE Flags == /\ capturing \in BOOLEAN /\ capture_cursor \in BOOLEAN
                    /\ cursor_cb \in BOOLEAN /\ force_keyframe \in BOOLEAN
                    /\ first_frame \in BOOLEAN /\ receiver \in [Ends -> BOOLEAN]
                    /\ owed \in BOOLEAN /\ known \in BOOLEAN /\ restarted \in BOOLEAN
           Depth == Len(stack) <= MaxDepth
           States == tstate \in [Ends -> {"Idle", "Connected", "Closed"}]
<1>1. Init => Flags /\ Depth /\ States
  <2>1. Init => Flags
    BY Zenon DEF Init, CapturerInit, EncoderInit, LoopbackInit
  <2>2. Init => Depth /\ States
    BY MaxDepthAssumption DEF Init, LoopbackInit
  <2>3. QED BY <2>1, <2>2
<1>2. ShapeInv /\ Flags /\ [Next]_vars => Flags'
  <2> SUFFICES ASSUME ShapeInv, Flags, [Next]_vars PROVE Flags'
    OBVIOUS
  <2> USE DEF capturer, encoder, loopback, history
  <2>1. CASE Start
    BY <2>1, Zenon DEF Start, start, Running
  <2>2. CASE Stop \/ Pump \/ CursorReturns \/ PacketReturns \/ OtherReturns \/ Decode
    BY <2>2, Zenon DEF Stop, stop, Pump, CursorReturns, pumpEnds, PacketReturns,
       encodeReturns, OtherReturns, Decode
  <2>3. CASE FrameReturns
    <3>1. CursorSample.shape \in BOOLEAN
      BY Zenon DEF CursorSample
    <3>2. known' \in BOOLEAN
      BY <2>3, <3>1, Zenon DEF FrameReturns
    <3>3. UNCHANGED <<capturing, capture_cursor, cursor_cb, encoder, receiver, owed, restarted>>
      BY <2>3, Zenon DEF FrameReturns, pumpEnds
    <3>4. QED BY <3>2, <3>3, Zenon
  <2>4. CASE Encode \/ RequestKeyframe
    BY <2>4, Zenon DEF Encode, encode, RequestKeyframe, requestKeyframe, Keyframe
  <2>5. ASSUME NEW e \in Ends, SetReceiveCallback(e) PROVE Flags'
    BY <2>5, Zenon DEF SetReceiveCallback, setReceiveCallback
  <2>6. ASSUME NEW e \in Ends, Connect(e) \/ Close(e) PROVE Flags'
    BY <2>6, Zenon DEF Connect, connect, Close, close, setState
  <2>7. ASSUME NEW e \in Ends, NEW m \in Outgoing, Send(e, m) PROVE Flags'
    BY <2>7, Zenon DEF Send, send
  <2>8. CASE UNCHANGED vars
    BY <2>8, Zenon DEF vars
  <2>9. QED BY <2>1, <2>2, <2>3, <2>4, <2>5, <2>6, <2>7, <2>8 DEF Next
<1>3. ShapeInv /\ Depth /\ [Next]_vars => Depth'
  <2> SUFFICES ASSUME ShapeInv, Depth, [Next]_vars PROVE Depth'
    OBVIOUS
  <2> USE MaxDepthAssumption
  <2>1. stack \in Seq(Callback) /\ Len(stack) \in Nat
    BY DEF ShapeInv, StackSeq
  <2>2. ASSUME NEW c \in Callback, Invoke(c) PROVE Depth'
    BY <2>1, <2>2 DEF Invoke
  <2>3. ASSUME stack # << >>, NEW c \in Callback, Replace(c) PROVE Depth'
    BY <2>1, <2>3 DEF Replace
  <2>4. ASSUME stack # << >>, stack' = Tail(stack) PROVE Depth'
    BY <2>1, <2>4
  <2>5. CASE UNCHANGED stack
    BY <2>5
  <2>6. CASE FrameReturns \/ CursorReturns \/ PacketReturns \/ OtherReturns
    BY <2>3, <2>4, <2>6, CallbackFacts DEF FrameReturns, CursorReturns, PacketReturns,
       OtherReturns, Innermost
  <2>7. CASE Pump \/ Encode \/ Decode
    BY <2>2, <2>7, CallbackFacts DEF Pump, Encode, Decode
  <2>8. ASSUME NEW e \in Ends, Connect(e) \/ Close(e) PROVE Depth'
    BY <2>2, <2>8, CallbackFacts DEF Connect, Close
  <2>9. ASSUME NEW e \in Ends, NEW m \in Outgoing, Send(e, m) PROVE Depth'
    BY <2>1, <2>9 DEF Send, Invoke
  <2>10. QED
    BY <2>5, <2>6, <2>7, <2>8, <2>9 DEF Next, vars, Start, Stop, RequestKeyframe,
       SetReceiveCallback
<1>4. States /\ [Next]_vars => States'
  <2> SUFFICES ASSUME States, [Next]_vars PROVE States'
    OBVIOUS
  <2>1. ASSUME NEW e \in Ends, Connect(e) \/ Close(e) PROVE States'
    BY <2>1 DEF Connect, connect, Close, close, setState
  <2>2. ASSUME UNCHANGED tstate PROVE States'
    BY <2>2
  <2>3. QED
    BY <2>1, <2>2 DEF Next, vars, loopback, Start, Stop, Pump, FrameReturns, CursorReturns,
       Encode, RequestKeyframe, PacketReturns, SetReceiveCallback, setReceiveCallback, Send,
       send, Decode, OtherReturns
<1>5. Init => ShapeInv
  BY DEF Init, CapturerInit, ShapeInv, StackSeq, CursorTold, LaterTold, Running
<1>6. ShapeInv /\ Flags /\ Depth /\ States => TypeOK
  BY DEF ShapeInv, StackSeq, TypeOK
<1>7. QED BY <1>1, <1>2, <1>3, <1>4, <1>5, <1>6, ShapeNext, PTL DEF Spec

\* codec_stub.cpp:125-146: a keyframe is owed exactly when the next packet will
\* be one, wherever requestKeyframe() was called.
THEOREM DebtAlwaysKept == Spec => []KeyframeDebt
<1>1. Init => KeyframeDebt
  BY DEF Init, EncoderInit, KeyframeDebt, Keyframe
<1>2. KeyframeDebt /\ [Next]_vars => KeyframeDebt'
  <2> SUFFICES ASSUME KeyframeDebt, [Next]_vars PROVE KeyframeDebt'
    OBVIOUS
  <2> USE DEF KeyframeDebt, Keyframe
  <2>1. CASE Encode
    BY <2>1 DEF Encode, encode
  <2>2. CASE RequestKeyframe
    BY <2>2 DEF RequestKeyframe, requestKeyframe
  <2>3. CASE UNCHANGED <<encoder, owed>>
    BY <2>3 DEF encoder
  <2>4. QED
    BY <2>1, <2>2, <2>3 DEF Next, vars, history, encodeReturns, Start, Stop, Pump,
       FrameReturns, CursorReturns, PacketReturns, SetReceiveCallback, Connect, Close,
       Send, Decode, OtherReturns
<1>3. QED BY <1>1, <1>2, PTL DEF Spec

-----------------------------------------------------------------------------
(* From the decoder back to the encoder *)

\* A picture, and what it is decoded from, is on the stack inside the callback of
\* a packet that fits.
FromPacket(c) == c.cb = "decoded" \/ (c.cb = "receive" /\ c.video /\ c.whole)
FittingPacket(c) == c.cb = "packet" /\ c.fits
Rooted ==
    \A i \in 1..Len(stack) : FromPacket(stack[i]) =>
        \E j \in (i + 1)..Len(stack) : FittingPacket(stack[j])

LEMMA RootedPush ==
    ASSUME StackSeq, Rooted, NEW c, stack' = <<c>> \o stack,
           FromPacket(c) => \E j \in 1..Len(stack) : FittingPacket(stack[j])
    PROVE  Rooted'
<1>1. /\ Len(stack) \in Nat /\ Len(stack') = Len(stack) + 1
      /\ stack'[1] = c /\ \A i \in 1..Len(stack) : stack'[i + 1] = stack[i]
  BY DEF StackSeq
<1>2. SUFFICES ASSUME NEW i \in 1..Len(stack'), FromPacket(stack'[i])
               PROVE  \E j \in (i + 1)..Len(stack') : FittingPacket(stack'[j])
  BY DEF Rooted, FromPacket, FittingPacket
<1>3. CASE i = 1
  <2>1. PICK j \in 1..Len(stack) : FittingPacket(stack[j])
    BY <1>1, <1>2, <1>3
  <2>2. j + 1 \in (i + 1)..Len(stack') /\ stack'[j + 1] = stack[j]
    BY <1>1, <1>3
  <2>3. QED BY <2>1, <2>2
<1>4. CASE i # 1
  <2>1. i - 1 \in 1..Len(stack) /\ stack'[i] = stack[i - 1]
    BY <1>1, <1>4
  <2>2. PICK j \in i..Len(stack) : FittingPacket(stack[j])
    BY <1>2, <2>1 DEF Rooted
  <2>3. j + 1 \in (i + 1)..Len(stack') /\ stack'[j + 1] = stack[j]
    BY <1>1
  <2>4. QED BY <2>2, <2>3
<1>5. QED BY <1>3, <1>4

LEMMA RootedPop == ASSUME StackSeq, Rooted, stack # << >>, stack' = Tail(stack) PROVE Rooted'
<1>1. /\ Len(stack) \in Nat /\ Len(stack') = Len(stack) - 1
      /\ \A i \in 1..Len(stack') : stack'[i] = stack[i + 1]
  BY DEF StackSeq
<1>2. SUFFICES ASSUME NEW i \in 1..Len(stack'), FromPacket(stack'[i])
               PROVE  \E j \in (i + 1)..Len(stack') : FittingPacket(stack'[j])
  BY DEF Rooted, FromPacket, FittingPacket
<1>3. i + 1 \in 1..Len(stack) /\ stack'[i] = stack[i + 1]
  BY <1>1
<1>4. PICK j \in (i + 2)..Len(stack) : FittingPacket(stack[j])
  BY <1>2, <1>3 DEF Rooted
<1>5. j - 1 \in (i + 1)..Len(stack') /\ stack'[j - 1] = stack[j]
  BY <1>1
<1>6. QED BY <1>4, <1>5

\* The cursor callback takes the place of the frame callback: neither is a packet.
LEMMA RootedReplace ==
    ASSUME StackSeq, Rooted, stack # << >>, Replace(CursorSample) PROVE Rooted'
<1>1. /\ Len(stack) \in Nat /\ Len(stack') = Len(stack)
      /\ stack'[1] = CursorSample /\ \A i \in 2..Len(stack) : stack'[i] = stack[i]
  BY DEF StackSeq, Replace
<1>2. ~FromPacket(CursorSample)
  BY DEF FromPacket, CursorSample
<1>3. SUFFICES ASSUME NEW i \in 1..Len(stack'), FromPacket(stack'[i])
               PROVE  \E j \in (i + 1)..Len(stack') : FittingPacket(stack'[j])
  BY DEF Rooted, FromPacket, FittingPacket
<1>4. i \in 2..Len(stack) /\ i \in 1..Len(stack) /\ stack'[i] = stack[i]
  BY <1>1, <1>2, <1>3
<1>5. PICK j \in (i + 1)..Len(stack) : FittingPacket(stack[j])
  BY <1>3, <1>4 DEF Rooted
<1>6. j \in (i + 1)..Len(stack') /\ stack'[j] = stack[j]
  BY <1>1, <1>4
<1>7. QED BY <1>5, <1>6

LEMMA RootedNext == StackSeq /\ Rooted /\ [Next]_vars => Rooted'
<1> SUFFICES ASSUME StackSeq, Rooted, [Next]_vars PROVE Rooted'
  OBVIOUS
<1>0. stack # << >> => 1 \in 1..Len(stack) /\ stack[1] = Head(stack)
  BY DEF StackSeq
<1>1. ASSUME NEW c, Invoke(c), ~FromPacket(c) PROVE Rooted'
  BY <1>1, RootedPush DEF Invoke
<1>2. CASE FrameReturns
  <2>1. stack # << >> /\ (Replace(CursorSample) \/ stack' = Tail(stack))
    BY <1>2 DEF FrameReturns, Innermost
  <2>2. QED BY <2>1, RootedReplace, RootedPop
<1>3. CASE CursorReturns \/ PacketReturns \/ OtherReturns
  <2>1. stack # << >> /\ stack' = Tail(stack)
    BY <1>3 DEF CursorReturns, PacketReturns, OtherReturns, Innermost
  <2>2. QED BY <2>1, RootedPop
<1>4. CASE Pump
  BY <1>1, <1>4 DEF Pump, Frame, FromPacket
<1>5. CASE Encode
  <2>1. PICK fits \in BOOLEAN : Invoke(Packet(fits))
    BY <1>5 DEF Encode
  <2>2. ~FromPacket(Packet(fits))
    BY DEF Packet, FromPacket
  <2>3. QED BY <1>1, <2>1, <2>2
<1>6. ASSUME NEW e \in Ends, Connect(e) \/ Close(e) PROVE Rooted'
  <2>1. Invoke([cb |-> "state"])
    BY <1>6 DEF Connect, Close
  <2>2. ~FromPacket([cb |-> "state"])
    BY DEF FromPacket
  <2>3. QED BY <1>1, <2>1, <2>2
<1>7. ASSUME NEW e \in Ends, NEW m \in Outgoing, Send(e, m) PROVE Rooted'
  <2> DEFINE c == [cb |-> "receive", video |-> m.video, whole |-> m.whole]
  <2>1. m.fits /\ stack' = <<c>> \o stack
    BY <1>7 DEF Send, send, Invoke
  <2>2. CASE m = [video |-> FALSE, whole |-> TRUE, fits |-> TRUE]
    <3>1. c.cb = "receive" /\ c.video = FALSE
      BY <2>2
    <3>2. ~FromPacket(c)
      BY <3>1 DEF FromPacket
    <3> HIDE DEF c
    <3>3. QED BY <2>1, <3>2, RootedPush
  <2>3. CASE m = [video |-> TRUE, whole |-> FALSE, fits |-> TRUE]
    <3>1. c.cb = "receive" /\ c.whole = FALSE
      BY <2>3
    <3>2. ~FromPacket(c)
      BY <3>1 DEF FromPacket
    <3> HIDE DEF c
    <3>3. QED BY <2>1, <3>2, RootedPush
  <2>4. CASE Innermost("packet") /\ m = [video |-> TRUE, whole |-> TRUE, fits |-> Head(stack).fits]
    <3>1. m.fits = Head(stack).fits
      BY <2>4
    <3>2. 1 \in 1..Len(stack) /\ FittingPacket(stack[1])
      BY <1>0, <2>1, <2>4, <3>1 DEF Innermost, FittingPacket
    <3> HIDE DEF c
    <3>3. QED BY <2>1, <3>2, RootedPush
  <2>5. QED BY <2>2, <2>3, <2>4 DEF Outgoing
<1>8. CASE Decode
  <2> DEFINE c == [cb |-> "decoded"]
  <2>1. stack # << >> /\ FromPacket(Head(stack)) /\ stack' = <<c>> \o stack
    BY <1>8 DEF Decode, Innermost, Decodes, Invoke, FromPacket
  <2>2. \E j \in 1..Len(stack) : FittingPacket(stack[j])
    <3>1. PICK j \in 2..Len(stack) : FittingPacket(stack[j])
      BY <1>0, <2>1 DEF Rooted
    <3>2. QED BY <3>1
  <2> HIDE DEF c
  <2>3. QED BY <2>1, <2>2, RootedPush
<1>9. CASE UNCHANGED stack
  BY <1>9 DEF Rooted
<1>10. QED
  BY <1>2, <1>3, <1>4, <1>5, <1>6, <1>7, <1>8, <1>9
  DEF Next, vars, Start, Stop, RequestKeyframe, SetReceiveCallback

\* codec_stub.cpp:179-207, transport_stub.cpp:71-93: at any depth of callbacks the
\* decoder shows only what encode() made, whole and within the transport's cap.
THEOREM DecodedAlwaysEncoded == Spec => []DecodedWasEncoded
<1>1. Init => ShapeInv /\ Rooted
  BY DEF Init, CapturerInit, ShapeInv, StackSeq, CursorTold, LaterTold, Running, Rooted
<1>2. ShapeInv => StackSeq
  BY DEF ShapeInv
<1>3. Rooted => DecodedWasEncoded
  BY DEF Rooted, DecodedWasEncoded, FromPacket, FittingPacket
<1>4. QED BY <1>1, <1>2, <1>3, ShapeNext, RootedNext, PTL DEF Spec

-----------------------------------------------------------------------------
(* Arithmetic *)

\* An upper bound of a set in the set is its maximum.
LEMMA MaxIs ==
    ASSUME NEW S \in SUBSET Int, NEW x \in S, \A y \in S : x >= y
    PROVE  Max(S) = x
<1>1. \A y \in S : y \in Int
  OBVIOUS
<1>2. ASSUME NEW z \in S, \A y \in S : z >= y PROVE z = x
  BY <1>1, <1>2
<1>3. QED BY <1>2 DEF Max

\* std::max of setBitrateBounds().
LEMMA MaxOfTwo ==
    ASSUME NEW x \in Int, NEW y \in Int
    PROVE  Max({y, x}) = IF x <= y THEN y ELSE x
<1> DEFINE S == {y, x}
           z == IF x <= y THEN y ELSE x
<1>1. S \in SUBSET Int /\ z \in S /\ \A w \in S : z >= w
  OBVIOUS
<1> HIDE DEF S, z
<1>2. Max(S) = z
  BY <1>1, MaxIs
<1>3. QED BY <1>2 DEF S, z

\* Division rounds down.
LEMMA Quotient ==
    ASSUME NEW a \in Nat, NEW b \in Nat \ {0}
    PROVE  /\ a \div b \in Nat
           /\ (a \div b) * b <= a
           /\ a < (a \div b) * b + b
  OBVIOUS

\* What the wrap of an unsigned integer does to a sum.
LEMMA Remainder ==
    ASSUME NEW a \in Nat, NEW b \in Nat \ {0}
    PROVE  /\ a % b \in 0..(b - 1) /\ a % b <= a
           /\ a < b => a % b = a
           /\ b <= a => a % b <= a - b
  OBVIOUS

-----------------------------------------------------------------------------
(* Codec negotiation *)

\* The tier that codec_stub.cpp:42-57 gives for the tiers that the sender encodes
\* and the receiver decodes, whoever computes it.
Best(both) ==
    IF kAv1 \in both THEN kAv1
    ELSE IF kHevc420 \in both THEN (IF kHevc444 \in both THEN kHevc444 ELSE kHevc420)
    ELSE IF kH264 \in both THEN kH264 ELSE kNone

\* It is the maximum that proto::negotiateTier() takes, for the tiers that the
\* two ends advertise.
LEMMA BestIsHighest ==
    ASSUME NEW enc \in SUBSET Tiers, NEW dec \in SUBSET Tiers
    PROVE  /\ Best(enc \cap dec) \in Tiers \cup {kNone}
           /\ Best(enc \cap dec) = negotiateTier(Advertised(enc), Advertised(dec))
<1> USE DEF Tiers, kNone, kH264, kHevc420, kHevc444, kAv1
<1> DEFINE S == (Advertised(enc) \cap Advertised(dec)) \cup {kNone}
<1>1. S \in SUBSET Int /\ Best(enc \cap dec) \in S /\ Best(enc \cap dec) \in Tiers \cup {kNone}
  BY DEF Best, Advertised
<1>2. \A y \in S : Best(enc \cap dec) >= y
  BY DEF Best, Advertised
<1>3. negotiateTier(Advertised(enc), Advertised(dec)) = Max(S)
  BY DEF negotiateTier
<1> HIDE DEF S
<1>4. QED BY <1>1, <1>2, <1>3, MaxIs

\* An end that has chosen has chosen the best common tier of the capabilities
\* that were exchanged, and a message has the count that was computed for it.
SetupInv ==
    /\ phase = "framing" => codec = [side \in Sides |-> Unset]
    /\ phase = "hello" => \A side \in Sides :
          codec[side] # Unset => codec[side] = Best(caps["sender"].enc \cap caps["receiver"].dec)
    /\ message.count = fragmentCount(message.total, message.budget)

\* The target within its bounds, and hence bounds that std::clamp accepts.
RatesInOrder == min_kbps <= target_kbps /\ target_kbps <= max_kbps

\* Both points of view give the same tier: each end swaps the roles of the two
\* capability records.
LEMMA NegotiatedBest ==
    ASSUME NEW side \in Sides
    PROVE  negotiateCodec(caps[side], caps[Other(side)], side = "sender")
             = Best(caps["sender"].enc \cap caps["receiver"].dec)
  BY DEF negotiateCodec, Best, Sides, Other

-----------------------------------------------------------------------------
(* The controller *)

\* std::clamp between bounds that are in order.
LEMMA BoundsKept ==
    ASSUME NEW low \in 0..(Width - 1), NEW high \in 0..(Width - 1), NEW rate \in Int,
           low <= high
    PROVE  /\ Clamp(rate, low, high) \in 0..(Width - 1)
           /\ low <= Clamp(rate, low, high) /\ Clamp(rate, low, high) <= high
  BY RatesAssumption DEF Clamp

\* The part of the type invariant that the controller needs.
Rates == min_kbps \in 0..(Width - 1) /\ target_kbps \in 0..(Width - 1) /\ max_kbps \in 0..(Width - 1)

\* transport_stub.cpp:124-139: what one report does to the target.
LEMMA FeedbackStep ==
    ASSUME Rates, RatesInOrder, NEW r \in Reports, onFeedback(r)
    PROVE  Rates' /\ RatesInOrder' /\ min_kbps' = min_kbps /\ max_kbps' = max_kbps
           /\ (Overuse(r) => target_kbps' <= target_kbps
                   /\ (target_kbps' = min_kbps \/ target_kbps' < target_kbps))
           /\ (~Overuse(r) /\ LossLow(r) /\ target_kbps + Increase < Width =>
                   target_kbps' = max_kbps \/ target_kbps' = target_kbps + Increase)
           /\ (~Overuse(r) /\ ~LossLow(r) => target_kbps' = target_kbps)
<1>1. /\ Width \in Nat /\ Increase \in Nat /\ Width > 0 /\ Increase > 0
      /\ min_kbps \in Nat /\ target_kbps \in Nat /\ max_kbps \in Nat
      /\ min_kbps <= target_kbps /\ target_kbps <= max_kbps /\ max_kbps < Width
      /\ target_kbps' = Clamp(Adjusted(r), min_kbps, max_kbps)
      /\ min_kbps' = min_kbps /\ max_kbps' = max_kbps
  BY RatesAssumption DEF Rates, RatesInOrder, onFeedback
<1>2. CASE Overuse(r)
  <2>1. Adjusted(r) = (target_kbps * 17) \div 20
    BY <1>2 DEF Adjusted
  <2>2. Adjusted(r) \in Nat /\ (target_kbps = 0 \/ Adjusted(r) < target_kbps) /\ Adjusted(r) <= target_kbps
    BY <1>1, <2>1
  <2>3. QED BY <1>1, <1>2, <2>2 DEF Clamp, Rates, RatesInOrder
<1>3. CASE ~Overuse(r) /\ LossLow(r)
  <2>1. Adjusted(r) = (target_kbps + Increase) % Width
    BY <1>3 DEF Adjusted
  <2>2. Adjusted(r) \in Nat /\ (target_kbps + Increase < Width => Adjusted(r) = target_kbps + Increase)
    BY <1>1, <2>1
  <2>3. QED BY <1>1, <1>3, <2>2 DEF Clamp, Rates, RatesInOrder
<1>4. CASE ~Overuse(r) /\ ~LossLow(r)
  <2>1. Adjusted(r) = target_kbps
    BY <1>4 DEF Adjusted
  <2>2. QED BY <1>1, <1>4, <2>1 DEF Clamp, Rates, RatesInOrder
<1>5. QED BY <1>2, <1>3, <1>4

\* transport_stub.cpp:143-147: bounds are in order after setBitrateBounds(), even
\* when the caller passes them swapped.
LEMMA TuneStep ==
    ASSUME Rates, NEW b \in Bounds, setBitrateBounds(b[1], b[2])
    PROVE  Rates' /\ RatesInOrder'
<1>1. b[1] \in 0..(Width - 1) /\ b[2] \in 0..(Width - 1) /\ Width \in Nat
  BY ControlAssumption, RatesAssumption
<1>2. Max({b[2], b[1]}) = IF b[1] <= b[2] THEN b[2] ELSE b[1]
  BY <1>1, MaxOfTwo
<1>3. /\ min_kbps' = b[1] /\ max_kbps' = (IF b[1] <= b[2] THEN b[2] ELSE b[1])
      /\ target_kbps' = Clamp(target_kbps, min_kbps', max_kbps')
  BY <1>2 DEF setBitrateBounds
<1>4. QED BY <1>1, <1>3 DEF Rates, RatesInOrder, Clamp

\* What the thresholds make of each kind of report.  A sum of the packet counts
\* that wraps is below both, so the ratio comes out too large.
LEMMA ReportKinds ==
    ASSUME NEW r \in Reports
    PROVE  /\ Kind(r) \in {"congested", "flood"} => Overuse(r)
           /\ Kind(r) = "clear" => ~Overuse(r) /\ LossLow(r)
           /\ Kind(r) = "mixed" => ~Overuse(r) /\ ~LossLow(r)
<1> DEFINE sent == r.lost + r.received
<1>1. /\ r.lost \in Nat /\ r.received \in Nat /\ Width \in Nat \ {0}
      /\ r.lost < Width /\ r.received < Width /\ sent \in Nat
  BY ControlAssumption, RatesAssumption
<1>2. ASSUME sent < Width PROVE Total(r) = sent
  BY <1>1, <1>2, Remainder DEF Total
<1>3. ASSUME sent >= Width PROVE Overuse(r)
  <2>1. Total(r) \in Int /\ Total(r) <= sent - Width
    <3>1. Width <= sent
      BY <1>1, <1>3
    <3> HIDE DEF sent
    <3>2. sent % Width \in 0..(Width - 1) /\ sent % Width <= sent - Width
      BY <1>1, <3>1, Remainder, Zenon
    <3>3. sent % Width \in Int
      BY <1>1, <3>2
    <3>4. QED BY <3>2, <3>3 DEF Total, sent
  <2>2. QED BY <1>1, <1>3, <2>1 DEF Overuse, LossHigh
<1>4. CASE sent >= Width
  BY <1>3, <1>4 DEF Kind
<1>5. CASE sent < Width
  BY <1>1, <1>2, <1>5 DEF Kind, Overuse, LossHigh, LossLow
<1>6. QED BY <1>1, <1>4, <1>5

-----------------------------------------------------------------------------
(* The inductive invariant *)

\* Each conjunct needs the types, and only them, to be kept by every step.
ControlInv == ControlTypeOK /\ SetupInv /\ RatesInOrder

\* fragmentCount() returns a uint16_t.
LEMMA FragmentType ==
    ASSUME NEW total \in 0..(Word - 1), NEW budget \in 0..Half
    PROVE  fragmentCount(total, budget) \in 0..(Half - 1)
<1>1. Word \in Nat \ {0} /\ Half \in Nat \ {0} /\ Half >= 2
  BY WidthAssumption
<1>2. CASE budget = 0 \/ total = 0
  BY <1>1, <1>2 DEF fragmentCount
<1>3. CASE budget # 0 /\ total # 0
  <2> DEFINE x == (total + budget - 1) % Word
  <2>1. x \in Nat
    BY <1>1, <1>3, Remainder
  <2> HIDE DEF x
  <2>2. x \div budget \in Nat
    BY <1>1, <1>3, <2>1, Quotient
  <2>3. (x \div budget) % Half \in 0..(Half - 1)
    BY <1>1, <2>2, Remainder
  <2>4. QED BY <1>3, <2>3 DEF fragmentCount, x
<1>4. QED BY <1>2, <1>3

\* Every step of the set-up and of the controller keeps the invariant.
LEMMA ControlNextInv == ControlInv /\ [ControlNext]_controlVars => ControlInv'
<1> SUFFICES ASSUME ControlInv, [ControlNext]_controlVars PROVE ControlInv'
  OBVIOUS
<1> USE DEF ControlInv
<1>0. /\ Rates /\ RatesInOrder
      /\ NoMessage \in [total : 0..(Word - 1), budget : 0..Half, count : 0..(Half - 1)]
      /\ NoMessage.count = fragmentCount(NoMessage.total, NoMessage.budget)
      /\ NoCaps \in [Sides -> [enc : SUBSET Tiers, dec : SUBSET Tiers]]
  BY WidthAssumption DEF ControlTypeOK, Rates, NoMessage, NoCaps, fragmentCount
<1>1. CASE Fragment
  <2>1. PICK total \in 0..(Word - 1), mtu \in 0..(Overhead + Half) :
          message' = [total |-> total, budget |-> usablePayloadBudget(mtu),
                      count |-> fragmentCount(total, usablePayloadBudget(mtu))]
    BY <1>1 DEF Fragment
  <2>2. usablePayloadBudget(mtu) \in 0..Half
    BY WidthAssumption DEF usablePayloadBudget
  <2>3. /\ message' \in [total : 0..(Word - 1), budget : 0..Half, count : 0..(Half - 1)]
        /\ message'.count = fragmentCount(message'.total, message'.budget)
    BY <2>1, <2>2, FragmentType
  <2>4. UNCHANGED <<controller, phase, caps, codec, link, tunes>>
    BY <1>1 DEF Fragment
  <2>5. QED BY <2>3, <2>4 DEF ControlTypeOK, SetupInv, RatesInOrder, controller
<1>2. CASE Hello
  <2>1. caps' \in [Sides -> [enc : SUBSET Tiers, dec : SUBSET Tiers]]
    BY <1>2 DEF Hello
  <2>2. /\ phase = "framing" /\ phase' = "hello" /\ message' = NoMessage
        /\ UNCHANGED <<controller, codec, link, tunes>>
    BY <1>2 DEF Hello
  <2>3. \A side \in Sides : codec'[side] = Unset
    BY <2>2 DEF SetupInv
  <2>4. QED BY <1>0, <2>1, <2>2, <2>3 DEF ControlTypeOK, SetupInv, RatesInOrder, controller
<1>3. ASSUME NEW side \in Sides, Negotiate(side) PROVE ControlInv'
  <2> DEFINE best == Best(caps["sender"].enc \cap caps["receiver"].dec)
  <2>1. /\ phase = "hello" /\ codec' = [codec EXCEPT ![side] = best]
        /\ UNCHANGED <<controller, phase, message, caps, link, tunes>>
    BY <1>3, NegotiatedBest DEF Negotiate
  <2>2. best \in Tiers \cup {kNone}
    <3>1. caps["sender"].enc \in SUBSET Tiers /\ caps["receiver"].dec \in SUBSET Tiers
      BY DEF ControlTypeOK, Sides
    <3>2. QED BY <3>1, BestIsHighest
  <2> HIDE DEF best
  <2>3. codec' \in [Sides -> Tiers \cup {kNone, Unset}]
    BY <2>1, <2>2 DEF ControlTypeOK
  <2>4. SetupInv'
    BY <2>1 DEF SetupInv, ControlTypeOK, best
  <2>5. QED BY <2>1, <2>3, <2>4 DEF ControlTypeOK, RatesInOrder, controller
<1>4. CASE Stream \/ Refuse
  BY <1>0, <1>4 DEF Stream, Refuse, ControlTypeOK, SetupInv, RatesInOrder, controller
<1>5. CASE LinkChanges
  BY <1>5 DEF LinkChanges, Links, ControlTypeOK, SetupInv, RatesInOrder, controller, setup
<1>6. CASE Feedback
  <2>1. PICK r \in Reports : onFeedback(r)
    BY <1>6 DEF Feedback
  <2>2. Rates' /\ RatesInOrder'
    BY <1>0, <2>1, FeedbackStep
  <2>3. UNCHANGED <<setup, link, tunes>>
    BY <1>6 DEF Feedback
  <2>4. QED BY <2>2, <2>3 DEF ControlTypeOK, SetupInv, Rates, setup
<1>7. CASE Tune
  <2>1. PICK b \in Bounds : setBitrateBounds(b[1], b[2])
    BY <1>7 DEF Tune
  <2>2. Rates' /\ RatesInOrder'
    BY <1>0, <2>1, TuneStep
  <2>3. UNCHANGED <<setup, link>> /\ tunes' \in 0..MaxTunes
    BY <1>7, ControlAssumption DEF Tune, ControlTypeOK
  <2>4. QED BY <2>2, <2>3 DEF ControlTypeOK, SetupInv, Rates, setup
<1>8. CASE UNCHANGED controlVars
  BY <1>8 DEF controlVars, ControlTypeOK, SetupInv, RatesInOrder, controller, setup
<1>9. QED BY <1>1, <1>2, <1>3, <1>4, <1>5, <1>6, <1>7, <1>8 DEF ControlNext

\* The invariant holds in every state.
LEMMA ControlInvariant == ControlSpec => []ControlInv
<1>1. ControlInit => ControlInv
  <2> SUFFICES ASSUME ControlInit PROVE ControlInv
    OBVIOUS
  <2>1. Rates /\ RatesInOrder
    BY RatesAssumption DEF ControlInit, ControllerInit, Rates, RatesInOrder
  <2>2. /\ message \in [total : 0..(Word - 1), budget : 0..Half, count : 0..(Half - 1)]
        /\ message.count = fragmentCount(message.total, message.budget)
        /\ caps \in [Sides -> [enc : SUBSET Tiers, dec : SUBSET Tiers]]
    BY WidthAssumption DEF ControlInit, NoMessage, NoCaps, fragmentCount
  <2>3. QED BY <2>1, <2>2, ControlAssumption
        DEF ControlInit, Links, ControlInv, ControlTypeOK, SetupInv, Rates
<1>2. QED BY <1>1, ControlNextInv, PTL DEF ControlSpec

-----------------------------------------------------------------------------
(* Theorems about set-up and rate *)

\* The set-up and the controller stay within their types: counts fit uint16_t,
\* rates uint32_t (transport.proto.h:193-198, transport_stub.cpp:124-147).
THEOREM ControlTypeCorrect == ControlSpec => []ControlTypeOK
<1>1. ControlInv => ControlTypeOK
  BY DEF ControlInv
<1>2. QED BY <1>1, ControlInvariant, PTL

\* codec_stub.cpp:32-60: for every pair of capability records and whichever end
\* computes first, both have one tier, the best that both can use.
THEOREM NegotiationAlwaysAgreed == ControlSpec => []NegotiationAgreed
<1>1. ControlInv => NegotiationAgreed
  <2> SUFFICES ASSUME ControlInv, phase = "hello", NEW side \in Sides, codec[side] # Unset
               PROVE  codec[side] = negotiateTier(Advertised(caps["sender"].enc),
                                                  Advertised(caps["receiver"].dec))
    BY DEF NegotiationAgreed
  <2>1. caps["sender"].enc \in SUBSET Tiers /\ caps["receiver"].dec \in SUBSET Tiers
    BY DEF ControlInv, ControlTypeOK, Sides
  <2>2. codec[side] = Best(caps["sender"].enc \cap caps["receiver"].dec)
    BY DEF ControlInv, SetupInv
  <2>3. QED BY <2>1, <2>2, BestIsHighest
<1>2. QED BY <1>1, ControlInvariant, PTL

\* transport.proto.h:193-198 for all widths: below the two limits nothing wraps
\* and the count is the quotient rounded up.
LEMMA FragmentArithmetic ==
    ASSUME NEW total \in 1..(Word - 1), NEW budget \in 1..Half,
           total + budget <= Word, total <= (Half - 1) * budget
    PROVE  LET count == fragmentCount(total, budget) IN
           Covers(count, total, budget) /\ (count <= 1 <=> total <= budget)
<1> DEFINE sum == total + budget - 1
           frames == sum \div budget
           count == fragmentCount(total, budget)
<1>1. /\ Word \in Nat \ {0} /\ Half \in Nat \ {0}
      /\ total \in Nat \ {0} /\ budget \in Nat \ {0}
      /\ sum \in Nat /\ sum = total + budget - 1 /\ sum < Word
  BY WidthAssumption
<1>2. count = ((sum % Word) \div budget) % Half
  BY <1>1 DEF fragmentCount
<1> HIDE DEF count, sum
<1>3. frames \in Nat /\ frames * budget <= sum /\ sum < frames * budget + budget
  BY <1>1, Quotient
<1>4. count = frames % Half
  BY <1>1, <1>2, Remainder
<1> HIDE DEF frames
<1>5. frames * budget \in Nat /\ (frames - 1) * budget = frames * budget - budget
  BY <1>1, <1>3
<1>6. frames < Half
  <2>1. (frames - 1) * budget < (Half - 1) * budget
    <3>1. (Half - 1) * budget \in Nat
      BY <1>1
    <3>2. QED BY <1>1, <1>3, <1>5, <3>1
  <2>2. ASSUME frames >= Half PROVE (frames - 1) * budget >= (Half - 1) * budget
    BY <1>1, <1>3, <2>2
  <2>3. (frames - 1) * budget \in Int /\ (Half - 1) * budget \in Int
    BY <1>1, <1>3
  <2>4. QED BY <1>1, <1>3, <2>1, <2>2, <2>3
<1>7. count = frames
  BY <1>1, <1>3, <1>4, <1>6, Remainder
<1>8. frames * budget >= total /\ (frames - 1) * budget < total
  BY <1>1, <1>3, <1>5
<1>9. ASSUME total <= budget PROVE frames <= 1
  <2>1. frames >= 2 => frames * budget >= 2 * budget
    BY <1>1, <1>3
  <2>2. QED BY <1>1, <1>3, <1>9, <2>1
<1>10. ASSUME frames <= 1 PROVE total <= budget
  <2>1. frames = 0 \/ frames = 1
    BY <1>3, <1>10
  <2>2. 0 * budget = 0 /\ 1 * budget = budget
    BY <1>1
  <2>3. QED BY <1>1, <1>8, <2>1, <2>2
<1>11. QED BY <1>7, <1>8, <1>9, <1>10 DEF count, Covers

\* transport.proto.h:184-198: for all widths, sizes and budgets within the two
\* limits the frames hold the message and none is superfluous.
THEOREM FragmentsAlwaysCover == ControlSpec => []FragmentsCover
<1>1. ControlInv => FragmentsCover
  <2> SUFFICES ASSUME ControlInv, message.budget > 0, message.total > 0,
                      message.total + message.budget <= Word,
                      message.total <= (Half - 1) * message.budget
               PROVE  /\ Covers(message.count, message.total, message.budget)
                      /\ isWholeMessage(message.count, FALSE) <=> message.total <= message.budget
    BY DEF FragmentsCover
  <2>1. message.total \in 1..(Word - 1) /\ message.budget \in 1..Half
    BY WidthAssumption DEF ControlInv, ControlTypeOK
  <2>2. message.count = fragmentCount(message.total, message.budget)
    BY DEF ControlInv, SetupInv
  <2>3. QED BY <2>1, <2>2, FragmentArithmetic DEF isWholeMessage
<1>2. QED BY <1>1, ControlInvariant, PTL

\* A report of the link as it is moves the target the right way, by a whole step.
LEMMA FeedbackResponds ==
    ASSUME ControlInv, Feedback
    PROVE  /\ link \in {"congested", "flood"} =>
                 /\ target_kbps' <= target_kbps
                 /\ target_kbps' = min_kbps \/ target_kbps' < target_kbps
           /\ link = "clear" /\ target_kbps + Increase < Width =>
                 /\ target_kbps' >= target_kbps
                 /\ target_kbps' = max_kbps \/ target_kbps' = target_kbps + Increase
           /\ link = "mixed" => target_kbps' = target_kbps
<1>1. Rates /\ RatesInOrder
  BY DEF ControlInv, ControlTypeOK, Rates
<1>2. PICK r \in Reports : Kind(r) = link /\ onFeedback(r)
  BY DEF Feedback
<1>3. Increase \in Nat /\ target_kbps \in Int /\ target_kbps <= max_kbps
  BY <1>1, RatesAssumption DEF Rates, RatesInOrder
<1>4. CASE link \in {"congested", "flood"}
  BY <1>1, <1>2, <1>4, ReportKinds, FeedbackStep
<1>5. CASE link = "clear"
  <2>1. ~Overuse(r) /\ LossLow(r)
    BY <1>2, <1>5, ReportKinds
  <2>2. target_kbps + Increase < Width =>
           target_kbps' = max_kbps \/ target_kbps' = target_kbps + Increase
    BY <1>1, <1>2, <2>1, FeedbackStep
  <2>3. QED BY <1>3, <1>5, <2>2
<1>6. CASE link = "mixed"
  BY <1>1, <1>2, <1>6, ReportKinds, FeedbackStep
<1>7. QED BY <1>4, <1>5, <1>6

\* transport_stub.cpp:124-147, for every report: the target never leaves its
\* bounds, congestion never raises it, a clear link never lowers it short of the
\* width, and one in between leaves it alone.
THEOREM RateAlwaysResponds == ControlSpec => RateResponds
<1> DEFINE Responds ==
        /\ min_kbps' <= target_kbps' /\ target_kbps' <= max_kbps'
        /\ (Feedback /\ link \in {"congested", "flood"}) => target_kbps' <= target_kbps
        /\ (Feedback /\ link = "clear") =>
               target_kbps' >= target_kbps \/ target_kbps + Increase >= Width
        /\ (Feedback /\ link = "mixed") => target_kbps' = target_kbps
<1>1. ControlInv /\ ControlInv' /\ [ControlNext]_controlVars => [Responds]_controlVars
  <2> SUFFICES ASSUME ControlInv, ControlInv' PROVE Responds
    OBVIOUS
  <2>1. min_kbps' <= target_kbps' /\ target_kbps' <= max_kbps'
    BY DEF ControlInv, RatesInOrder
  <2>2. target_kbps \in Int /\ Increase \in Int /\ Width \in Int
    BY RatesAssumption DEF ControlInv, ControlTypeOK
  <2>3. QED BY <2>1, <2>2, FeedbackResponds
<1>2. ControlSpec => [][Responds]_controlVars
  BY <1>1, ControlInvariant, PTL DEF ControlSpec
<1>3. QED BY <1>2 DEF RateResponds

\* transport_stub.cpp:133-138: a report of a congested link leaves the target
\* strictly lower unless it is at the floor, and one of a clear link a full step
\* higher unless it reaches the ceiling: the variant from which RateConverges
\* follows when reports keep coming.
RateProgress ==
    [][Feedback =>
         /\ link = "congested" => target_kbps' = min_kbps \/ target_kbps' < target_kbps
         /\ link = "clear" /\ max_kbps + Increase < Width =>
               target_kbps' = max_kbps \/ target_kbps' = target_kbps + Increase]_controlVars

\* transport_stub.cpp:133-138: no report is lost to rounding; a decrease that
\* rounded up would stop above the floor.
THEOREM RateAlwaysProgresses == ControlSpec => RateProgress
<1> DEFINE Progresses ==
        Feedback =>
         /\ link = "congested" => target_kbps' = min_kbps \/ target_kbps' < target_kbps
         /\ link = "clear" /\ max_kbps + Increase < Width =>
               target_kbps' = max_kbps \/ target_kbps' = target_kbps + Increase
<1>1. ControlInv /\ [ControlNext]_controlVars => [Progresses]_controlVars
  <2> SUFFICES ASSUME ControlInv PROVE Progresses
    OBVIOUS
  <2>1. max_kbps + Increase < Width => target_kbps + Increase < Width
    BY RatesAssumption DEF ControlInv, ControlTypeOK, RatesInOrder
  <2>2. QED BY <2>1, FeedbackResponds
<1>2. ControlSpec => [][Progresses]_controlVars
  BY <1>1, ControlInvariant, PTL DEF ControlSpec
<1>3. QED BY <1>2 DEF RateProgress

=============================================================================
