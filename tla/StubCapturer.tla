----------------------------- MODULE StubCapturer -----------------------------
(***************************************************************************)
(* The synthetic capturer (core/capture): a pump delivers one frame and,   *)
(* when the cursor is wanted, one cursor sample, by calling back.  The     *)
(* caller runs in between and may start or stop the capture there, so a    *)
(* pump is three steps: up to the frame callback, from its return up to    *)
(* the cursor callback, and from that one's return to the end.             *)
(***************************************************************************)
EXTENDS Naturals, Sequences

CONSTANT MaxIndex   \* bound: frames of one capture

ASSUME MaxIndexAssumption == MaxIndex \in Nat

VARIABLES
    capturing,        \* capturing_
    frame_index,      \* frame_index_
    capture_cursor,   \* config_.capture_cursor
    cursor_cb         \* a cursor callback is installed; set before start

capturer == <<capturing, frame_index, capture_cursor, cursor_cb>>

CapturerInit ==
    /\ capturing = FALSE /\ frame_index = 0 /\ capture_cursor = TRUE
    /\ cursor_cb \in BOOLEAN

\* A second start is refused.
start(cursor) ==
    /\ ~capturing
    /\ capturing' = TRUE
    /\ frame_index' = 0
    /\ capture_cursor' = cursor
    /\ UNCHANGED cursor_cb

stop == capturing' = FALSE /\ UNCHANGED <<frame_index, capture_cursor, cursor_cb>>

\* A slip: the shape goes out with the second sample.
CursorSampleLate == [cb |-> "cursor", shape |-> (frame_index = 1)]

\* The frame and the cursor sample of the current index; only the first sample
\* carries the cursor's shape.
Frame == [cb |-> "frame"]
CursorSample == [cb |-> "cursor", shape |-> (frame_index = 0)]

pump == capturing /\ frame_index <= MaxIndex
CursorWanted == cursor_cb /\ capture_cursor
pumpEnds == frame_index' = frame_index + 1 /\ UNCHANGED <<capturing, capture_cursor, cursor_cb>>

=============================================================================
