------------------------------ MODULE StubCodec ------------------------------
(***************************************************************************)
(* The pass-through encoder and decoder (core/codec).  What an encoder     *)
(* keeps between frames is whether the next packet must be a keyframe;     *)
(* what it emits is the frame behind a header, which the decoder takes     *)
(* off again.  configure() replaces bitrate and codec and leaves the       *)
(* keyframe flags alone.                                                   *)
(***************************************************************************)
EXTENDS Naturals

VARIABLES
    force_keyframe,   \* force_keyframe_
    first_frame       \* first_frame_

encoder == <<force_keyframe, first_frame>>

EncoderInit == force_keyframe = FALSE /\ first_frame = TRUE

\* Whether the packet of this frame is a keyframe, and the packet as its callback
\* sees it: it fits one transport message or it does not.
Keyframe == force_keyframe \/ first_frame
Packet(fits) == [cb |-> "packet", fits |-> fits]

\* The flags are cleared, before the packet callback runs.
encode == force_keyframe' = FALSE /\ first_frame' = FALSE

\* A slip: the flags are cleared when the packet is out.
encodeReturnsClearing == force_keyframe' = FALSE /\ first_frame' = FALSE
\* Nothing is left to do when the callback returns.
encodeReturns == UNCHANGED encoder

\* Also forceIntraRefresh, which falls back to a keyframe.
requestKeyframe == force_keyframe' = TRUE /\ UNCHANGED first_frame

\* A slip: the payload is taken as it comes, whatever length the header says.
DecodesPart(p) == TRUE
\* The header's magic and length must be there, and all of the payload.
Decodes(p) == p.whole

=============================================================================
