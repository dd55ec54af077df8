-------------------------- MODULE MCSessionController --------------------------
(* Model-checking instance of the session controller and its window alone:    *)
(* one lookup and one PIN are enough for a disconnect to come before the      *)
(* callbacks they left pending.                                               *)
EXTENDS ControllerWindow

CONSTANTS id1, id2, control, audio

MCIds == {id1, id2}
MCToggles == {control, audio}
MCDefaultOn == {control}

=============================================================================
