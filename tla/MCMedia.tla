------------------------------- MODULE MCMedia -------------------------------
(* Model-checking instance of the media path and of its set-up and rate.     *)
(* They share no state, and no property here relates them, so a behaviour of *)
(* one is checked without steps of the other: `part` says which one runs.    *)
(*                                                                           *)
(* Path: captures of two frames, callbacks nested three deep, both ends of   *)
(* the pair.  Control: rates wrap at 64, with a ceiling that reaches the     *)
(* wrap; there are reports of every kind, on both sides of each threshold.   *)
EXTENDS Media, MediaControl

VARIABLE part

MCInitRates == [min |-> 3, target |-> 8, max |-> 40]

Report(l, r, d) == [lost |-> l, received |-> r, late |-> d]
MCReports ==
    {Report(0, 9, FALSE), Report(1, 59, FALSE), Report(0, 0, FALSE)}          \* clear
    \cup {Report(1, 49, FALSE), Report(1, 9, FALSE)}                          \* mixed
    \cup {Report(1, 8, FALSE), Report(2, 9, FALSE), Report(0, 9, TRUE), Report(5, 0, TRUE)}
    \cup {Report(5, 0, FALSE)}                                                \* dead
    \cup {Report(55, 9, FALSE), Report(1, 63, FALSE)}                         \* flood

MCBounds == {<<5, 30>>, <<0, 63>>, <<12, 6>>}

MediaVars == <<vars, controlVars, part>>

MediaInit == Init /\ ControlInit /\ part \in {"path", "control"}

MediaNext ==
    \/ /\ part = "path"
       /\ Next
       /\ UNCHANGED <<controlVars, part>>
    \/ /\ part = "control"
       /\ ControlNext
       /\ UNCHANGED <<vars, part>>

\* The fairness of ControlSpec, while the control part runs.
MediaSpec ==
    MediaInit /\ [][MediaNext]_MediaVars /\ WF_controlVars(part = "control" /\ Feedback)

=============================================================================
