-------------------------------- MODULE MCUi --------------------------------
(* Model-checking instance of the objects behind the desktop UI: the session *)
(* controller and its window, the local screen preview and the client of     *)
(* the service's channel.  They share no state, and no property here relates *)
(* two of them, so a behaviour of one is checked without steps of the        *)
(* others: `object` says which one runs.                                     *)
(*                                                                           *)
(* Window: the callbacks of an abandoned session, of its successor to        *)
(* another id and of a doubly submitted PIN are all pending together; one    *)
(* toggle starts switched on, one off.  Screen: three captures, so that one  *)
(* that outlived its stop() meets a later one and that one a still later     *)
(* one; two samples each, so that one is posted while the next is being      *)
(* converted.  Client: bytes have two values and a length two bytes, so that *)
(* a length is too small (0), good (1, 2) or too large (3), and may itself   *)
(* arrive in two pieces.                                                     *)
EXTENDS ControllerWindow, LocalScreen, ServiceClient

CONSTANTS id1, id2, control, audio

VARIABLE object

MCIds == {id1, id2}
MCToggles == {control, audio}
MCDefaultOn == {control}

UiVars == <<windowVars, screenVars, clientVars, object>>

UiInit ==
    /\ WindowInit /\ ScreenInit /\ ClientInit
    /\ object \in {"window", "screen", "client"}
    /\ object # "screen" => native

UiNext ==
    \/ /\ object = "window"
       /\ WindowNext
       /\ UNCHANGED <<screenVars, clientVars, object>>
    \/ /\ object = "screen"
       /\ ScreenNext
       /\ UNCHANGED <<windowVars, clientVars, object>>
    \/ /\ object = "client"
       /\ ClientNext
       /\ UNCHANGED <<windowVars, screenVars, object>>

\* The fairness of each object's own specification, for the one that runs.
UiSpec ==
    /\ UiInit /\ [][UiNext]_UiVars
    /\ WF_windowVars(object = "window" /\ OnResolved)
    /\ WF_windowVars(object = "window" /\ OnPinVerified)
    /\ WF_windowVars(object = "window" /\ OnTransportUp)
    /\ WF_screenVars(object = "screen" /\ Waits)
    /\ WF_screenVars(object = "screen" /\ deliverFrame)
    /\ WF_clientVars(object = "client" /\ onReadyRead)
    /\ WF_clientVars(object = "client" /\ drainFrames)

=============================================================================
