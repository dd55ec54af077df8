--------------------------- MODULE ControllerWindow ---------------------------
(***************************************************************************)
(* The rest of the UI's SessionController around the outbound session: the *)
(* status line and the remote id, which every step of a session rewrites   *)
(* and which errors of the service client and rejected input overwrite at  *)
(* any time; and the host role with its indicator, its unattended password *)
(* and its capability toggles, which no step of a session touches.         *)
(***************************************************************************)
EXTENDS SessionController

CONSTANTS
    Ids,         \* remote REDesk IDs a user types
    NoId,        \* the empty string
    Toggles,     \* the capability toggles
    DefaultOn    \* those that start switched on: control and clipboard

ASSUME WindowAssumption == NoId \notin Ids /\ DefaultOn \subseteq Toggles

VARIABLES
    remote_id,          \* remote_id_
    status,             \* status_text_: which text, and the id it was made with
    being_controlled,   \* being_controlled_
    controller_name,    \* controller_name_ is not empty
    unattended,         \* unattended_configured_
    allowed             \* the toggles that are on

display == <<remote_id, status>>
host == <<being_controlled, controller_name, unattended, allowed>>
windowVars == <<vars, display, host>>

Says(text, id) == [text |-> text, id |-> id]

WindowInit ==
    /\ Init
    /\ remote_id = NoId /\ status = Says("Ready", NoId)
    /\ being_controlled = FALSE /\ controller_name = FALSE
    /\ unattended = FALSE /\ allowed = DefaultOn

-----------------------------------------------------------------------------
(* The status line of the outbound session *)

ConnectToId(id) ==
    /\ connectToId
    /\ remote_id' = id
    /\ status' = Says("Resolving", id)
    /\ UNCHANGED host

\* An empty id is refused in every state, before the state is looked at.
ConnectToNothing ==
    /\ status' = Says("EnterId", NoId)
    /\ UNCHANGED <<vars, remote_id, host>>

OnResolved ==
    /\ onResolved
    /\ status' = IF state = "Resolving" THEN Says("EnterPin", NoId) ELSE status
    /\ UNCHANGED <<remote_id, host>>

EnterPin == enterPin /\ status' = Says("Verifying", NoId) /\ UNCHANGED <<remote_id, host>>

EnterEmptyPin ==
    /\ state = "Authenticating"
    /\ status' = Says("PinRequired", NoId)
    /\ UNCHANGED <<vars, remote_id, host>>

OnPinVerified ==
    /\ onPinVerified
    /\ status' = Says("Connecting", NoId)
    /\ UNCHANGED <<remote_id, host>>

\* The id is the one shown now, not the one the PIN was entered for.
OnTransportUp ==
    /\ onTransportUp
    /\ status' = Says("Connected", remote_id)
    /\ UNCHANGED <<remote_id, host>>

\* A slip: the text of the ended session stays.
DisconnectQuietly == disconnect /\ UNCHANGED <<display, host>>
\* remote_id_ keeps the id of the session that ended.
Disconnect == disconnect /\ status' = Says("Ready", NoId) /\ UNCHANGED <<remote_id, host>>

\* errorOccurred of the service client, whatever the session does.
ServiceError ==
    /\ status' = Says("Unavailable", NoId)
    /\ UNCHANGED <<vars, remote_id, host>>

-----------------------------------------------------------------------------
(* The host role *)

\* Blank passwords count as none.
setUnattendedPassword(blank) ==
    unattended' = ~blank /\ UNCHANGED <<being_controlled, controller_name, allowed>>
clearUnattendedPassword ==
    unattended' = FALSE /\ UNCHANGED <<being_controlled, controller_name, allowed>>

acceptIncoming ==
    /\ being_controlled' = TRUE /\ controller_name' = TRUE
    /\ UNCHANGED <<unattended, allowed>>
rejectIncoming ==
    /\ being_controlled' = FALSE /\ controller_name' = FALSE
    /\ UNCHANGED <<unattended, allowed>>

setAllowed(t, on) ==
    /\ allowed' = IF on THEN allowed \cup {t} ELSE allowed \ {t}
    /\ UNCHANGED <<being_controlled, controller_name, unattended>>

HostRole ==
    /\ \/ \E blank \in BOOLEAN : setUnattendedPassword(blank)
       \/ clearUnattendedPassword
       \/ acceptIncoming \/ rejectIncoming
       \/ \E t \in Toggles, on \in BOOLEAN : setAllowed(t, on)
    /\ UNCHANGED <<vars, display>>

WindowNext ==
    \/ \E id \in Ids : ConnectToId(id)
    \/ ConnectToNothing \/ OnResolved
    \/ EnterPin \/ EnterEmptyPin \/ OnPinVerified \/ OnTransportUp
    \/ Disconnect \/ ServiceError
    \/ HostRole

\* Timers fire while the event loop runs, as in the session's specification.
WindowSpec ==
    /\ WindowInit /\ [][WindowNext]_windowVars
    /\ WF_windowVars(OnResolved) /\ WF_windowVars(OnPinVerified)
    /\ WF_windowVars(OnTransportUp)

-----------------------------------------------------------------------------
(* Properties *)

\* The type of what the window adds; the indicator has a name to show exactly
\* when it is lit.
WindowTypeOK ==
    /\ remote_id \in Ids \cup {NoId} /\ status.id \in Ids \cup {NoId}
    /\ being_controlled \in BOOLEAN /\ controller_name = being_controlled
    /\ unattended \in BOOLEAN /\ allowed \subseteq Toggles

StateOf == [Ready |-> "Idle", Resolving |-> "Resolving", EnterPin |-> "Authenticating",
            PinRequired |-> "Authenticating", Verifying |-> "Authenticating",
            Connecting |-> "Connecting", Connected |-> "Connected"]

\* The status line never describes a state the session has left: whichever of
\* the callbacks of several sessions fires, a text that tells a state tells the
\* present one, names the id that remoteId shows, and says Verifying only while
\* a PIN is being verified (SessionController.cpp:54-118).
StatusCurrent ==
    status.text \in DOMAIN StateOf =>
        /\ state = StateOf[status.text]
        /\ status.id # NoId => status.id = remote_id
        /\ status.text = "Verifying" => pin_timers > 0

=============================================================================
