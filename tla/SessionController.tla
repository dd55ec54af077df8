--------------------------- MODULE SessionController ---------------------------
(***************************************************************************)
(* The outbound (controller) session of the desktop UI: SessionController  *)
(* and the view stack of Main.qml that its signals drive.                  *)
(*                                                                         *)
(* The slots run on the Qt event loop, in any order the user chooses; each *)
(* step of a session is a single-shot timer whose callback runs later on   *)
(* the same loop.  Timers cannot be cancelled, so callbacks of an earlier  *)
(* session may be pending in a later one.  What is kept of a timer is its  *)
(* kind: Qt promises "not before", and a user acts at any time, so any     *)
(* pending callback may be next.  The remote id and the status text are    *)
(* display only.                                                           *)
(***************************************************************************)
EXTENDS Integers

CONSTANTS
    MaxPins,     \* bound: PINs accepted for verification
    MaxResolves  \* bound: resolve timers pending at once

ASSUME BoundsAssumption == MaxPins \in Nat /\ MaxResolves \in Nat

VARIABLES
    state,           \* state_
    pin_required,    \* pin_required_
    resolve_timers,  \* pending 450 ms callbacks of connectToId
    pin_timers,      \* pending 350 ms callbacks of enterPin
    connect_timers,  \* pending 500 ms callbacks started by those
    views,           \* SessionViews on the stack above the home page
    pins,            \* history: PINs accepted for verification
    started          \* history: sessionStarted signals

timers == <<resolve_timers, pin_timers, connect_timers>>
vars == <<state, pin_required, timers, views, pins, started>>

SessionState == {"Idle", "Resolving", "Authenticating", "Connecting", "Connected", "Failed"}

Init ==
    /\ state = "Idle"
    /\ pin_required = FALSE
    /\ resolve_timers = 0 /\ pin_timers = 0 /\ connect_timers = 0
    /\ views = 0
    /\ pins = 0
    /\ started = 0

\* A slip: the lookup is announced and never started.
connectToIdNoTimer ==
    /\ state \in {"Idle", "Failed"}
    /\ state' = "Resolving"
    /\ UNCHANGED <<pin_required, timers, views, pins, started>>

\* A non-empty id (an empty one only changes the status text).
connectToId ==
    /\ state \in {"Idle", "Failed"}
    /\ resolve_timers < MaxResolves
    /\ state' = "Resolving"
    /\ resolve_timers' = resolve_timers + 1
    /\ UNCHANGED <<pin_required, pin_timers, connect_timers, views, pins, started>>

\* A slip: the PIN prompt is skipped.
onResolvedNoPin ==
    /\ resolve_timers > 0
    /\ resolve_timers' = resolve_timers - 1
    /\ IF state = "Resolving"
       THEN state' = "Connecting" /\ connect_timers' = connect_timers + 1
       ELSE UNCHANGED <<state, connect_timers>>
    /\ UNCHANGED <<pin_required, pin_timers, views, pins, started>>

\* The callback of connectToId: guarded by the state, not by which connect
\* started it.
onResolved ==
    /\ resolve_timers > 0
    /\ resolve_timers' = resolve_timers - 1
    /\ IF state = "Resolving"
       THEN state' = "Authenticating" /\ pin_required' = TRUE
       ELSE UNCHANGED <<state, pin_required>>
    /\ UNCHANGED <<pin_timers, connect_timers, views, pins, started>>

\* A non-empty PIN.  The state stays Authenticating until the callback, so a
\* PIN may be submitted again.
enterPin ==
    /\ state = "Authenticating"
    /\ pins < MaxPins
    /\ pins' = pins + 1
    /\ pin_timers' = pin_timers + 1
    /\ UNCHANGED <<state, pin_required, resolve_timers, connect_timers, views, started>>

\* A slip: the second timer is not started.
onPinVerifiedStuck ==
    /\ pin_timers > 0
    /\ pin_timers' = pin_timers - 1
    /\ pin_required' = FALSE
    /\ state' = "Connecting"
    /\ UNCHANGED <<resolve_timers, connect_timers, views, pins, started>>

\* The callback of enterPin: no guard.
onPinVerified ==
    /\ pin_timers > 0
    /\ pin_timers' = pin_timers - 1
    /\ connect_timers' = connect_timers + 1
    /\ pin_required' = FALSE
    /\ state' = "Connecting"
    /\ UNCHANGED <<resolve_timers, views, pins, started>>

\* The inner callback: no guard.  sessionStarted pushes a SessionView.
onTransportUp ==
    /\ connect_timers > 0
    /\ connect_timers' = connect_timers - 1
    /\ state' = "Connected"
    /\ started' = started + 1
    /\ views' = views + 1
    /\ UNCHANGED <<pin_required, resolve_timers, pin_timers, pins>>

\* Timers are left pending.  sessionEnded pops one view, if there is one.
disconnect ==
    /\ state # "Idle"
    /\ state' = "Idle"
    /\ pin_required' = FALSE
    /\ views' = IF views > 0 THEN views - 1 ELSE 0
    /\ UNCHANGED <<timers, pins, started>>

Next ==
    \/ connectToId \/ onResolved
    \/ enterPin \/ onPinVerified \/ onTransportUp
    \/ disconnect

\* Pending single-shot timers fire while the event loop runs.  Nothing makes
\* the user act.
Spec ==
    /\ Init /\ [][Next]_vars
    /\ WF_vars(onResolved) /\ WF_vars(onPinVerified) /\ WF_vars(onTransportUp)

-----------------------------------------------------------------------------
(* Properties *)

\* The type of every variable.
TypeOK ==
    /\ state \in SessionState
    /\ pin_required \in BOOLEAN
    /\ resolve_timers \in 0..MaxResolves
    /\ pin_timers \in Nat /\ connect_timers \in Nat
    /\ views \in Nat /\ pins \in Nat /\ started \in Nat

\* No session without a PIN of its own (SessionController.cpp:82-106): however
\* the slots and the callbacks of several sessions interleave, sessions that
\* were started and sessions on their way are at most as many as the PINs
\* accepted.  Not that each PIN must lead to one: a disconnect may come first.
PinPerSession == started + connect_timers + pin_timers <= pins

\* A state that only a callback leaves has that callback pending, also when
\* callbacks of earlier sessions fired out of turn.
NoStuckState ==
    /\ state = "Resolving" => resolve_timers > 0
    /\ state = "Connecting" => connect_timers > 0
    /\ state = "Authenticating" => pin_required

\* A verified PIN brings the session up, or the user ended it.
PinLeadsToSession == (pin_timers > 0) ~> (state \in {"Connected", "Idle"})

(* What a comment says and the code does not do. *)

\* SessionController.h:110, disconnect(): "Tear down the active/ pending
\* session": once torn down, only a new connect leaves Idle.
TornDownStaysDown ==
    [][state = "Idle" => state' \in {"Idle", "Resolving"}]_vars

=============================================================================
