------------------------------- MODULE UiProofs -------------------------------
(***************************************************************************)
(* Proofs about two parts of the user interface, the session controller    *)
(* and the local screen preview, for any number of PINs, timers, ids and   *)
(* toggles, of capturers and of samples: the safety part of their          *)
(* specifications, without the fairness.                                   *)
(***************************************************************************)
EXTENDS ControllerWindow, LocalScreen, TLAPS

-----------------------------------------------------------------------------
(* The session controller and the window around it.  A step of the window  *)
(* is a step of the session or leaves it alone, so what is proved of the   *)
(* session holds of the window.                                            *)

\* The types but the Boolean's, which the provers handle apart.
CountsOK ==
    /\ state \in SessionState
    /\ resolve_timers \in 0..MaxResolves
    /\ pin_timers \in Nat /\ connect_timers \in Nat
    /\ views \in Nat /\ pins \in Nat /\ started \in Nat

Inv == TypeOK /\ PinPerSession /\ NoStuckState

LEMMA NextInv == Inv /\ [Next]_vars => Inv'
<1> SUFFICES ASSUME Inv, [Next]_vars PROVE Inv'
  OBVIOUS
<1> USE BoundsAssumption DEF Inv, timers
<1>1. CASE connectToId
  <2>1. CountsOK'
    BY <1>1 DEF connectToId, TypeOK, CountsOK, SessionState
  <2>2. pin_required' \in BOOLEAN
    BY <1>1, Zenon DEF connectToId, TypeOK
  <2>3. PinPerSession' /\ NoStuckState'
    BY <1>1 DEF connectToId, TypeOK, PinPerSession, NoStuckState
  <2>4. QED BY <2>1, <2>2, <2>3 DEF TypeOK, CountsOK
<1>2. CASE onResolved
  <2>1. CountsOK'
    BY <1>2 DEF onResolved, TypeOK, CountsOK, SessionState
  <2>2. pin_required' \in BOOLEAN
    BY <1>2, Zenon DEF onResolved, TypeOK
  <2>3. PinPerSession' /\ NoStuckState'
    BY <1>2 DEF onResolved, TypeOK, PinPerSession, NoStuckState
  <2>4. QED BY <2>1, <2>2, <2>3 DEF TypeOK, CountsOK
<1>3. CASE enterPin
  <2>1. CountsOK'
    BY <1>3 DEF enterPin, TypeOK, CountsOK, SessionState
  <2>2. pin_required' \in BOOLEAN
    BY <1>3, Zenon DEF enterPin, TypeOK
  <2>3. PinPerSession' /\ NoStuckState'
    BY <1>3 DEF enterPin, TypeOK, PinPerSession, NoStuckState
  <2>4. QED BY <2>1, <2>2, <2>3 DEF TypeOK, CountsOK
<1>4. CASE onPinVerified
  <2>1. CountsOK'
    BY <1>4 DEF onPinVerified, TypeOK, CountsOK, SessionState
  <2>2. pin_required' \in BOOLEAN
    BY <1>4, Zenon DEF onPinVerified, TypeOK
  <2>3. PinPerSession' /\ NoStuckState'
    BY <1>4 DEF onPinVerified, TypeOK, PinPerSession, NoStuckState
  <2>4. QED BY <2>1, <2>2, <2>3 DEF TypeOK, CountsOK
<1>5. CASE onTransportUp
  <2>1. CountsOK'
    BY <1>5 DEF onTransportUp, TypeOK, CountsOK, SessionState
  <2>2. pin_required' \in BOOLEAN
    BY <1>5, Zenon DEF onTransportUp, TypeOK
  <2>3. PinPerSession' /\ NoStuckState'
    BY <1>5 DEF onTransportUp, TypeOK, PinPerSession, NoStuckState
  <2>4. QED BY <2>1, <2>2, <2>3 DEF TypeOK, CountsOK
<1>6. CASE disconnect
  <2>1. CountsOK'
    BY <1>6 DEF disconnect, TypeOK, CountsOK, SessionState
  <2>2. pin_required' \in BOOLEAN
    BY <1>6, Zenon DEF disconnect, TypeOK
  <2>3. PinPerSession' /\ NoStuckState'
    BY <1>6 DEF disconnect, TypeOK, PinPerSession, NoStuckState
  <2>4. QED BY <2>1, <2>2, <2>3 DEF TypeOK, CountsOK
<1>7. CASE UNCHANGED vars
  BY <1>7 DEF vars, TypeOK, PinPerSession, NoStuckState
<1>8. QED BY <1>1, <1>2, <1>3, <1>4, <1>5, <1>6, <1>7 DEF Next

LEMMA InitInv == Init => Inv
<1>1. Init => CountsOK /\ PinPerSession /\ NoStuckState
  BY BoundsAssumption DEF Init, CountsOK, SessionState, PinPerSession, NoStuckState
<1>2. Init => pin_required \in BOOLEAN
  BY DEF Init
<1>3. QED BY <1>1, <1>2 DEF Inv, TypeOK, CountsOK

LEMMA SpecInv == Spec => []Inv
BY InitInv, NextInv, PTL DEF Spec

\* Every variable keeps its type: no counter underflows and the view stack is
\* never popped below the home page (Main.qml:31).
THEOREM TypeCorrect == Spec => []TypeOK
BY SpecInv, PTL DEF Inv

\* SessionController.cpp:82-106: for any number of PINs and connects, no
\* session is started, or on its way, without an accepted PIN of its own.
THEOREM PinAlwaysPerSession == Spec => []PinPerSession
BY SpecInv, PTL DEF Inv

\* A Resolving or Connecting controller always has the callback pending that
\* takes it on; with the fairness of the timers this is why it never hangs.
THEOREM NeverStuck == Spec => []NoStuckState
BY SpecInv, PTL DEF Inv

-----------------------------------------------------------------------------
(* The window *)

\* Every step of the window is a step of the session or leaves it alone.
LEMMA WindowStep == [WindowNext]_windowVars => [Next]_vars
<1> SUFFICES ASSUME [WindowNext]_windowVars PROVE [Next]_vars
  OBVIOUS
<1>1. CASE \E id \in Ids : ConnectToId(id)
  BY <1>1 DEF ConnectToId, Next
<1>2. CASE OnResolved \/ OnPinVerified \/ OnTransportUp
  BY <1>2 DEF OnResolved, OnPinVerified, OnTransportUp, Next
<1>3. CASE EnterPin \/ Disconnect
  BY <1>3 DEF EnterPin, Disconnect, Next
<1>4. CASE ConnectToNothing \/ EnterEmptyPin \/ ServiceError \/ HostRole
  BY <1>4, Zenon DEF ConnectToNothing, EnterEmptyPin, ServiceError, HostRole, vars
<1>5. CASE UNCHANGED windowVars
  BY <1>5 DEF windowVars
<1>6. QED BY <1>1, <1>2, <1>3, <1>4, <1>5 DEF WindowNext

LEMMA WindowNextStatus == Inv /\ StatusCurrent /\ [WindowNext]_windowVars => StatusCurrent'
<1> SUFFICES ASSUME Inv, StatusCurrent, [WindowNext]_windowVars PROVE StatusCurrent'
  OBVIOUS
<1> USE DEF StatusCurrent, StateOf, Says
<1>1. CASE \E id \in Ids : ConnectToId(id)
  BY <1>1 DEF ConnectToId, connectToId
<1>2. CASE OnResolved
  BY <1>2 DEF OnResolved, onResolved
<1>3. CASE EnterPin
  BY <1>3 DEF EnterPin, enterPin, Inv, TypeOK
<1>4. CASE OnPinVerified
  BY <1>4 DEF OnPinVerified, onPinVerified
<1>5. CASE OnTransportUp
  BY <1>5 DEF OnTransportUp, onTransportUp
<1>6. CASE Disconnect
  BY <1>6 DEF Disconnect, disconnect
<1>7. CASE ConnectToNothing \/ EnterEmptyPin \/ ServiceError
  BY <1>7 DEF ConnectToNothing, EnterEmptyPin, ServiceError, vars, timers
<1>8. CASE HostRole \/ UNCHANGED windowVars
  <2>1. UNCHANGED <<state, pin_timers, remote_id, status>>
    BY <1>8, Zenon DEF HostRole, windowVars, display, vars, timers
  <2>2. QED BY <2>1
<1>9. QED
  BY <1>1, <1>2, <1>3, <1>4, <1>5, <1>6, <1>7, <1>8 DEF WindowNext

LEMMA WindowInv == WindowSpec => [](Inv /\ StatusCurrent)
<1>1. WindowInit => Inv
  BY InitInv DEF WindowInit
<1>2. WindowInit => StatusCurrent
  BY DEF WindowInit, Init, StatusCurrent, StateOf, Says
<1>3. Inv /\ StatusCurrent /\ [WindowNext]_windowVars => (Inv /\ StatusCurrent)'
  BY WindowStep, NextInv, WindowNextStatus
<1>4. QED BY <1>1, <1>2, <1>3, PTL DEF WindowSpec

\* The window implements the session's specification, its fairness apart: no
\* status line, host role, toggle or service error adds a step to a session.
THEOREM WindowImplementsSession == WindowSpec => Init /\ [][Next]_vars
<1>1. WindowInit => Init
  BY DEF WindowInit
<1>2. QED BY <1>1, WindowStep, PTL DEF WindowSpec

\* What the window adds keeps its type, and the "being controlled" indicator has
\* a name exactly when it is lit (SessionController.cpp:143-156).
THEOREM WindowTypeCorrect == WindowSpec => []WindowTypeOK
<1>1. WindowInit => WindowTypeOK
  <2>1. WindowInit => remote_id \in Ids \cup {NoId} /\ status.id \in Ids \cup {NoId}
    BY DEF WindowInit, Says
  <2>2. WindowInit => /\ being_controlled \in BOOLEAN /\ controller_name = being_controlled
                      /\ unattended \in BOOLEAN /\ allowed \subseteq Toggles
    BY WindowAssumption, Zenon DEF WindowInit
  <2>3. QED BY <2>1, <2>2 DEF WindowTypeOK
<1>2. WindowTypeOK /\ [WindowNext]_windowVars => WindowTypeOK'
  <2> SUFFICES ASSUME WindowTypeOK, [WindowNext]_windowVars PROVE WindowTypeOK'
    OBVIOUS
  <2>1. CASE UNCHANGED host
    <3>1. remote_id' \in Ids \cup {NoId} /\ status'.id \in Ids \cup {NoId}
      BY <2>1 DEF WindowTypeOK, WindowNext, windowVars, display, ConnectToId,
         ConnectToNothing,
         OnResolved, EnterPin, EnterEmptyPin, OnPinVerified, OnTransportUp, Disconnect,
         ServiceError, HostRole, Says
    <3>2. QED BY <2>1, <3>1, Zenon DEF host, WindowTypeOK
  <2>2. CASE HostRole
    <3>1. UNCHANGED display
      BY <2>2 DEF HostRole
    <3>2. CASE \E blank \in BOOLEAN : setUnattendedPassword(blank)
      BY <3>1, <3>2, Zenon DEF display, setUnattendedPassword, WindowTypeOK
    <3>3. CASE clearUnattendedPassword \/ acceptIncoming \/ rejectIncoming
      BY <3>1, <3>3, Zenon DEF display, clearUnattendedPassword, acceptIncoming,
         rejectIncoming, WindowTypeOK
    <3>4. CASE \E t \in Toggles, on \in BOOLEAN : setAllowed(t, on)
      <4>1. allowed' \subseteq Toggles
        BY <3>4 DEF setAllowed, WindowTypeOK
      <4>2. UNCHANGED <<being_controlled, controller_name, unattended>>
        BY <3>4 DEF setAllowed
      <4>3. QED BY <3>1, <4>1, <4>2, Zenon DEF display, WindowTypeOK
    <3>5. QED BY <2>2, <3>2, <3>3, <3>4 DEF HostRole
  <2>3. QED
    BY <2>1, <2>2 DEF WindowNext, windowVars, ConnectToId, ConnectToNothing, OnResolved,
       EnterPin, EnterEmptyPin, OnPinVerified, OnTransportUp, Disconnect, ServiceError
<1>3. QED BY <1>1, <1>2, PTL DEF WindowSpec

\* What the session promises holds in the window: no session without a PIN,
\* no state that waits for nothing.
THEOREM WindowKeepsPromises == WindowSpec => [](PinPerSession /\ NoStuckState)
BY WindowInv, PTL DEF Inv

\* SessionController.cpp:54-118: whatever callbacks of earlier sessions fire, a
\* status text that tells a state tells the present one and the id on display.
THEOREM StatusAlwaysCurrent == WindowSpec => []StatusCurrent
BY WindowInv, PTL

-----------------------------------------------------------------------------
(* The local screen preview.                                               *)

LiveStream == {"starting", "running", "stopping"}

\* What the event loop waits for is about a capturer that exists, and whose
\* stream is as far as the wait says.
WaitInv ==
    /\ gui \in {"content", "starting", "stopping"} => native /\ capturer # 0
    /\ gui = "content" => stream[capturer] = "none"
    /\ capturer \in {0, made}

\* A queue is inside onSample only on behalf of a stream that may sample, and
\* then for a sample that was counted; capturers to come are untouched; the
\* stub has no queue.
QueueInv ==
    \A k \in Capturers :
        /\ sampling[k] => stream[k] \in {"running", "stopping"} /\ samples[k] # 0
        /\ k > made => stream[k] = "none"
        /\ ~native => stream[k] \in {"none", "stub"}

\* The part about deletion, capturer by capturer.
GoneInv ==
    /\ \A k \in Capturers : Deleted(k) /\ stream[k] \in LiveStream => k \in overran
    /\ gui = "crashed" => overran # {}

\* TypeOK, cut by what the steps touch together.
ActiveType ==
    /\ native \in BOOLEAN /\ active \in BOOLEAN
    /\ gui = "idle" => (active <=> capturer # 0)
    /\ gui = "content" => ~active
LoopType == capturer \in 0..made /\ made \in 0..MaxCaptures /\ gui \in Gui
StreamType == stream \in [Capturers -> Stream] /\ overran \subseteq Capturers
QueueType ==
    /\ sampling \in [Capturers -> BOOLEAN]
    /\ samples \in [Capturers -> 0..MaxFrames]
PictureType == posted \in Seq(Frame) /\ shown \in Frame \cup {NoFrame}

ScreenInv ==
    /\ ActiveType /\ LoopType /\ StreamType /\ QueueType /\ PictureType
    /\ WaitInv /\ QueueInv /\ GoneInv

-----------------------------------------------------------------------------
LEMMA ScreenInitInv == ScreenInit => ScreenInv
<1> SUFFICES ASSUME ScreenInit PROVE ScreenInv
  OBVIOUS
<1>1. <<>> \in Seq(Frame)
  OBVIOUS
<1>2. LoopType
  BY CaptureBounds DEF ScreenInit, LoopType, Gui
<1>9. ActiveType
  BY Zenon DEF ScreenInit, ActiveType
<1>6. sampling \in [Capturers -> BOOLEAN]
  BY DEF ScreenInit
<1>7. samples \in [Capturers -> 0..MaxFrames]
  BY CaptureBounds DEF ScreenInit
<1>8. StreamType
  BY DEF ScreenInit, StreamType, Stream
<1>5. PictureType
  BY <1>1 DEF ScreenInit, PictureType
<1>3. WaitInv /\ QueueInv /\ GoneInv
  BY DEF ScreenInit, WaitInv, QueueInv, GoneInv, Deleted, LiveStream, Capturers
<1>4. QED BY <1>2, <1>3, <1>5, <1>6, <1>7, <1>8, <1>9 DEF ScreenInv, QueueType

\* Steps of the event loop.
LEMMA LoopInv ==
    ASSUME ScreenInv, start \/ stop \/ Waits
    PROVE  ScreenInv'
<1>0. PictureType' /\ QueueType'
  BY DEF ScreenInv, PictureType, QueueType, queues, Waits, start, stop, StartContent,
     StartReturns, StopReturns
<1> USE CaptureBounds, <1>0 DEF ScreenInv, LoopType, StreamType, QueueType, Gui, Stream, Capturers
<1>1. CASE start
  <2>0. capturer = 0
    BY <1>1, Zenon DEF start, ActiveType
  <2>1. made' = made + 1 /\ made' \in 1..MaxCaptures /\ made' # 0
    BY <1>1 DEF start
  <2>7. ActiveType'
    BY <1>1, <2>1, Zenon DEF start, ActiveType
  <2>2. LoopType'
    BY <1>1, <2>1 DEF start
  <2>2s. StreamType'
    BY <1>1, <2>1 DEF start
  <2>3. WaitInv'
    BY <1>1, <2>0, <2>1 DEF start, WaitInv, QueueInv
  <2>4. QueueInv'
    BY <1>1, <2>1 DEF start, QueueInv
  <2>5. GoneInv'
    BY <1>1, <2>0, <2>1 DEF start, GoneInv, QueueInv, Deleted, LiveStream
  <2>6. QED BY <2>2, <2>2s, <2>3, <2>4, <2>5, <2>7
<1>2. CASE stop
  <2>6. ActiveType'
    BY <1>2, Zenon DEF stop, ActiveType
  <2>1. LoopType'
    BY <1>2 DEF stop
  <2>1s. StreamType'
    BY <1>2 DEF stop
  <2>2. WaitInv'
    BY <1>2 DEF stop, WaitInv
  <2>3. QueueInv'
    BY <1>2 DEF stop, QueueInv
  <2>4. GoneInv'
    BY <1>2 DEF stop, GoneInv, QueueInv, Deleted, LiveStream
  <2>5. QED BY <2>1, <2>1s, <2>2, <2>3, <2>4, <2>6
<1>3. CASE StartContent
  <2>1. capturer \in 1..MaxCaptures /\ native /\ capturer # 0
    BY <1>3 DEF StartContent, WaitInv
  <2>7. ActiveType'
    BY <1>3, <2>1, Zenon DEF StartContent, ActiveType
  <2>2. LoopType'
    BY <1>3, <2>1 DEF StartContent
  <2>2s. StreamType'
    BY <1>3, <2>1 DEF StartContent
  <2>3. WaitInv'
    BY <1>3, <2>1 DEF StartContent, WaitInv
  <2>4. QueueInv'
    BY <1>3, <2>1 DEF StartContent, QueueInv, WaitInv
  <2>5. GoneInv'
    BY <1>3, <2>1 DEF StartContent, GoneInv, WaitInv, Deleted, LiveStream
  <2>6. QED BY <2>2, <2>2s, <2>3, <2>4, <2>5, <2>7
<1>4. CASE StartReturns
  <2>1. capturer \in 1..MaxCaptures /\ native /\ capturer # 0
    BY <1>4 DEF StartReturns, WaitInv
  <2>7. ActiveType'
    BY <1>4, <2>1, Zenon DEF StartReturns, ActiveType
  <2>2. LoopType'
    BY <1>4, <2>1 DEF StartReturns
  <2>2s. StreamType'
    BY <1>4, <2>1 DEF StartReturns
  <2>3. WaitInv'
    BY <1>4, <2>1 DEF StartReturns, WaitInv
  <2>4. QueueInv'
    BY <1>4, <2>1 DEF StartReturns, QueueInv
  <2>5. GoneInv'
    BY <1>4, <2>1 DEF StartReturns, GoneInv, Deleted, LiveStream
  <2>6. QED BY <2>2, <2>2s, <2>3, <2>4, <2>5, <2>7
<1>5. CASE StopReturns
  <2>1. capturer \in 1..MaxCaptures /\ native /\ capturer # 0
    BY <1>5 DEF StopReturns, WaitInv
  <2>7. ActiveType'
    BY <1>5, <2>1, Zenon DEF StopReturns, ActiveType
  <2>2. LoopType'
    BY <1>5, <2>1 DEF StopReturns, queues
  <2>2s. StreamType'
    BY <1>5, <2>1 DEF StopReturns, queues
  <2>3. WaitInv' /\ QueueInv'
    BY <1>5, <2>1 DEF StopReturns, WaitInv, QueueInv, queues
  <2>4. GoneInv'
    BY <1>5, <2>1 DEF StopReturns, GoneInv, Deleted, LiveStream, queues
  <2>5. QED BY <2>2, <2>2s, <2>3, <2>4, <2>7
<1>6. QED BY <1>1, <1>2, <1>3, <1>4, <1>5 DEF Waits

\* Steps of ScreenCaptureKit and its queues.
LEMMA SckInv ==
    ASSUME ScreenInv, NEW k \in Capturers,
           SckStarted(k) \/ SckEnded(k) \/ SckStopped(k) \/ sampleTrampoline(k) \/ onSample(k)
    PROVE  ScreenInv'
<1> USE CaptureBounds DEF ScreenInv, LoopType, StreamType, Gui, Stream, Capturers
<1>0. ActiveType'
  <2>1. UNCHANGED <<native, active, capturer>> /\ (gui' = gui \/ gui' = "crashed")
    BY DEF SckStarted, SckEnded, SckStopped, sampleTrampoline, onSample, source
  <2>2. QED BY <2>1, Zenon DEF ActiveType, ScreenInv
<1>1. CASE SckStarted(k) \/ SckEnded(k) \/ SckStopped(k)
  <2> USE <1>0, <1>1 DEF SckStarted, SckEnded, SckStopped, source
  <2>0. PictureType' /\ QueueType' /\ LoopType'
    BY DEF PictureType, QueueType
  <2>1. StreamType'
    OBVIOUS
  <2>2. WaitInv'
    BY DEF WaitInv
  <2>3. QueueInv'
    BY DEF QueueInv
  <2>4. GoneInv'
    BY DEF GoneInv, Deleted, LiveStream
  <2>5. QED BY <2>0, <2>1, <2>2, <2>3, <2>4
<1>2. CASE sampleTrampoline(k)
  <2> USE <1>0, <1>2 DEF sampleTrampoline, source
  <2>0. PictureType' /\ StreamType' /\ LoopType'
    BY DEF PictureType
  <2>1. sampling' \in [Capturers -> BOOLEAN]
    BY DEF QueueType
  <2>5. samples' \in [Capturers -> 0..MaxFrames]
    BY DEF QueueType
  <2>2. WaitInv' /\ GoneInv'
    BY DEF WaitInv, GoneInv, Deleted, LiveStream
  <2>3. QueueInv'
    BY DEF QueueInv, QueueType
  <2>4. QED BY <2>0, <2>1, <2>2, <2>3, <2>5 DEF QueueType
<1>3. CASE onSample(k)
  <2>1. <<k, samples[k]>> \in Frame
    BY <1>3 DEF onSample, QueueInv, QueueType, Frame
  <2>9. Append(posted, <<k, samples[k]>>) \in Seq(Frame)
    BY <2>1 DEF PictureType
  <2>2. posted' \in Seq(Frame)
    BY <1>3, <2>9 DEF onSample, PictureType
  <2>3. LoopType' /\ StreamType' /\ PictureType'
    BY <1>3, <2>2 DEF onSample, PictureType
  <2>7. sampling' \in [Capturers -> BOOLEAN]
    BY <1>3 DEF onSample, QueueType
  <2>8. QueueType'
    BY <1>3, <2>7 DEF onSample, QueueType
  <2>4. WaitInv' /\ QueueInv'
    BY <1>3 DEF onSample, WaitInv, QueueInv
  <2>5. GoneInv'
    BY <1>3 DEF onSample, GoneInv, QueueInv, Deleted, LiveStream
  <2>6. QED BY <1>0, <2>3, <2>4, <2>5, <2>8
<1>4. QED BY <1>0, <1>1, <1>2, <1>3

LEMMA DeliverInv ==
    ASSUME ScreenInv, deliverFrame
    PROVE  ScreenInv'
<1>1. posted \in Seq(Frame) /\ posted # <<>>
  BY DEF ScreenInv, PictureType, deliverFrame
<1>2. Head(posted) \in Frame /\ Tail(posted) \in Seq(Frame)
  BY <1>1
<1>3. LoopType' /\ StreamType' /\ QueueType' /\ ActiveType' /\ PictureType'
  BY <1>2 DEF ScreenInv, ActiveType, LoopType, StreamType, QueueType, PictureType,
     deliverFrame, source, queues
<1>4. WaitInv' /\ QueueInv' /\ GoneInv'
  BY DEF ScreenInv, deliverFrame, source, queues, WaitInv, QueueInv, GoneInv, Deleted
<1>5. QED BY <1>3, <1>4 DEF ScreenInv

LEMMA ScreenNextInv == ScreenInv /\ [ScreenNext]_screenVars => ScreenInv'
<1>1. ASSUME ScreenInv, UNCHANGED screenVars PROVE ScreenInv'
  BY <1>1 DEF ScreenInv, ActiveType, LoopType, StreamType, QueueType, PictureType, WaitInv,
     QueueInv, GoneInv, Deleted, screenVars, source, queues
<1>2. QED BY <1>1, LoopInv, SckInv, DeliverInv DEF ScreenNext

LEMMA ScreenInvAlways == ScreenSpec => []ScreenInv
<1>1. QED BY ScreenInitInv, ScreenNextInv, PTL DEF ScreenSpec

\* Every variable keeps its type; outside a blocking call the source is active
\* exactly while it has a capturer (LocalScreenSource.cpp start and stop).
THEOREM ScreenTypeCorrect == ScreenSpec => []ScreenTypeOK
<1>1. ScreenInv => ScreenTypeOK
  BY DEF ScreenInv, ActiveType, LoopType, StreamType, QueueType, PictureType, ScreenTypeOK
<1>2. QED BY <1>1, ScreenInvAlways, PTL

\* A deleted capturer is reached by its stream only after a stop() that gave up
\* waiting (capturer_sck.mm, runAndWait and onSample).
THEOREM DeletedAlwaysAfterOverrun == ScreenSpec => []DeletedOnlyAfterOverrun
<1>1. ScreenInv => DeletedOnlyAfterOverrun
  BY DEF ScreenInv, GoneInv, QueueInv, DeletedOnlyAfterOverrun, LiveStream
<1>2. QED BY <1>1, ScreenInvAlways, PTL

-----------------------------------------------------------------------------
(* The picture *)

\* A frame the queue has already handed over, older than any it can still post.
Past(f) ==
    /\ f[1] <= made
    /\ f[1] # 0 => /\ f[2] <= samples[f[1]]
                   /\ sampling[f[1]] => f[2] < samples[f[1]]

\* As long as no capturer has outlived its stop(), what is posted is in order,
\* after the picture on screen and before all that is still to come.
OrderInv ==
    overran = {} =>
        /\ Past(shown) /\ \A i \in 1..Len(posted) : Past(posted[i])
        /\ \A i \in 1..Len(posted) : Earlier(shown, posted[i])
        /\ \A i, j \in 1..Len(posted) : i < j => Earlier(posted[i], posted[j])

LEMMA FrameFacts ==
    ASSUME ScreenInv
    PROVE  /\ Len(posted) \in Nat
           /\ \A i \in 1..Len(posted) :
                posted[i][1] \in 1..MaxCaptures /\ posted[i][2] \in 1..MaxFrames
           /\ shown[1] \in 0..MaxCaptures /\ shown[2] \in 0..MaxFrames
<1>1. posted \in Seq(Frame) /\ shown \in Frame \cup {NoFrame}
  BY DEF ScreenInv, PictureType
<1>2. Frame = (1..MaxCaptures) \X (1..MaxFrames) /\ NoFrame = <<0, 0>>
  BY DEF Frame, Capturers, NoFrame
<1>3. QED BY <1>1, <1>2, CaptureBounds

\* A step that posts, shows and counts nothing: the past stays past.
LEMMA OrderFrame ==
    ASSUME ScreenInv, OrderInv, UNCHANGED <<posted, shown, sampling, samples>>,
           made' \in Nat, made' >= made, overran' = {} => overran = {}
    PROVE  OrderInv'
<1>1. made \in Nat
  BY CaptureBounds DEF ScreenInv, LoopType
<1>2. QED BY <1>1, FrameFacts DEF OrderInv, Past, Earlier

LEMMA OrderNext == ScreenInv /\ OrderInv /\ [ScreenNext]_screenVars => OrderInv'
<1> SUFFICES ASSUME ScreenInv, OrderInv, [ScreenNext]_screenVars PROVE OrderInv'
  OBVIOUS
<1>0. made \in Nat /\ made \in 0..MaxCaptures /\ samples \in [1..MaxCaptures -> 0..MaxFrames]
      /\ sampling \in [1..MaxCaptures -> BOOLEAN]
  BY CaptureBounds DEF ScreenInv, LoopType, QueueType, Capturers
<1>1. CASE start \/ stop \/ Waits \/ UNCHANGED screenVars
  <2>1. UNCHANGED <<posted, shown, sampling, samples>>
    BY <1>1 DEF start, stop, Waits, StartContent, StartReturns, StopReturns, screenVars,
       queues
  <2>2. made' \in Nat /\ made' >= made
    BY <1>0, <1>1 DEF start, stop, Waits, StartContent, StartReturns, StopReturns,
       screenVars, source
  <2>3. overran' = {} => overran = {}
    BY <1>1 DEF start, stop, Waits, StartContent, StartReturns, StopReturns, screenVars
  <2>4. QED BY <2>1, <2>2, <2>3, OrderFrame
<1>2. CASE deliverFrame
  <2>1. posted # <<>> /\ shown' = posted[1] /\ Len(posted') = Len(posted) - 1
        /\ \A i \in 1..Len(posted') : posted'[i] = posted[i + 1]
    BY <1>2 DEF deliverFrame, ScreenInv, PictureType
  <2>2. UNCHANGED <<made, samples, sampling, overran>>
    BY <1>2 DEF deliverFrame, source, queues
  <2>3. Len(posted) \in Nat /\ Len(posted) # 0
    BY <2>1 DEF ScreenInv, PictureType
  <2>4. SUFFICES ASSUME overran = {} PROVE OrderInv'
    BY <2>2 DEF OrderInv
  <2>5. 1 \in 1..Len(posted)
        /\ \A i \in 1..Len(posted') : i + 1 \in 1..Len(posted) /\ 1 < i + 1
    BY <2>1, <2>3
  <2>6. Past(shown)'
    BY <2>1, <2>2, <2>4, <2>5 DEF OrderInv, Past
  <2>7. \A i \in 1..Len(posted') : Past(posted[i])' /\ Earlier(shown, posted[i])'
    BY <2>1, <2>2, <2>4, <2>5 DEF OrderInv, Past, Earlier
  <2>8. ASSUME NEW i \in 1..Len(posted'), NEW j \in 1..Len(posted'), i < j
        PROVE  Earlier(posted[i + 1], posted[j + 1])
    BY <2>4, <2>5, <2>8 DEF OrderInv
  <2>9. \A i, j \in 1..Len(posted') : i < j => Earlier(posted[i], posted[j])'
    BY <2>1, <2>8 DEF Earlier
  <2>10. QED BY <2>6, <2>7, <2>9 DEF OrderInv
<1>3. ASSUME NEW k \in Capturers, SckStarted(k) \/ SckEnded(k) \/ SckStopped(k)
      PROVE  OrderInv'
  BY <1>0, <1>3, OrderFrame DEF SckStarted, SckEnded, SckStopped, source
<1>4. ASSUME NEW k \in Capturers, sampleTrampoline(k) PROVE OrderInv'
  <2>1. UNCHANGED <<made, posted, shown, overran>>
    BY <1>4 DEF sampleTrampoline, source
  <2>2. samples[k] \in 0..MaxFrames /\ ~sampling[k] /\ k \in 1..MaxCaptures
    BY <1>0, <1>4 DEF sampleTrampoline, Capturers
  <2>3. \A c \in 1..MaxCaptures : /\ c # k => samples'[c] = samples[c] /\ sampling'[c] = sampling[c]
                                  /\ c = k => samples'[c] = samples[c] + 1
    BY <1>0, <1>4, <2>2 DEF sampleTrampoline
  <2>4. ASSUME NEW f, f[1] \in 0..MaxCaptures, f[2] \in 0..MaxFrames, Past(f) PROVE Past(f)'
    <3>1. CASE f[1] = 0
      BY <1>0, <2>1, <2>4, <3>1 DEF Past
    <3>2. CASE f[1] = k
      BY <1>0, <2>1, <2>2, <2>3, <2>4, <3>2, CaptureBounds DEF Past
    <3>3. CASE f[1] \in 1..MaxCaptures /\ f[1] # k
      BY <1>0, <2>1, <2>3, <2>4, <3>3 DEF Past
    <3>4. QED BY <2>4, <3>1, <3>2, <3>3, CaptureBounds
  <2>5. Past(shown) => Past(shown)'
    BY <2>1, <2>4, FrameFacts DEF Past
  <2>6. \A i \in 1..Len(posted) : Past(posted[i]) => Past(posted[i])'
    BY <2>1, <2>4, FrameFacts, CaptureBounds DEF Past
  <2>7. QED BY <2>1, <2>5, <2>6 DEF OrderInv, Earlier
<1>5. ASSUME NEW k \in Capturers, onSample(k) PROVE OrderInv'
  <2>1. UNCHANGED <<made, shown, samples, overran>> /\ k \in 1..MaxCaptures /\ sampling[k]
    BY <1>5 DEF onSample, Capturers
  <2>2. \A c \in 1..MaxCaptures : sampling'[c] => sampling[c] /\ c # k
    BY <1>0, <1>5, <2>1 DEF onSample
  <2>3. ASSUME NEW f, f[1] \in 0..MaxCaptures, Past(f) PROVE Past(f)'
    BY <1>0, <2>1, <2>2, <2>3, CaptureBounds DEF Past
  <2>4. CASE posted' = posted
    BY <2>1, <2>3, <2>4, FrameFacts, CaptureBounds DEF OrderInv, Earlier
  <2>5. CASE posted' = Append(posted, <<k, samples[k]>>)
    <3>1. SUFFICES ASSUME overran = {} PROVE OrderInv'
      BY <2>1 DEF OrderInv
    <3>2. k = made
      BY <1>0, <2>1, <3>1, CaptureBounds
      DEF ScreenInv, LoopType, WaitInv, QueueInv, GoneInv, Deleted, LiveStream, Capturers
    <3>3. Past(<<k, samples[k]>>)'
      BY <1>0, <2>1, <2>2, <3>2 DEF Past
    <3>4. ASSUME NEW f, f[1] \in 0..MaxCaptures, f[2] \in 0..MaxFrames, Past(f)
          PROVE  Earlier(f, <<k, samples[k]>>)
      BY <1>0, <2>1, <3>2, <3>4, CaptureBounds DEF Past, Earlier
    <3>5. Len(posted') = Len(posted) + 1 /\ posted'[Len(posted) + 1] = <<k, samples[k]>>
          /\ \A i \in 1..Len(posted) : posted'[i] = posted[i]
      BY <2>5 DEF ScreenInv, PictureType
    <3>6. Past(shown)' /\ Earlier(shown, <<k, samples[k]>>)
      BY <2>1, <2>3, <3>1, <3>4, FrameFacts DEF OrderInv
    <3>7. ASSUME NEW i \in 1..Len(posted)
          PROVE  Past(posted[i])' /\ Earlier(posted[i], <<k, samples[k]>>)
      <4>1. posted[i][1] \in 0..MaxCaptures /\ posted[i][2] \in 0..MaxFrames /\ Past(posted[i])
        BY <3>1, FrameFacts, CaptureBounds DEF OrderInv
      <4>2. QED BY <2>3, <3>4, <3>5, <4>1
    <3>8. \A i \in 1..Len(posted') : i \in 1..Len(posted) \/ i = Len(posted) + 1
      BY <3>5, FrameFacts
    <3>9. \A i \in 1..Len(posted') : Past(posted[i])' /\ Earlier(shown, posted'[i])
      BY <2>1, <3>1, <3>3, <3>5, <3>6, <3>7, <3>8 DEF OrderInv
    <3>10. ASSUME NEW i \in 1..Len(posted'), NEW j \in 1..Len(posted'), i < j
           PROVE  Earlier(posted'[i], posted'[j])
      <4>1. i \in 1..Len(posted)
        BY <3>5, <3>10, FrameFacts
      <4>2. QED BY <3>1, <3>5, <3>7, <3>8, <3>10, <4>1 DEF OrderInv
    <3>11. QED
      <4>1. \A i, j \in 1..Len(posted') : i < j => Earlier(posted[i], posted[j])'
        BY <3>10 DEF Earlier
      <4>2. \A i \in 1..Len(posted') : Earlier(shown, posted[i])'
        BY <2>1, <3>9 DEF Earlier
      <4>3. QED BY <3>6, <3>9, <4>1, <4>2 DEF OrderInv
  <2>6. QED BY <1>5, <2>4, <2>5 DEF onSample
<1>6. QED BY <1>1, <1>2, <1>3, <1>4, <1>5 DEF ScreenNext

\* The picture never goes back to an older one unless a capturer outlived its
\* stop() (LocalScreenSource.cpp:50-52, deliverFrame).
THEOREM PictureAlwaysForward == ScreenSpec => PictureMovesForward
<1>1. ScreenInit => OrderInv
  BY DEF ScreenInit, OrderInv, Past, NoFrame
<1>2. ScreenInv /\ OrderInv /\ [ScreenNext]_screenVars
        => [shown' # shown => Earlier(shown, shown') \/ overran # {}]_screenVars
  <2> SUFFICES ASSUME ScreenInv, OrderInv, ScreenNext, shown' # shown, overran = {}
               PROVE  Earlier(shown, shown')
    BY DEF screenVars
  <2>1. deliverFrame
    BY DEF ScreenNext, start, stop, Waits, StartContent, StartReturns, StopReturns,
       SckStarted,
           SckEnded, SckStopped, sampleTrampoline, onSample
  <2>2. Len(posted) \in Nat /\ Len(posted) # 0 /\ shown' = posted[1]
    BY <2>1 DEF deliverFrame, ScreenInv, PictureType
  <2>3. QED BY <2>2 DEF OrderInv
<1>3. QED BY <1>1, <1>2, OrderNext, ScreenInvAlways, PTL DEF ScreenSpec, PictureMovesForward

=============================================================================
