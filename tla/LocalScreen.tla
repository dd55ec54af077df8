------------------------------ MODULE LocalScreen ------------------------------
(***************************************************************************)
(* The local screen preview: LocalScreenSource on the UI's event loop and  *)
(* the macOS capturer behind it (SckCapturer), whose samples arrive on a   *)
(* dispatch queue of their own.                                            *)
(*                                                                         *)
(* start() and stop() block the event loop until ScreenCaptureKit calls a  *)
(* completion handler or ten seconds pass; the code does not tell the two  *)
(* apart.  A sample is converted on the capturer's queue and posted to the *)
(* event loop, where it becomes the picture on screen.  A capturer is      *)
(* known to its stream by a raw pointer and deleted when stop() returns.   *)
(* A build without a native backend uses the core stub, which makes frames *)
(* only when pumped, and nothing here pumps it.                            *)
(***************************************************************************)
EXTENDS Naturals, Sequences

CONSTANTS
    MaxCaptures,  \* bound: capturers made
    MaxFrames     \* bound: samples of one capturer

ASSUME CaptureBounds == MaxCaptures \in Nat /\ MaxFrames \in Nat

VARIABLES
    native,    \* a native backend is built in
    active,    \* active_
    capturer,  \* capturer_: its number, 0 when null
    gui,       \* what the event loop is blocked on, if anything
    made,      \* capturers made so far
    stream,    \* each capturer's stream
    sampling,  \* each capturer's queue is inside onSample
    samples,   \* samples each capturer was given
    posted,    \* the queued deliverFrame calls
    shown,     \* last_frame_: the capturer and the number of its sample
    overran    \* history: capturers whose stop() gave up waiting

source == <<native, active, capturer, gui, made>>
queues == <<stream, sampling, samples>>
screenVars == <<source, queues, posted, shown, overran>>

Capturers == 1..MaxCaptures
Gui == {"idle", "content", "starting", "stopping", "crashed"}
Stream == {"none", "stub", "starting", "running", "refused", "ended",
           "stopping", "stopped"}
Frame == Capturers \X (1..MaxFrames)
NoFrame == <<0, 0>>

ScreenInit ==
    /\ native \in BOOLEAN
    /\ active = FALSE
    /\ capturer = 0
    /\ gui = "idle"
    /\ made = 0
    /\ stream = [k \in Capturers |-> "none"]
    /\ sampling = [k \in Capturers |-> FALSE]
    /\ samples = [k \in Capturers |-> 0]
    /\ posted = <<>>
    /\ shown = NoFrame
    /\ overran = {}

\* The process runs.
Alive == gui # "crashed"

\* The capturer's object has been deleted.
Deleted(k) == k <= made /\ k # capturer

-----------------------------------------------------------------------------
(* The event loop *)

\* start(): makes a capturer.  Without the permission, and with the stub, it
\* returns at once; otherwise it asks for the displays.
start ==
    /\ gui = "idle" /\ ~active /\ made < MaxCaptures
    /\ made' = made + 1
    /\ \/ ~native /\ active' = TRUE /\ capturer' = made' /\ gui' = "idle"
       \/ native /\ active' = FALSE /\ capturer' = 0 /\ gui' = "idle"  \* PermissionDenied
       \/ native /\ active' = FALSE /\ capturer' = made' /\ gui' = "content"
    /\ stream' = IF ~native THEN [stream EXCEPT ![made'] = "stub"] ELSE stream
    /\ UNCHANGED <<native, sampling, samples, posted, shown, overran>>

\* The displays came, or not in time.  A stream that cannot be given its
\* output is there already when start() fails, so the deletion stops it.
StartContent ==
    /\ gui = "content"
    /\ \/ gui' = "idle" /\ capturer' = 0 /\ UNCHANGED stream
       \/ /\ gui' = "stopping"
          /\ stream' = [stream EXCEPT ![capturer] = "stopped"]
          /\ UNCHANGED capturer
       \/ /\ gui' = "starting"
          /\ stream' = [stream EXCEPT ![capturer] = "starting"]
          /\ UNCHANGED capturer
    /\ UNCHANGED <<native, active, made, sampling, samples, posted, shown, overran>>

\* A slip: only the completion handler ends the wait.
StartReturnsNoTimeout ==
    /\ gui = "starting"
    /\ stream[capturer] = "running" /\ gui' = "idle" /\ active' = TRUE
    /\ UNCHANGED <<native, capturer, made, queues, posted, shown, overran>>

\* No error, also when nothing was heard in time, is success.
StartReturns ==
    /\ gui = "starting"
    /\ \/ stream[capturer] # "refused" /\ gui' = "idle" /\ active' = TRUE /\ UNCHANGED stream
       \/ /\ stream[capturer] = "refused"
          /\ gui' = "stopping"
          /\ stream' = [stream EXCEPT ![capturer] = "stopped"]
          /\ UNCHANGED active
    /\ UNCHANGED <<native, capturer, made, sampling, samples, posted, shown, overran>>

\* stop(): the stream is asked to stop; the stub needs no asking.  Without a
\* capturer only the status text is set.
stop ==
    /\ gui = "idle"
    /\ \/ /\ capturer # 0 /\ native
          /\ gui' = "stopping"
          /\ stream' = [stream EXCEPT ![capturer] =
                            IF @ \in {"refused", "ended"} THEN "stopped" ELSE "stopping"]
          /\ UNCHANGED <<active, capturer>>
       \/ /\ capturer = 0 \/ ~native
          /\ active' = FALSE /\ capturer' = 0
          /\ UNCHANGED <<gui, stream>>
    /\ UNCHANGED <<native, made, sampling, samples, posted, shown, overran>>

\* A slip: the capturer is deleted without waiting for the stream.
StopReturnsAtOnce ==
    /\ gui = "stopping"
    /\ gui' = "idle" /\ active' = FALSE /\ capturer' = 0
    /\ UNCHANGED <<native, made, queues, posted, shown, overran>>

\* The stream has stopped, or ten seconds passed; the capturer is deleted.
StopReturns ==
    /\ gui = "stopping"
    /\ gui' = "idle" /\ active' = FALSE /\ capturer' = 0
    /\ overran' = IF stream[capturer] = "stopped" THEN overran ELSE overran \cup {capturer}
    /\ UNCHANGED <<native, made, queues, posted, shown>>

\* A slip: the newest posted frame is taken first.
deliverFrameNewest ==
    /\ gui = "idle" /\ posted # <<>>
    /\ shown' = posted[Len(posted)]
    /\ posted' = SubSeq(posted, 1, Len(posted) - 1)
    /\ UNCHANGED <<source, queues, overran>>

deliverFrame ==
    /\ gui = "idle" /\ posted # <<>>
    /\ shown' = Head(posted)
    /\ posted' = Tail(posted)
    /\ UNCHANGED <<source, queues, overran>>

-----------------------------------------------------------------------------
(* ScreenCaptureKit *)

\* The start of a stream is decided, in time or not.
SckStarted(k) ==
    /\ Alive
    /\ stream[k] = "starting"
    /\ \E s \in {"running", "refused"} : stream' = [stream EXCEPT ![k] = s]
    /\ UNCHANGED <<source, sampling, samples, posted, shown, overran>>

\* didStopWithError: a running stream ends by itself, after its last sample;
\* nobody is told.
SckEnded(k) ==
    /\ Alive
    /\ stream[k] = "running" /\ ~sampling[k]
    /\ stream' = [stream EXCEPT ![k] = "ended"]
    /\ UNCHANGED <<source, sampling, samples, posted, shown, overran>>

\* The stop completes once the sample handler is out.
SckStopped(k) ==
    /\ Alive
    /\ stream[k] = "stopping" /\ ~sampling[k]
    /\ stream' = [stream EXCEPT ![k] = "stopped"]
    /\ UNCHANGED <<source, sampling, samples, posted, shown, overran>>

\* The queue enters onSample, by the raw pointer the stream has.
sampleTrampoline(k) ==
    /\ Alive
    /\ stream[k] \in {"running", "stopping"}
    /\ ~sampling[k] /\ samples[k] < MaxFrames
    /\ sampling' = [sampling EXCEPT ![k] = TRUE]
    /\ samples' = [samples EXCEPT ![k] = @ + 1]
    /\ UNCHANGED <<source, stream, posted, shown, overran>>

\* The converted frame is posted; a sample without a picture is not.  With the
\* capturer deleted meanwhile its memory may still read as it was, or the
\* process dies.
onSample(k) ==
    /\ Alive
    /\ sampling[k]
    /\ sampling' = [sampling EXCEPT ![k] = FALSE]
    /\ \/ posted' = Append(posted, <<k, samples[k]>>) /\ UNCHANGED gui
       \/ UNCHANGED <<posted, gui>>
       \/ Deleted(k) /\ gui' = "crashed" /\ UNCHANGED posted
    /\ UNCHANGED <<native, active, capturer, made, stream, samples, shown, overran>>

-----------------------------------------------------------------------------
Waits == StartContent \/ StartReturns \/ StopReturns

ScreenNext ==
    \/ start \/ stop \/ Waits \/ deliverFrame
    \/ \E k \in Capturers :
        \/ SckStarted(k) \/ SckEnded(k) \/ SckStopped(k)
        \/ sampleTrampoline(k) \/ onSample(k)

\* A wait ends after ten seconds at the latest and an idle event loop runs
\* what is posted.  Nothing is assumed of ScreenCaptureKit or of the user.
ScreenSpec ==
    ScreenInit /\ [][ScreenNext]_screenVars
    /\ WF_screenVars(Waits) /\ WF_screenVars(deliverFrame)

-----------------------------------------------------------------------------
(* Properties *)

\* The type of every variable; outside a blocking call the source is active
\* exactly while it has a capturer, whichever way start() and stop() ended.
ScreenTypeOK ==
    /\ native \in BOOLEAN /\ active \in BOOLEAN
    /\ capturer \in 0..made /\ made \in 0..MaxCaptures
    /\ gui \in Gui
    /\ stream \in [Capturers -> Stream]
    /\ sampling \in [Capturers -> BOOLEAN]
    /\ samples \in [Capturers -> 0..MaxFrames]
    /\ posted \in Seq(Frame)
    /\ shown \in Frame \cup {NoFrame}
    /\ overran \subseteq Capturers
    /\ gui = "idle" => (active <=> capturer # 0)

\* The capturer's life (capturer_sck.mm:86-90, 225-236): samples meet a deleted
\* capturer in one case only, when its stop() gave up after ten seconds; every
\* other interleaving of the two threads, failed starts included, is safe.
DeletedOnlyAfterOverrun ==
    /\ \A k \in Capturers :
        Deleted(k) /\ (sampling[k] \/ stream[k] \in {"starting", "running", "stopping"})
            => k \in overran
    /\ gui = "crashed" => overran # {}

Earlier(f, g) == f[1] < g[1] \/ (f[1] = g[1] /\ f[2] < g[2])

\* The picture never goes back to an older one, also across stop() and start()
\* with frames of the old capturer still posted (LocalScreenSource.cpp:50-52),
\* unless a capturer outlived its stop().
PictureMovesForward ==
    [][shown' # shown => Earlier(shown, shown') \/ overran # {}]_screenVars

\* The event loop is never blocked for good by ScreenCaptureKit
\* (runAndWait, capturer_sck.mm:75-80).
GuiUnblocks == (gui # "idle") ~> (gui \in {"idle", "crashed"})

=============================================================================
