------------------------------- MODULE Engines -------------------------------
(***************************************************************************)
(* The daemon's own mirror of the engines (service/src/engine_contracts.h  *)
(* and engine_stubs.cpp): a capturer and a transport that run or do not,   *)
(* an encoder that always answers, and a count of sessions.                *)
(***************************************************************************)
EXTENDS Naturals

VARIABLES
    capturing,   \* StubCapturer::running_
    sending,     \* StubTransport::running_
    active       \* SessionManager::active_

engines == <<capturing, sending, active>>

EnginesInit == capturing = FALSE /\ sending = FALSE /\ active = 0
EnginesUp == capturing /\ sending

\* start() and stop() of the capturer and of the transport.
capturerRuns(on) == capturing' = on
transportRuns(on) == sending' = on

open_session == active' = active + 1 /\ UNCHANGED <<capturing, sending>>
\* Whatever the id, one session less.
close_session ==
    /\ active' = IF active > 0 THEN active - 1 ELSE 0
    /\ UNCHANGED <<capturing, sending>>

\* The outcomes of one pass of the pipeline: a stopped capturer answers Again,
\* a stopped transport an error; the encoder turns a frame into a packet.
next_frame == IF capturing THEN "frame" ELSE "again"
encode(frame) == IF frame = "frame" THEN "packet" ELSE frame
send_video(packet) ==
    IF packet = "packet" /\ ~sending THEN "error" ELSE packet
Pipeline == send_video(encode(next_frame))

=============================================================================
