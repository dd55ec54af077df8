-------------------------------- MODULE Daemon --------------------------------
(***************************************************************************)
(* The service process (service/src): the daemon's main thread, its IPC    *)
(* server's accept thread, the clients of the socket and the socket's path *)
(* in the file system, which outlives the process.                         *)
(*                                                                         *)
(* The main thread builds the engine, starts the IPC server, pumps the     *)
(* media pipeline until a signal or the tick cap, and tears down.  The     *)
(* accept thread serves one connection at a time with blocking reads and   *)
(* no timeout.  A client is any local process: it may stall or hang up at  *)
(* any point.  The process may be killed, and started again.               *)
(***************************************************************************)
EXTENDS Engines, Sequences

CONSTANTS
    Clients,   \* local processes that may connect
    Owners,    \* those that run as the owner of the socket's path
    None,      \* no connection
    MaxTicks   \* kMaxStubTicks

ASSUME ClientsAssumption == Owners \subseteq Clients /\ None \notin Clients
ASSUME TicksAssumption == MaxTicks \in Nat

VARIABLES
    pc,        \* where the main thread is
    running,   \* UdsIpcServer::running_
    sock,      \* the listening socket
    path,      \* the endpoint in the file system: absent, this socket's (with
               \* its mode), or stale, the name of a socket that is gone
    undeleted, \* history: an unlink of this process failed
    g_stop,
    tick,
    acc,       \* where the accept thread is
    conn,      \* the connection it serves
    backlog,   \* connections waiting for accept
    client     \* each client's connection

main == <<pc, engines, g_stop, tick>>
server == <<acc, conn, backlog>>
endpoint == <<path, undeleted>>
vars == <<main, running, sock, endpoint, server, client>>

MainPc == {"build", "socket", "bind", "chmod", "listen", "spawn", "open", "pump",
           "closeSession", "stop",
           "shutdown", "close", "join", "unlink", "stopEngines",
           "exited", "failed", "killed"}
AccPc == {"none", "test", "accept", "header", "payload", "handle", "reply", "done"}
Sock == {"none", "bound", "listening", "shut", "closed"}
Path == {"absent", "stale", "open", "hardened"}
ClientRec == [st : {"out", "queued", "serving", "closed"}, sent : 0..2,
              good : BOOLEAN, open : BOOLEAN, answered : BOOLEAN]
NewClient == [st |-> "out", sent |-> 0, good |-> FALSE, open |-> FALSE, answered |-> FALSE]

Up == pc \notin {"exited", "failed", "killed"}
Connected(c) == client[c].st \in {"queued", "serving"}

\* What a client is left with when the server's end of its connection closes.
Dropped(r) == IF r.open THEN [r EXCEPT !.st = "closed"] ELSE NewClient

Init ==
    /\ EnginesInit /\ pc = "build" /\ g_stop = FALSE /\ tick = 0
    /\ running = FALSE /\ sock = "none" /\ path = "absent" /\ undeleted = FALSE
    /\ acc = "none" /\ conn = None /\ backlog = <<>>
    /\ client = [c \in Clients |-> NewClient]

-----------------------------------------------------------------------------
(* The main thread: bring-up *)

BuildDaemon ==
    /\ pc = "build"
    /\ \/ pc' = "socket" /\ transportRuns(TRUE) /\ capturerRuns(TRUE) /\ UNCHANGED active
       \/ pc' = "failed" /\ UNCHANGED engines  \* an engine did not start
    /\ UNCHANGED <<g_stop, tick, running, sock, endpoint, server, client>>

\* The result of unlink is ignored: when it fails the name stays.
Unlink ==
    \/ path' = "absent" /\ UNCHANGED undeleted
    \/ path # "absent" /\ path' = "stale" /\ undeleted' = TRUE

\* A failed start() runs stop() itself, before there is a thread, and the
\* daemon goes on without IPC.
StartFails ==
    /\ pc' = "open"
    /\ running' = FALSE
    /\ sock' = "closed"
    /\ Unlink

\* A slip: the stale endpoint is kept, so bind finds the path in use.
StartSocketKeepsStale ==
    /\ pc = "socket"
    /\ pc' = "bind"
    /\ UNCHANGED <<engines, g_stop, tick, running, sock, endpoint, server, client>>

\* socket() and the unlink of a stale endpoint.
StartSocket ==
    /\ pc = "socket"
    /\ \/ pc' = "bind" /\ sock' = "none" /\ Unlink
       \/ pc' = "open" /\ UNCHANGED <<sock, endpoint>>  \* socket() failed
    /\ UNCHANGED <<engines, g_stop, tick, running, server, client>>

\* bind() fails on a path that exists, or creates it with whatever mode the
\* umask leaves.
StartBind ==
    /\ pc = "bind"
    /\ \/ /\ path = "absent"
          /\ pc' = "chmod" /\ sock' = "bound" /\ path' = "open"
          /\ UNCHANGED <<running, undeleted>>
       \/ StartFails
    /\ UNCHANGED <<engines, g_stop, tick, server, client>>

\* A slip: the socket listens before its path is locked down.
StartChmodAfterListen ==
    /\ pc = "chmod"
    /\ sock' = "listening"
    /\ UNCHANGED undeleted
    /\ \/ sock = "bound" /\ UNCHANGED <<pc, path>>
       \/ sock = "listening" /\ pc' = "listen" /\ path' = "hardened"
    /\ UNCHANGED <<engines, g_stop, tick, running, server, client>>

StartChmod ==
    /\ pc = "chmod"
    /\ \/ pc' = "listen" /\ path' = "hardened" /\ UNCHANGED <<running, sock, undeleted>>
       \/ StartFails
    /\ UNCHANGED <<engines, g_stop, tick, server, client>>

StartListen ==
    /\ pc = "listen"
    /\ \/ pc' = "spawn" /\ sock' = "listening" /\ UNCHANGED <<running, endpoint>>
       \/ StartFails
    /\ UNCHANGED <<engines, g_stop, tick, server, client>>

StartThread ==
    /\ pc = "spawn"
    /\ pc' = "open"
    /\ running' = TRUE
    /\ acc' = "test"
    /\ UNCHANGED <<engines, g_stop, tick, sock, endpoint, conn, backlog, client>>

-----------------------------------------------------------------------------
(* The main thread: run loop and teardown *)

\* The IPC server is up before there is a session.
OpenSession ==
    /\ pc = "open"
    /\ pc' = "pump"
    /\ open_session
    /\ UNCHANGED <<g_stop, tick, running, sock, endpoint, server, client>>

\* One pass of capture, encode and send per tick.  The stubs do not fail while
\* they run; an engine's own error ends the loop too.
PumpPipeline ==
    /\ pc = "pump"
    /\ \/ /\ ~g_stop /\ tick < MaxTicks /\ Pipeline # "error"
          /\ tick' = tick + 1 /\ UNCHANGED pc
       \/ ~g_stop /\ tick < MaxTicks /\ pc' = "closeSession" /\ UNCHANGED tick
       \/ (g_stop \/ tick = MaxTicks) /\ pc' = "closeSession" /\ UNCHANGED tick
    /\ UNCHANGED <<engines, g_stop, running, sock, endpoint, server, client>>

\* The session goes first, while requests are still served.
CloseSession ==
    /\ pc = "closeSession"
    /\ pc' = "stop"
    /\ close_session
    /\ UNCHANGED <<g_stop, tick, running, sock, endpoint, server, client>>

StopFlag ==
    /\ pc = "stop"
    /\ pc' = "shutdown"
    /\ running' = FALSE
    /\ UNCHANGED <<engines, g_stop, tick, sock, endpoint, server, client>>

\* A slip: the socket is closed under the thread that waits in accept().
StopShutdownNot ==
    /\ pc = "shutdown"
    /\ pc' = "close"
    /\ UNCHANGED <<engines, g_stop, tick, running, sock, endpoint, server, client>>

\* Skipped when start() left no descriptor.
StopShutdown ==
    /\ pc = "shutdown"
    /\ pc' = "close"
    /\ sock' = IF sock = "listening" THEN "shut" ELSE sock
    /\ UNCHANGED <<engines, g_stop, tick, running, endpoint, server, client>>

\* Closing the descriptor resets the connections nobody accepted and leaves a
\* name without a socket.
StopClose ==
    /\ pc = "close"
    /\ pc' = "join"
    /\ sock' = IF sock = "shut" THEN "closed" ELSE sock
    /\ path' = IF path = "absent" THEN "absent" ELSE "stale"
    /\ client' = [c \in Clients |->
                    IF client[c].st = "queued" THEN Dropped(client[c]) ELSE client[c]]
    /\ backlog' = <<>>
    /\ UNCHANGED <<engines, g_stop, tick, running, undeleted, acc, conn>>

\* A slip: teardown goes on while the accept thread runs.
StopJoinNot ==
    /\ pc = "join"
    /\ pc' = "unlink"
    /\ UNCHANGED <<engines, g_stop, tick, running, sock, endpoint, server, client>>

StopJoin ==
    /\ pc = "join"
    /\ acc \in {"none", "done"}
    /\ pc' = "unlink"
    /\ UNCHANGED <<engines, g_stop, tick, running, sock, endpoint, server, client>>

StopUnlink ==
    /\ pc = "unlink"
    /\ pc' = "stopEngines"
    /\ Unlink
    /\ UNCHANGED <<engines, g_stop, tick, running, sock, server, client>>

StopEngines ==
    /\ pc = "stopEngines"
    /\ pc' = "exited"
    /\ transportRuns(FALSE) /\ capturerRuns(FALSE) /\ UNCHANGED active
    /\ UNCHANGED <<g_stop, tick, running, sock, endpoint, server, client>>

MainThread ==
    \/ BuildDaemon
    \/ StartSocket \/ StartBind \/ StartChmod \/ StartListen \/ StartThread
    \/ OpenSession \/ PumpPipeline \/ CloseSession
    \/ StopFlag \/ StopShutdown \/ StopClose \/ StopJoin \/ StopUnlink \/ StopEngines

-----------------------------------------------------------------------------
(* The accept thread *)

\* while (running_)
AcceptTest ==
    /\ acc = "test"
    /\ acc' = IF running THEN "accept" ELSE "done"
    /\ UNCHANGED <<main, running, sock, endpoint, conn, backlog, client>>

\* The peer's credentials, or the kernel has none for it.  They are attributed
\* to the connection, not compared with anything.
AuthenticatePeer == BOOLEAN

\* accept() returns a connection, also one that was queued when the socket was
\* shut down; a peer without credentials is dropped at once.
Accept ==
    /\ acc = "accept"
    /\ sock \in {"listening", "shut"}
    /\ backlog # <<>>
    /\ backlog' = Tail(backlog)
    /\ \E authenticated \in AuthenticatePeer :
          \/ /\ authenticated
             /\ acc' = "header"
             /\ conn' = Head(backlog)
             /\ client' = [client EXCEPT ![Head(backlog)].st = "serving"]
          \/ /\ ~authenticated
             /\ acc' = "test"
             /\ client' = [client EXCEPT ![Head(backlog)] = Dropped(@)]
             /\ UNCHANGED conn
    /\ UNCHANGED <<main, running, sock, endpoint>>

\* accept() fails on a socket that was shut down or closed.  The descriptor is
\* read without synchronisation; the old value and -1 fail alike.  (A failure
\* while running_ is true starts the loop over and changes nothing.)
AcceptFails ==
    /\ acc = "accept"
    /\ sock \in {"shut", "closed"}
    /\ acc' = IF running THEN "test" ELSE "done"
    /\ UNCHANGED <<main, running, sock, endpoint, conn, backlog, client>>

\* ServeConnection returns and the loop closes the connection.
CloseConnection ==
    /\ acc' = "test"
    /\ conn' = None
    /\ client' = [client EXCEPT ![conn] = Dropped(@)]

\* Blocks until the first n parts of the request are there and returns true, or
\* until the stream ends before that and returns false.
ReadExact(n, ok) ==
    IF ok THEN client[conn].sent >= n
          ELSE client[conn].sent < n /\ ~client[conn].open

\* A slip: the declared length is not checked.
ReadHeaderUnchecked ==
    /\ acc = "header"
    /\ \/ ReadExact(1, TRUE) /\ acc' = "payload" /\ UNCHANGED <<conn, client>>
       \/ ReadExact(1, FALSE) /\ CloseConnection
    /\ UNCHANGED <<main, running, sock, endpoint, backlog>>

\* A length of zero or above the cap ends the connection.
ReadHeader ==
    /\ acc = "header"
    /\ \/ /\ ReadExact(1, TRUE) /\ client[conn].good
          /\ acc' = "payload"
          /\ UNCHANGED <<conn, client>>
       \/ ReadExact(1, TRUE) /\ ~client[conn].good /\ CloseConnection
       \/ ReadExact(1, FALSE) /\ CloseConnection
    /\ UNCHANGED <<main, running, sock, endpoint, backlog>>

\* A slip: the end of the stream is not an error.
ReadPayloadSpins ==
    /\ acc = "payload"
    /\ ReadExact(2, TRUE) /\ acc' = "handle" /\ UNCHANGED <<conn, client>>
    /\ UNCHANGED <<main, running, sock, endpoint, backlog>>

ReadPayload ==
    /\ acc = "payload"
    /\ \/ ReadExact(2, TRUE) /\ acc' = "handle" /\ UNCHANGED <<conn, client>>
       \/ ReadExact(2, FALSE) /\ CloseConnection
    /\ UNCHANGED <<main, running, sock, endpoint, backlog>>

\* The handler runs with a reference to the daemon's engines.
Handle ==
    /\ acc = "handle"
    /\ acc' = "reply"
    /\ UNCHANGED <<main, running, sock, endpoint, conn, backlog, client>>

\* The process is gone; the path stays, without a socket.
Killed ==
    /\ pc' = "killed"
    /\ capturing' = FALSE /\ sending' = FALSE /\ active' = 0
    /\ running' = FALSE
    /\ sock' = "closed"
    /\ acc' = "none"
    /\ conn' = None
    /\ backlog' = <<>>
    /\ client' = [c \in Clients |-> IF Connected(c) THEN Dropped(client[c]) ELSE client[c]]
    /\ path' = IF path = "absent" THEN "absent" ELSE "stale"
    /\ UNCHANGED <<g_stop, tick, undeleted>>

\* The whole reply is written, to a peer that is still there.
WriteExact(c) == client[c].open

\* Writing to a peer that hung up raises SIGPIPE, which nothing handles.
Reply ==
    /\ acc = "reply"
    /\ \/ /\ WriteExact(conn)
          /\ acc' = "test"
          /\ conn' = None
          /\ client' = [client EXCEPT ![conn].st = "closed", ![conn].answered = TRUE]
          /\ UNCHANGED <<main, running, sock, endpoint, backlog>>
       \/ ~WriteExact(conn) /\ Killed

AcceptThread ==
    AcceptTest \/ Accept \/ AcceptFails \/ ReadHeader \/ ReadPayload \/ Handle \/ Reply

-----------------------------------------------------------------------------
(* The environment *)

\* SIGINT or SIGTERM.
HandleSignal ==
    /\ Up
    /\ g_stop' = TRUE
    /\ UNCHANGED <<pc, engines, tick, running, sock, endpoint, server, client>>

Crash == Up /\ Killed

\* The process is started again: everything is new but the file system.
Restart ==
    /\ ~Up
    /\ pc' = "build" /\ g_stop' = FALSE /\ tick' = 0
    /\ sock' = "none"
    /\ acc' = "none"
    /\ undeleted' = FALSE
    /\ UNCHANGED <<engines, running, path, conn, backlog, client>>

\* connect() needs a listening socket and write permission on its path.
Connect(c) ==
    /\ client[c].st = "out"
    /\ sock = "listening"
    /\ path = "open" \/ (path = "hardened" /\ c \in Owners)
    /\ client' = [client EXCEPT ![c] = [NewClient EXCEPT !.st = "queued", !.open = TRUE]]
    /\ backlog' = Append(backlog, c)
    /\ UNCHANGED <<main, running, sock, endpoint, acc, conn>>

SendHeader(c, good) ==
    /\ Connected(c) /\ client[c].open /\ client[c].sent = 0
    /\ client' = [client EXCEPT ![c].sent = 1, ![c].good = good]
    /\ UNCHANGED <<main, running, sock, endpoint, server>>

SendPayload(c) ==
    /\ Connected(c) /\ client[c].open /\ client[c].sent = 1
    /\ client' = [client EXCEPT ![c].sent = 2]
    /\ UNCHANGED <<main, running, sock, endpoint, server>>

Hangup(c) ==
    /\ client[c].open
    /\ client' = [client EXCEPT ![c] = IF Connected(c) THEN [@ EXCEPT !.open = FALSE]
                                       ELSE NewClient]
    /\ UNCHANGED <<main, running, sock, endpoint, server>>

ClientMoves(c) ==
    \/ \E good \in BOOLEAN : SendHeader(c, good)
    \/ SendPayload(c)
    \/ Hangup(c)

Next ==
    \/ MainThread
    \/ AcceptThread
    \/ HandleSignal \/ Crash \/ Restart
    \/ \E c \in Clients : Connect(c) \/ ClientMoves(c)

\* The operating system runs both threads; nothing makes a client move.
Spec ==
    Init /\ [][Next]_vars /\ WF_vars(MainThread) /\ WF_vars(AcceptThread)

\* Clients that neither stall in the middle of a request nor stay for ever.
PoliteSpec ==
    Spec /\ \A c \in Clients : WF_vars(ClientMoves(c))

-----------------------------------------------------------------------------
(* Properties *)

\* The type of every variable; conn is set exactly while a request is served.
TypeOK ==
    /\ pc \in MainPc /\ capturing \in BOOLEAN /\ sending \in BOOLEAN /\ active \in {0, 1}
    /\ g_stop \in BOOLEAN /\ tick \in 0..MaxTicks
    /\ running \in BOOLEAN /\ sock \in Sock /\ path \in Path /\ undeleted \in BOOLEAN
    /\ acc \in AccPc
    /\ conn \in Clients \cup {None}
    /\ backlog \in Seq(Clients)
    /\ client \in [Clients -> ClientRec]
    /\ conn # None <=> acc \in {"header", "payload", "handle", "reply"}

\* Endpoint hardening (ipc_server.cpp:144-164): whatever step of start() a
\* connect races with, only the path's owner ever gets a connection.
OnlyOwnersConnect == \A c \in Clients : Connected(c) => c \in Owners

\* The handler sees complete, size-checked requests (ipc_server.cpp:210-236):
\* a client that was answered sent a whole frame with an acceptable length.
HandledIsValid ==
    /\ acc \in {"handle", "reply"} => client[conn].sent = 2 /\ client[conn].good
    /\ \A c \in Clients : client[c].answered => client[c].sent = 2 /\ client[c].good

\* Teardown order (main.cpp:221-225): neither a session nor a run of the
\* handler, which holds a reference to the daemon, ever has the engines down,
\* no session outlives the loop, and the accept thread is over before the
\* endpoint and the engines go.
HandlerBeforeTeardown ==
    /\ active > 0 \/ acc \in {"handle", "reply"} => EnginesUp
    /\ pc \in {"stop", "unlink", "exited"} => active = 0
    /\ pc \in {"unlink", "stopEngines", "exited"} => acc \in {"none", "done"}

\* The endpoint's life across crashes and restarts (ipc_server.cpp:130-133,
\* 184-186): while the server runs, its socket listens under a name of its own
\* with the owner's mode, never under one an earlier process left; and bind meets
\* such a name, or an exit leaves one, only when an unlink of this very process
\* failed, so that a killed daemon does not by itself keep the next from serving.
EndpointLifecycle ==
    /\ running => sock = "listening" /\ path = "hardened"
    /\ pc \in {"bind", "stopEngines", "exited"} => path = "absent" \/ undeleted

\* stop() comes back (ipc_server.h:81, "Stop accepting, drain, and remove the
\* endpoint"): once teardown begins the process ends.
ShutdownCompletes == (pc = "stop") ~> ~Up

\* A connection is answered or closed (ipc_server.cpp:195-245); neither the
\* one being served nor the ones behind it wait for ever.
ClientsServed == \A c \in Clients : Connected(c) ~> ~Connected(c)

=============================================================================
