----------------------------- MODULE DaemonProofs -----------------------------
(***************************************************************************)
(* Proofs about the daemon, for any number of clients, owners and ticks.   *)
(* Two invariants: what the program counters of the two threads say about  *)
(* the socket, its path and the engines; and what the accept thread knows  *)
(* of the client it serves.  The second needs nothing of the first but     *)
(* that a socket that listens has a hardened path.                         *)
(***************************************************************************)
EXTENDS Daemon, TLAPS

\* Where the IPC server may be up.
Serving == {"open", "pump", "closeSession", "stop", "shutdown"}
Joining == Serving \cup {"close", "join"}
Over == {"unlink", "stopEngines", "exited"}

SocketOK ==
    /\ pc \in {"build", "socket", "bind"} => sock = "none"
    /\ pc = "spawn" => sock = "listening"
    /\ pc \in Serving => IF acc = "none" THEN sock # "listening"
                         ELSE sock = "listening"
    /\ sock = "listening" => pc \in {"spawn"} \cup Serving
    /\ running => sock = "listening" /\ pc \in {"open", "pump", "closeSession", "stop"}
PathOK ==
    /\ pc \in {"bind", "stopEngines", "exited"} => path = "absent" \/ undeleted
    /\ pc = "listen" => path = "hardened"
    /\ sock = "listening" => path = "hardened"
ThreadsOK ==
    /\ acc # "none" => pc \in Joining \cup Over
    /\ acc \notin {"none", "done"} => pc \in Joining
EnginesOK ==
    /\ pc \notin {"build", "failed", "exited", "killed"} => EnginesUp
    /\ active = IF pc \in {"pump", "closeSession"} THEN 1 ELSE 0

ControlInv == SocketOK /\ PathOK /\ ThreadsOK /\ EnginesOK

LEMMA ControlNext == ControlInv /\ [Next]_vars => ControlInv'
<1> SUFFICES ASSUME ControlInv, [Next]_vars PROVE ControlInv'
  OBVIOUS
<1> USE DEF ControlInv, SocketOK, PathOK, ThreadsOK, EnginesOK, Serving, Joining, Over,
            EnginesUp, engines, main, server, endpoint
<1>1. CASE BuildDaemon
  BY <1>1 DEF BuildDaemon, transportRuns, capturerRuns
<1>2. CASE StartSocket
  BY <1>2 DEF StartSocket, Unlink
<1>3. CASE StartBind
  BY <1>3 DEF StartBind, StartFails, Unlink
<1>4. CASE StartChmod
  BY <1>4 DEF StartChmod, StartFails, Unlink
<1>5. CASE StartListen
  BY <1>5 DEF StartListen, StartFails, Unlink
<1>6. CASE StartThread
  BY <1>6 DEF StartThread
<1>7. CASE OpenSession
  BY <1>7 DEF OpenSession, open_session
<1>8. CASE PumpPipeline
  BY <1>8 DEF PumpPipeline
<1>9. CASE CloseSession
  BY <1>9 DEF CloseSession, close_session
<1>10. CASE StopFlag
  BY <1>10 DEF StopFlag
<1>11. CASE StopShutdown
  BY <1>11 DEF StopShutdown
<1>12. CASE StopClose
  BY <1>12 DEF StopClose
<1>13. CASE StopJoin
  BY <1>13 DEF StopJoin
<1>14. CASE StopUnlink
  BY <1>14 DEF StopUnlink, Unlink
<1>15. CASE StopEngines
  BY <1>15 DEF StopEngines, transportRuns, capturerRuns
<1>16. CASE AcceptTest \/ Accept \/ AcceptFails
  BY <1>16 DEF AcceptTest, Accept, AcceptFails
<1>17. CASE ReadHeader \/ ReadPayload \/ Handle
  <2>1. /\ acc \notin {"none", "done"} /\ acc' \notin {"none", "done"}
        /\ UNCHANGED <<pc, capturing, sending, active, running, sock, path, undeleted>>
    BY <1>17 DEF ReadHeader, ReadPayload, Handle, CloseConnection
  <2>2. QED BY <2>1
<1>18. CASE Killed
  BY <1>18 DEF Killed
<1>19. CASE Reply
  BY <1>18, <1>19 DEF Reply
<1>20. CASE HandleSignal
  BY <1>20 DEF HandleSignal
<1>21. CASE Restart
  BY <1>21 DEF Restart, Up
<1>22. ASSUME NEW c \in Clients, Connect(c) \/ ClientMoves(c) PROVE ControlInv'
  BY <1>22 DEF Connect, ClientMoves, SendHeader, SendPayload, Hangup
<1>23. CASE UNCHANGED vars
  BY <1>23 DEF vars
<1>24. QED
  BY <1>1, <1>2, <1>3, <1>4, <1>5, <1>6, <1>7, <1>8, <1>9, <1>10, <1>11, <1>12, <1>13,
     <1>14, <1>15, <1>16, <1>17, <1>18, <1>19, <1>20, <1>21, <1>22, <1>23
  DEF Next, MainThread, AcceptThread, Crash

LEMMA ControlAlways == Spec => []ControlInv
<1>1. Init => ControlInv
  BY DEF Init, EnginesInit, ControlInv, SocketOK, PathOK, ThreadsOK, EnginesOK, Serving
<1>2. QED BY <1>1, ControlNext, PTL DEF Spec

\* main.cpp:187-231: neither a session nor the handler ever has the engines
\* down, and the accept thread is over before the endpoint and the engines go.
THEOREM HandlerAlwaysBeforeTeardown == Spec => []HandlerBeforeTeardown
<1>1. ControlInv => HandlerBeforeTeardown
  BY DEF ControlInv, ThreadsOK, EnginesOK, HandlerBeforeTeardown, Serving, Joining, Over
<1>2. QED BY <1>1, ControlAlways, PTL

\* ipc_server.cpp:124-188: a server that runs listens under its own hardened
\* path, and bind meets an earlier process's path, or an exit leaves one, only
\* when unlink failed.
THEOREM EndpointAlwaysCared == Spec => []EndpointLifecycle
<1>1. ControlInv => EndpointLifecycle
  BY DEF ControlInv, SocketOK, PathOK, EndpointLifecycle
<1>2. QED BY <1>1, ControlAlways, PTL

-----------------------------------------------------------------------------
(* The accept thread and its client *)

\* The connection being served is one that was accepted, with what was read of
\* its request; an answered client sent a whole request; only owners ever wait
\* or are served.
ServedOK ==
    /\ acc \in {"header", "payload", "handle", "reply"} =>
          conn \in Clients /\ client[conn].st = "serving"
    /\ acc \notin {"header", "payload", "handle", "reply"} => conn = None
    /\ acc \in {"payload", "handle", "reply"} => client[conn].sent >= 1 /\ client[conn].good
    /\ acc \in {"handle", "reply"} => client[conn].sent = 2
AnsweredOK == \A c \in Clients : client[c].answered => client[c].sent = 2 /\ client[c].good
OwnersOK == backlog \in Seq(Owners) /\ OnlyOwnersConnect
ClientTypes == client \in [Clients -> ClientRec]

ClientInv == ClientTypes /\ ServedOK /\ AnsweredOK /\ OwnersOK

LEMMA RecordFacts ==
    /\ NewClient \in ClientRec
    /\ \A r \in ClientRec :
          /\ Dropped(r) \in ClientRec
          /\ [r EXCEPT !.st = "serving"] \in ClientRec
          /\ [r EXCEPT !.st = "closed", !.answered = TRUE] \in ClientRec
          /\ \A good \in BOOLEAN : [r EXCEPT !.sent = 1, !.good = good] \in ClientRec
          /\ [r EXCEPT !.sent = 2] \in ClientRec
          /\ [r EXCEPT !.open = FALSE] \in ClientRec
    /\ [NewClient EXCEPT !.st = "queued", !.open = TRUE] \in ClientRec
<1>0. 0 \in 0..2 /\ 1 \in 0..2 /\ 2 \in 0..2
  OBVIOUS
<1>1. NewClient \in ClientRec
  BY <1>0, Zenon DEF ClientRec, NewClient
<1>2. ASSUME NEW r \in ClientRec PROVE Dropped(r) \in ClientRec
  <2>1. [r EXCEPT !.st = "closed"] \in ClientRec
    BY DEF ClientRec
  <2>2. QED BY <1>1, <2>1 DEF Dropped
<1>3. ASSUME NEW r \in ClientRec PROVE [r EXCEPT !.st = "serving"] \in ClientRec
  BY DEF ClientRec
<1>4. ASSUME NEW r \in ClientRec
      PROVE  [r EXCEPT !.st = "closed", !.answered = TRUE] \in ClientRec
  BY DEF ClientRec
<1>5. ASSUME NEW r \in ClientRec, NEW good \in BOOLEAN
      PROVE  [r EXCEPT !.sent = 1, !.good = good] \in ClientRec
  <2>1. [r EXCEPT !.sent = 1] \in ClientRec
    BY DEF ClientRec
  <2>2. \A q \in ClientRec : [q EXCEPT !.good = TRUE] \in ClientRec
                              /\ [q EXCEPT !.good = FALSE] \in ClientRec
    BY DEF ClientRec
  <2>3. [r EXCEPT !.sent = 1, !.good = good] = [[r EXCEPT !.sent = 1] EXCEPT !.good = good]
    BY DEF ClientRec
  <2>4. QED BY <2>1, <2>2, <2>3, Zenon
<1>6. ASSUME NEW r \in ClientRec PROVE [r EXCEPT !.sent = 2] \in ClientRec
  BY DEF ClientRec
<1>7. ASSUME NEW r \in ClientRec PROVE [r EXCEPT !.open = FALSE] \in ClientRec
  BY DEF ClientRec
<1>8. [NewClient EXCEPT !.st = "queued", !.open = TRUE] \in ClientRec
  <2>1. \A r \in ClientRec : [r EXCEPT !.st = "queued", !.open = TRUE] \in ClientRec
    BY DEF ClientRec
  <2>2. QED BY <1>1, <2>1, Zenon
<1>9. QED BY <1>1, <1>2, <1>3, <1>4, <1>5, <1>6, <1>7, <1>8

\* What closing the server's end leaves of a client.
LEMMA DroppedFacts ==
    \A r \in ClientRec :
        /\ Dropped(r).st \in {"closed", "out"}
        /\ Dropped(r).answered => r.answered /\ Dropped(r).sent = r.sent
                                    /\ (Dropped(r).good <=> r.good)
BY DEF ClientRec, NewClient, Dropped

\* A step that changes one client's record.
LEMMA OneClient ==
    ASSUME ClientInv, NEW c \in Clients, NEW r \in ClientRec,
           client' = [client EXCEPT ![c] = r],
           r.st \in {"queued", "serving"} => c \in Owners,
           r.answered => r.sent = 2 /\ r.good
    PROVE  ClientTypes' /\ AnsweredOK' /\ OnlyOwnersConnect'
<1>1. client'[c] = r /\ \A d \in Clients \ {c} : client'[d] = client[d]
  BY DEF ClientInv, ClientTypes
<1>2. ClientTypes'
  BY DEF ClientInv, ClientTypes
<1>3. AnsweredOK'
  BY <1>1 DEF ClientInv, AnsweredOK
<1>4. OnlyOwnersConnect'
  BY <1>1 DEF ClientInv, OwnersOK, OnlyOwnersConnect, Connected
<1>5. QED BY <1>2, <1>3, <1>4

\* A step that drops the clients of a set and leaves the others alone.
LEMMA SomeDropped ==
    ASSUME ClientInv, NEW S,
           client' = [c \in Clients |-> IF c \in S THEN Dropped(client[c]) ELSE client[c]]
    PROVE  ClientTypes' /\ AnsweredOK' /\ OnlyOwnersConnect'
<1>1. \A c \in Clients : client[c] \in ClientRec
  BY DEF ClientInv, ClientTypes
<1>2. \A c \in Clients : IF c \in S THEN client'[c] = Dropped(client[c])
                                   ELSE client'[c] = client[c]
  OBVIOUS
<1>3. ClientTypes'
  BY <1>1, RecordFacts DEF ClientTypes
<1>4. AnsweredOK'
  <2> SUFFICES ASSUME NEW c \in Clients, client'[c].answered
               PROVE  client'[c].sent = 2 /\ client'[c].good
    BY DEF AnsweredOK
  <2>1. CASE c \in S
    BY <1>1, <1>2, <2>1, DroppedFacts DEF ClientInv, AnsweredOK
  <2>2. CASE c \notin S
    BY <1>2, <2>2 DEF ClientInv, AnsweredOK
  <2>3. QED BY <2>1, <2>2
<1>5. OnlyOwnersConnect'
  <2> SUFFICES ASSUME NEW c \in Clients, client'[c].st \in {"queued", "serving"}
               PROVE  c \in Owners
    BY DEF OnlyOwnersConnect, Connected
  <2>1. c \notin S
    BY <1>1, <1>2, DroppedFacts
  <2>2. QED BY <1>2, <2>1 DEF ClientInv, OwnersOK, OnlyOwnersConnect, Connected
<1>6. QED BY <1>3, <1>4, <1>5

\* The server closes the connection it serves.
LEMMA CloseFacts ==
    ASSUME ClientInv, acc \in {"header", "payload"}, CloseConnection, UNCHANGED backlog
    PROVE  ClientInv'
<1>1. conn \in Clients /\ client[conn] \in ClientRec
  BY DEF ClientInv, ServedOK, ClientTypes
<1>2. client' = [client EXCEPT ![conn] = Dropped(client[conn])]
      /\ acc' = "test" /\ conn' = None
  BY DEF CloseConnection
<1>3. /\ Dropped(client[conn]) \in ClientRec
      /\ Dropped(client[conn]).st \notin {"queued", "serving"}
      /\ Dropped(client[conn]).answered =>
            Dropped(client[conn]).sent = 2 /\ Dropped(client[conn]).good
  BY <1>1, RecordFacts, DroppedFacts DEF ClientInv, AnsweredOK
<1>4. ClientTypes' /\ AnsweredOK' /\ OnlyOwnersConnect'
  BY <1>1, <1>2, <1>3, OneClient
<1>5. QED BY <1>2, <1>4 DEF ClientInv, ServedOK, OwnersOK

\* A client writes or hangs up: what the thread has read of it stays read.
LEMMA MoveFacts ==
    ASSUME ClientInv, NEW c \in Clients, ClientMoves(c) PROVE ClientInv'
<1> DEFINE old == client[c]
       Moved(r) ==
        /\ client' = [client EXCEPT ![c] = r]
        /\ r.st \in {"queued", "serving"} => c \in Owners
        /\ r.answered => r.sent = 2 /\ r.good
        /\ old.st = "serving" => r.st = "serving" /\ r.sent >= old.sent /\ r.sent \in 0..2
        /\ old.st = "serving" /\ old.sent >= 1 => (r.good <=> old.good)
<1>0. old \in ClientRec /\ old.sent \in 0..2 /\ UNCHANGED <<acc, conn, backlog>>
  BY DEF ClientInv, ClientTypes, ClientRec, ClientMoves, SendHeader, SendPayload, Hangup, server
<1>1. PICK r \in ClientRec : Moved(r)
  <2>1. ASSUME NEW good \in BOOLEAN, SendHeader(c, good) PROVE \E r \in ClientRec : Moved(r)
    <3> DEFINE new == [old EXCEPT !.sent = 1, !.good = good]
    <3>1. new \in ClientRec
      BY <1>0, RecordFacts
    <3>2. client' = [client EXCEPT ![c] = new] /\ old.sent = 0 /\ Connected(c)
      BY <2>1 DEF SendHeader
    <3>3. new.st = old.st /\ new.sent = 1 /\ new.answered = old.answered
      BY <1>0 DEF ClientRec
    <3>4. ~old.answered /\ c \in Owners
      BY <3>2 DEF ClientInv, AnsweredOK, OwnersOK, OnlyOwnersConnect
    <3>5. Moved(new)
      BY <1>0, <3>1, <3>2, <3>3, <3>4
    <3>6. QED BY <3>1, <3>5, Zenon
  <2>2. ASSUME SendPayload(c) PROVE \E r \in ClientRec : Moved(r)
    <3> DEFINE new == [old EXCEPT !.sent = 2]
    <3>1. new \in ClientRec
      BY <1>0, RecordFacts
    <3>2. client' = [client EXCEPT ![c] = new] /\ old.sent = 1 /\ Connected(c)
      BY <2>2 DEF SendPayload
    <3>3. new.st = old.st /\ new.sent = 2 /\ new.answered = old.answered /\ new.good = old.good
      BY <1>0 DEF ClientRec
    <3>4. ~old.answered /\ c \in Owners
      BY <3>2 DEF ClientInv, AnsweredOK, OwnersOK, OnlyOwnersConnect
    <3>5. Moved(new)
      BY <1>0, <3>1, <3>2, <3>3, <3>4
    <3>6. QED BY <3>1, <3>5, Zenon
  <2>3. ASSUME Hangup(c), Connected(c) PROVE \E r \in ClientRec : Moved(r)
    <3> DEFINE new == [old EXCEPT !.open = FALSE]
    <3>1. new \in ClientRec
      BY <1>0, RecordFacts
    <3>2. client' = [client EXCEPT ![c] = new]
      BY <2>3 DEF Hangup
    <3>3. new.st = old.st /\ new.sent = old.sent /\ new.answered = old.answered
          /\ new.good = old.good
      BY <1>0 DEF ClientRec
    <3>4. (old.answered => old.sent = 2 /\ old.good) /\ c \in Owners
      BY <2>3 DEF ClientInv, AnsweredOK, OwnersOK, OnlyOwnersConnect
    <3>5. Moved(new)
      BY <1>0, <3>1, <3>2, <3>3, <3>4
    <3>6. QED BY <3>1, <3>5, Zenon
  <2>4. ASSUME Hangup(c), ~Connected(c) PROVE \E r \in ClientRec : Moved(r)
    <3>1. client' = [client EXCEPT ![c] = NewClient] /\ old.st # "serving"
      BY <2>4 DEF Hangup, Connected
    <3>2. NewClient.st = "out" /\ ~NewClient.answered /\ NewClient \in ClientRec
      BY RecordFacts DEF NewClient
    <3>3. Moved(NewClient)
      BY <3>1, <3>2
    <3>4. QED BY <3>2, <3>3, Zenon
  <2>5. QED BY <2>1, <2>2, <2>3, <2>4 DEF ClientMoves
<1>2. ClientTypes' /\ AnsweredOK' /\ OnlyOwnersConnect'
  BY <1>1, OneClient
<1>3. client'[c] = r /\ \A d \in Clients \ {c} : client'[d] = client[d]
  BY <1>1 DEF ClientInv, ClientTypes
<1>4. ServedOK'
  <2>1. CASE conn # c
    BY <1>0, <1>3, <2>1 DEF ClientInv, ServedOK
  <2>2. CASE conn = c
    BY <1>0, <1>1, <1>3, <2>2 DEF ClientInv, ServedOK
  <2>3. QED BY <2>1, <2>2
<1>5. QED BY <1>0, <1>2, <1>4 DEF ClientInv, OwnersOK

\* The process dies: every connection closes.
LEMMA KilledFacts == ASSUME ClientInv, Killed PROVE ClientInv'
<1>1. /\ client' = [c \in Clients |-> IF Connected(c) THEN Dropped(client[c]) ELSE client[c]]
      /\ acc' = "none" /\ conn' = None /\ backlog' = <<>>
  BY DEF Killed
<1>2. client' = [c \in Clients |-> IF c \in {d \in Clients : Connected(d)}
                                  THEN Dropped(client[c]) ELSE client[c]]
  BY <1>1
<1>3. ClientTypes' /\ AnsweredOK' /\ OnlyOwnersConnect'
  BY <1>2, SomeDropped
<1>4. QED BY <1>1, <1>3 DEF ClientInv, ServedOK, OwnersOK

LEMMA AcceptFacts == ASSUME ClientInv, Accept PROVE ClientInv'
<1> DEFINE c == Head(backlog)
<1>1. backlog \in Seq(Owners) /\ backlog # <<>> /\ backlog' = Tail(backlog) /\ acc = "accept"
  BY DEF Accept, ClientInv, OwnersOK
<1>2. c \in Owners /\ c \in Clients /\ backlog' \in Seq(Owners)
  BY <1>1, ClientsAssumption
<1>3. client[c] \in ClientRec /\ conn = None
  BY <1>1, <1>2 DEF ClientInv, ClientTypes, ServedOK
<1>4. (client[c].answered => client[c].sent = 2 /\ client[c].good)
  BY <1>2 DEF ClientInv, AnsweredOK
<1>5. CASE /\ acc' = "header" /\ conn' = c
           /\ client' = [client EXCEPT ![c].st = "serving"]
  <2> DEFINE r == [client[c] EXCEPT !.st = "serving"]
  <2>1. r \in ClientRec
    BY <1>3, RecordFacts
  <2>2. r.st = "serving" /\ r.sent = client[c].sent /\ r.answered = client[c].answered
        /\ r.good = client[c].good
    BY <1>3 DEF ClientRec
  <2>3. client' = [client EXCEPT ![c] = r]
    BY <1>5
  <2> HIDE DEF r
  <2>4. ClientTypes' /\ AnsweredOK' /\ OnlyOwnersConnect'
    BY <1>2, <1>4, <2>1, <2>2, <2>3, OneClient
  <2>5. client'[c].st = "serving"
    BY <1>2, <2>2, <2>3 DEF ClientInv, ClientTypes
  <2>6. QED BY <1>2, <1>5, <2>4, <2>5 DEF ClientInv, ServedOK, OwnersOK
<1>6. CASE /\ acc' = "test" /\ conn' = conn
           /\ client' = [client EXCEPT ![c] = Dropped(client[c])]
  <2>1. /\ Dropped(client[c]) \in ClientRec
        /\ Dropped(client[c]).st \notin {"queued", "serving"}
        /\ Dropped(client[c]).answered => Dropped(client[c]).sent = 2 /\ Dropped(client[c]).good
    BY <1>3, <1>4, RecordFacts, DroppedFacts
  <2>2. ClientTypes' /\ AnsweredOK' /\ OnlyOwnersConnect'
    BY <1>2, <1>6, <2>1, OneClient
  <2>3. QED BY <1>2, <1>3, <1>6, <2>2 DEF ClientInv, ServedOK, OwnersOK
<1>7. QED BY <1>5, <1>6 DEF Accept

LEMMA ReplyFacts == ASSUME ClientInv, Reply PROVE ClientInv'
<1>1. CASE ~WriteExact(conn) /\ Killed
  BY <1>1, KilledFacts
<1>2. CASE /\ acc = "reply" /\ acc' = "test" /\ conn' = None /\ UNCHANGED backlog
           /\ client' = [client EXCEPT ![conn].st = "closed", ![conn].answered = TRUE]
  <2> DEFINE r == [client[conn] EXCEPT !.st = "closed", !.answered = TRUE]
  <2>1. conn \in Clients /\ client[conn] \in ClientRec
        /\ client[conn].sent = 2 /\ client[conn].good
    BY <1>2 DEF ClientInv, ServedOK, ClientTypes
  <2>2. r \in ClientRec
    BY <2>1, RecordFacts
  <2>3. r.st = "closed" /\ r.sent = client[conn].sent /\ r.good = client[conn].good
    BY <2>1 DEF ClientRec
  <2>4. client' = [client EXCEPT ![conn] = r]
    BY <1>2, <2>1 DEF ClientInv, ClientTypes, ClientRec
  <2> HIDE DEF r
  <2>5. ClientTypes' /\ AnsweredOK' /\ OnlyOwnersConnect'
    BY <2>1, <2>2, <2>3, <2>4, OneClient
  <2>6. QED BY <1>2, <2>5 DEF ClientInv, ServedOK, OwnersOK
<1>3. QED BY <1>1, <1>2 DEF Reply

LEMMA ConnectFacts ==
    ASSUME ControlInv, ClientInv, NEW c \in Clients, Connect(c) PROVE ClientInv'
<1> DEFINE r == [NewClient EXCEPT !.st = "queued", !.open = TRUE]
<1>1. /\ client[c].st = "out" /\ sock = "listening"
      /\ path = "open" \/ c \in Owners
      /\ client' = [client EXCEPT ![c] = r]
      /\ backlog' = Append(backlog, c)
      /\ UNCHANGED <<acc, conn>>
  BY DEF Connect
<1>2. c \in Owners
  BY <1>1 DEF ControlInv, PathOK
<1>3. r \in ClientRec /\ r.st = "queued" /\ ~r.answered
  BY RecordFacts DEF NewClient
<1> HIDE DEF r
<1>4. ClientTypes' /\ AnsweredOK' /\ OnlyOwnersConnect'
  BY <1>1, <1>2, <1>3, OneClient
<1>5. backlog' \in Seq(Owners)
  BY <1>1, <1>2 DEF ClientInv, OwnersOK
<1>6. ServedOK'
  BY <1>1 DEF ClientInv, ClientTypes, ServedOK
<1>7. QED BY <1>4, <1>5, <1>6 DEF ClientInv, OwnersOK

LEMMA ClientNext == ControlInv /\ ClientInv /\ [Next]_vars => ClientInv'
<1> SUFFICES ASSUME ControlInv, ClientInv, [Next]_vars PROVE ClientInv'
  OBVIOUS
<1>1. ASSUME UNCHANGED <<client, conn, backlog, acc>> PROVE ClientInv'
  BY <1>1 DEF ClientInv, ClientTypes, ServedOK, AnsweredOK, OwnersOK, OnlyOwnersConnect,
     Connected
<1>2. ASSUME UNCHANGED <<client, conn, backlog>>,
             acc \notin {"header", "payload", "handle", "reply"},
             acc' \notin {"header", "payload", "handle", "reply"}
      PROVE  ClientInv'
  BY <1>2 DEF ClientInv, ClientTypes, ServedOK, AnsweredOK, OwnersOK, OnlyOwnersConnect,
     Connected
<1>3. CASE MainThread
  <2>1. CASE StopClose
    <3> DEFINE S == {d \in Clients : client[d].st = "queued"}
    <3>1. /\ client' = [c \in Clients |-> IF c \in S THEN Dropped(client[c]) ELSE client[c]]
          /\ backlog' = <<>> /\ UNCHANGED <<acc, conn>>
      BY <2>1 DEF StopClose
    <3>2. ClientTypes' /\ AnsweredOK' /\ OnlyOwnersConnect'
      BY <3>1, SomeDropped
    <3>3. ServedOK'
      BY <3>1 DEF ClientInv, ServedOK
    <3>4. QED BY <3>1, <3>2, <3>3 DEF ClientInv, OwnersOK
  <2>2. CASE StartThread
    BY <1>2, <2>2 DEF StartThread, ControlInv, ThreadsOK, Joining, Serving, Over
  <2>3. CASE ~StopClose /\ ~StartThread
    BY <1>1, <1>3, <2>3 DEF MainThread, server, BuildDaemon, StartSocket, StartBind, StartChmod,
       StartListen, OpenSession, PumpPipeline, CloseSession, StopFlag, StopShutdown, StopJoin,
       StopUnlink, StopEngines
  <2>4. QED BY <2>1, <2>2, <2>3
<1>4. CASE AcceptTest \/ AcceptFails
  BY <1>2, <1>4 DEF AcceptTest, AcceptFails
<1>5. CASE ReadHeader
  <2>1. CASE ReadExact(1, TRUE) /\ client[conn].good /\ acc' = "payload"
             /\ UNCHANGED <<conn, client, backlog>>
    BY <1>5, <2>1 DEF ReadHeader, ReadExact, ClientInv, ClientTypes, ServedOK, AnsweredOK,
       OwnersOK, OnlyOwnersConnect, Connected
  <2>2. CASE CloseConnection
    BY <1>5, <2>2, CloseFacts DEF ReadHeader
  <2>3. QED BY <1>5, <2>1, <2>2 DEF ReadHeader
<1>6. CASE ReadPayload
  <2>1. CASE ReadExact(2, TRUE) /\ acc' = "handle" /\ UNCHANGED <<conn, client, backlog>>
    <3>1. acc = "payload" /\ client[conn].sent >= 2
      BY <1>6, <2>1 DEF ReadPayload, ReadExact
    <3>2. conn \in Clients /\ client[conn].sent \in 0..2
      BY <3>1 DEF ClientInv, ServedOK, ClientTypes, ClientRec
    <3>3. QED
      BY <2>1, <3>1, <3>2 DEF ClientInv, ClientTypes, ServedOK, AnsweredOK, OwnersOK,
         OnlyOwnersConnect, Connected
  <2>2. CASE CloseConnection
    BY <1>6, <2>2, CloseFacts DEF ReadPayload
  <2>3. QED BY <1>6, <2>1, <2>2 DEF ReadPayload
<1>7. CASE Handle
  BY <1>7 DEF Handle, ClientInv, ClientTypes, ServedOK, AnsweredOK, OwnersOK,
     OnlyOwnersConnect, Connected
<1>8. CASE Accept \/ Reply \/ Crash
  BY <1>8, AcceptFacts, ReplyFacts, KilledFacts DEF Crash
<1>9. CASE HandleSignal
  BY <1>1, <1>9 DEF HandleSignal, server
<1>10. CASE Restart
  BY <1>2, <1>10 DEF Restart, Up, ControlInv, ThreadsOK, Joining, Serving, Over
<1>11. ASSUME NEW c \in Clients, Connect(c) \/ ClientMoves(c) PROVE ClientInv'
  BY <1>11, ConnectFacts, MoveFacts
<1>12. CASE UNCHANGED vars
  BY <1>1, <1>12 DEF vars, server
<1>13. QED
  BY <1>3, <1>4, <1>5, <1>6, <1>7, <1>8, <1>9, <1>10, <1>11, <1>12 DEF Next, AcceptThread

LEMMA ClientAlways == Spec => []ClientInv
<1>1. Init => ClientInv
  <2> SUFFICES ASSUME Init PROVE ClientInv
    OBVIOUS
  <2>1. ClientTypes /\ \A c \in Clients : client[c] = NewClient
    BY RecordFacts DEF Init, ClientTypes
  <2>2. NewClient.st = "out" /\ ~NewClient.answered
    BY DEF NewClient
  <2>3. AnsweredOK /\ OnlyOwnersConnect
    BY <2>1, <2>2 DEF AnsweredOK, OnlyOwnersConnect, Connected
  <2>4. ServedOK /\ backlog \in Seq(Owners)
    BY DEF Init, ServedOK
  <2>5. QED BY <2>1, <2>3, <2>4 DEF ClientInv, OwnersOK
<1>2. QED BY <1>1, ClientNext, ControlAlways, PTL DEF Spec

\* ipc_server.cpp:144-164: whenever a local process connects, before, during or
\* after start(), only the owner of the path gets a connection.
THEOREM OnlyOwnersEver == Spec => []OnlyOwnersConnect
BY ClientAlways, PTL DEF ClientInv, OwnersOK

\* ipc_server.cpp:210-245: the handler runs on, and answers go to, complete
\* requests with an acceptable length only.
THEOREM HandledAlwaysValid == Spec => []HandledIsValid
<1>1. ClientInv => HandledIsValid
  BY DEF ClientInv, ServedOK, AnsweredOK, HandledIsValid
<1>2. QED BY <1>1, ClientAlways, PTL

\* Every variable keeps its type, and a connection is set exactly while a request
\* is served.
THEOREM TypeCorrect == Spec => []TypeOK
<1> DEFINE Places == pc \in MainPc /\ sock \in Sock /\ path \in Path /\ acc \in AccPc
           Flags == /\ capturing \in BOOLEAN /\ sending \in BOOLEAN
                    /\ g_stop \in BOOLEAN /\ running \in BOOLEAN /\ undeleted \in BOOLEAN
           Ticks == tick \in 0..MaxTicks
<1>1. Init => Places /\ Flags /\ Ticks
  <2>1. Init => Places /\ Ticks
    BY TicksAssumption DEF Init, MainPc, Sock, Path, AccPc
  <2>2. Init => Flags
    BY Zenon DEF Init, EnginesInit
  <2>3. QED BY <2>1, <2>2
<1>2. Places /\ [Next]_vars => Places'
  <2> SUFFICES ASSUME Places, [Next]_vars PROVE Places'
    OBVIOUS
  <2> USE DEF MainPc, Sock, Path, AccPc, main, server, endpoint
  <2>1. CASE MainThread
    BY <2>1 DEF MainThread, BuildDaemon, StartSocket, StartBind, StartChmod, StartListen, StartFails, Unlink, StartThread,
       OpenSession, PumpPipeline, CloseSession, StopFlag, StopShutdown, StopClose, StopJoin,
       StopUnlink, StopEngines
  <2>2. CASE AcceptThread
    BY <2>2 DEF AcceptThread, AcceptTest, Accept, AcceptFails, ReadHeader, ReadPayload, Handle, Reply,
       CloseConnection, Killed
  <2>3. CASE ~MainThread /\ ~AcceptThread
    BY <2>3 DEF Next, vars, HandleSignal, Crash, Killed, Restart, Connect, ClientMoves, SendHeader, SendPayload, Hangup
  <2>4. QED BY <2>1, <2>2, <2>3
<1>3. Flags /\ [Next]_vars => Flags'
  <2> SUFFICES ASSUME Flags, [Next]_vars PROVE Flags'
    OBVIOUS
  <2> USE DEF main, server, engines, endpoint
  <2>1. CASE MainThread
    BY <2>1, Zenon DEF MainThread, BuildDaemon, StartSocket, StartBind, StartChmod, StartListen, StartFails, Unlink, StartThread,
       OpenSession, PumpPipeline, CloseSession, StopFlag, StopShutdown, StopClose, StopJoin,
       StopUnlink, StopEngines,
       transportRuns, capturerRuns, open_session, close_session
  <2>2. CASE AcceptThread
    BY <2>2, Zenon DEF AcceptThread, AcceptTest, Accept, AcceptFails, ReadHeader, ReadPayload, Handle, Reply,
       CloseConnection, Killed
  <2>3. CASE HandleSignal \/ Crash \/ Restart
    BY <2>3, Zenon DEF HandleSignal, Crash, Killed, Restart
  <2>4. ASSUME NEW c \in Clients, Connect(c) \/ ClientMoves(c) PROVE Flags'
    BY <2>4, Zenon DEF Connect, ClientMoves, SendHeader, SendPayload, Hangup
  <2>5. CASE UNCHANGED vars
    BY <2>5, Zenon DEF vars
  <2>6. QED BY <2>1, <2>2, <2>3, <2>4, <2>5 DEF Next
<1>4. Ticks /\ [Next]_vars => Ticks'
  <2> SUFFICES ASSUME Ticks, [Next]_vars PROVE Ticks'
    OBVIOUS
  <2>1. CASE PumpPipeline
    BY <2>1, TicksAssumption DEF PumpPipeline
  <2>2. CASE Restart
    BY <2>2, TicksAssumption DEF Restart
  <2>3. ASSUME UNCHANGED tick PROVE Ticks'
    BY <2>3
  <2>4. QED
    BY <2>1, <2>2, <2>3 DEF Next, vars, main, MainThread, AcceptThread, BuildDaemon, StartSocket, StartBind, StartChmod, StartListen, StartFails, Unlink, StartThread,
       OpenSession, PumpPipeline, CloseSession, StopFlag, StopShutdown, StopClose, StopJoin,
       StopUnlink, StopEngines,
       AcceptTest, Accept, AcceptFails, ReadHeader, ReadPayload, Handle, Reply,
       HandleSignal, Crash, Killed, Restart, Connect, ClientMoves, SendHeader, SendPayload, Hangup
<1>5. Places /\ Flags /\ Ticks /\ ControlInv /\ ClientInv => TypeOK
  <2> SUFFICES ASSUME Places, Flags, Ticks, ControlInv, ClientInv PROVE TypeOK
    OBVIOUS
  <2>1. active \in {0, 1}
    BY DEF ControlInv, EnginesOK
  <2>2. client \in [Clients -> ClientRec]
    BY DEF ClientInv, ClientTypes
  <2>3. backlog \in Seq(Clients)
    BY ClientsAssumption DEF ClientInv, OwnersOK
  <2>4. /\ conn \in Clients \cup {None}
        /\ conn # None <=> acc \in {"header", "payload", "handle", "reply"}
    BY ClientsAssumption DEF ClientInv, ServedOK
  <2>5. QED BY <2>1, <2>2, <2>3, <2>4 DEF TypeOK
<1>6. QED
  BY <1>1, <1>2, <1>3, <1>4, <1>5, ControlAlways, ClientAlways, PTL DEF Spec

=============================================================================
