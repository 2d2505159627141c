------------------------------- MODULE Server -------------------------------
(***************************************************************************)
(* The threads of the coordinator (acceptLoop, handleConnection and stop   *)
(* in src/coordinator.cpp, main in apps/coordinator_main.cpp): one thread  *)
(* accepts, each connection has a thread of its own, and the main thread   *)
(* waits for a SHUTDOWN and stops the server.  The operating system may    *)
(* give a closed handle out again, so a handle names one connection after  *)
(* another.  A section under Impl::mtx is one action; accept, recv and     *)
(* closeSock run without it.  closesocket ends a recv or an accept that    *)
(* waits on the handle, as Winsock does.                                   *)
(*                                                                         *)
(* What a message does to the plans is in Coordinator: here a message is a *)
(* REGISTER, a SHUTDOWN or any other one.                                  *)
(***************************************************************************)

CONSTANTS
  Conn,        \* connections that peers may open
  Handle,      \* SOCKET values
  None         \* INVALID_SOCKET, or no connection

ASSUME ServerAssumption == None \notin Conn /\ None \notin Handle

VARIABLES
  stopping,        \* Impl::stopping
  listening,       \* the listener is open
  acceptor,        \* the accept thread: where it is, and what it has accepted
  thread,          \* thread[c]: the thread of connection c
  peer,            \* peer[c]: the other end of c
  owner,           \* owner[h]: the connection handle h denotes; None: closed
  activeSockets,   \* Impl::activeSockets
  socketToWorker,  \* Impl::socketToWorker: the connection that registered on h
  main             \* where the main thread is

vars == <<stopping, listening, acceptor, thread, peer, owner, activeSockets,
          socketToWorker, main>>

ServerInit ==
  /\ stopping = FALSE
  /\ listening = TRUE
  /\ acceptor = [pc |-> "test", conn |-> None, sock |-> None]
  /\ thread = [c \in Conn |-> [pc |-> "none", sock |-> None]]
  /\ peer = [c \in Conn |-> "away"]
  /\ owner = [h \in Handle |-> None]
  /\ activeSockets = {}
  /\ socketToWorker = [h \in Handle |-> None]
  /\ main = "running"

-----------------------------------------------------------------------------
\* A peer connects and waits in the backlog of the listener.
Connect(c) ==
  /\ listening /\ peer[c] = "away"
  /\ peer' = [peer EXCEPT ![c] = "open"]
  /\ UNCHANGED <<stopping, listening, acceptor, thread, owner, activeSockets,
                 socketToWorker, main>>

\* A peer closes its end, or dies.
PeerClose(c) ==
  /\ peer[c] = "open"
  /\ peer' = [peer EXCEPT ![c] = "closed"]
  /\ UNCHANGED <<stopping, listening, acceptor, thread, owner, activeSockets,
                 socketToWorker, main>>

-----------------------------------------------------------------------------
AcceptorAt(from, to) == acceptor.pc = from /\ acceptor' = [acceptor EXCEPT !.pc = to]

\* acceptLoop: the loop condition.
AcceptTest ==
  /\ AcceptorAt("test", IF stopping THEN "done" ELSE "accept")
  /\ UNCHANGED <<stopping, listening, thread, peer, owner, activeSockets,
                 socketToWorker, main>>

\* accept returns a connection on a handle that is free.
Accept(c, h) ==
  /\ acceptor.pc = "accept" /\ listening
  /\ peer[c] # "away" /\ thread[c].pc = "none"
  /\ owner[h] = None
  /\ acceptor' = [pc |-> "insert", conn |-> c, sock |-> h]
  /\ owner' = [owner EXCEPT ![h] = c]
  /\ thread' = [thread EXCEPT ![c].pc = "accepted"]
  /\ UNCHANGED <<stopping, listening, peer, activeSockets, socketToWorker, main>>

\* accept fails on the closed listener: the loop ends or tries again.
AcceptFails ==
  /\ ~listening
  /\ AcceptorAt("accept", IF stopping THEN "done" ELSE "test")
  /\ UNCHANGED <<stopping, listening, thread, peer, owner, activeSockets,
                 socketToWorker, main>>

\* Mutation: the connection is recorded in place of its socket.
AcceptInsertConn ==
  /\ AcceptorAt("insert", "spawn")
  /\ activeSockets' = activeSockets \cup {acceptor.conn}
  /\ UNCHANGED <<stopping, listening, thread, peer, owner, socketToWorker, main>>

\* The accepted socket is recorded, under the lock.
AcceptInsert ==
  /\ AcceptorAt("insert", "spawn")
  /\ activeSockets' = activeSockets \cup {acceptor.sock}
  /\ UNCHANGED <<stopping, listening, thread, peer, owner, socketToWorker, main>>

\* connThreads.emplace_back.
AcceptSpawn ==
  /\ acceptor.pc = "spawn"
  /\ acceptor' = [pc |-> "test", conn |-> None, sock |-> None]
  /\ thread' = [thread EXCEPT ![acceptor.conn] = [pc |-> "test", sock |-> acceptor.sock]]
  /\ UNCHANGED <<stopping, listening, peer, owner, activeSockets, socketToWorker, main>>

-----------------------------------------------------------------------------
ThreadAt(c, from, to) == thread[c].pc = from /\ thread' = [thread EXCEPT ![c].pc = to]

\* handleConnection: the loop condition; the HELLO before it changes nothing.
ThreadTest(c) ==
  /\ ThreadAt(c, "test", IF stopping THEN "close" ELSE "recv")
  /\ UNCHANGED <<stopping, listening, acceptor, peer, owner, activeSockets,
                 socketToWorker, main>>

\* recvFrame returns a frame of the peer.
Receive(c) ==
  /\ ThreadAt(c, "recv", "handle")
  /\ owner[thread[c].sock] = c /\ peer[c] = "open"
  /\ UNCHANGED <<stopping, listening, acceptor, peer, owner, activeSockets,
                 socketToWorker, main>>

\* handleMessage, for a message that concerns neither threads nor sockets, or
\* that does not decode.
Handle_Other(c) ==
  /\ ThreadAt(c, "handle", "test")
  /\ UNCHANGED <<stopping, listening, acceptor, peer, owner, activeSockets,
                 socketToWorker, main>>

\* handleMessage of REGISTER.
Handle_Register(c) ==
  /\ ThreadAt(c, "handle", "test")
  /\ socketToWorker' = [socketToWorker EXCEPT ![thread[c].sock] = c]
  /\ UNCHANGED <<stopping, listening, acceptor, peer, owner, activeSockets, main>>

\* handleMessage of SHUTDOWN: nothing is closed yet.
Handle_Shutdown(c) ==
  /\ ThreadAt(c, "handle", "test")
  /\ stopping' = TRUE
  /\ UNCHANGED <<listening, acceptor, peer, owner, activeSockets, socketToWorker, main>>

\* Mutation: the worker is fenced and its socket keeps leading to it.
RecvFailsKeeps(c) ==
  /\ ThreadAt(c, "recv", "close")
  /\ owner[thread[c].sock] # c \/ peer[c] = "closed"
  /\ UNCHANGED <<stopping, listening, acceptor, peer, owner, activeSockets,
                 socketToWorker, main>>

\* recvFrame fails, because the peer is gone or stop closed the handle: the
\* worker of the socket is fenced and the socket forgotten, under the lock.
RecvFails(c) ==
  /\ ThreadAt(c, "recv", "close")
  /\ owner[thread[c].sock] # c \/ peer[c] = "closed"
  /\ socketToWorker' = [socketToWorker EXCEPT ![thread[c].sock] = None]
  /\ UNCHANGED <<stopping, listening, acceptor, peer, owner, activeSockets, main>>

\* Mutation: the handle is kept for the erase that follows.
ThreadCloseCopy(c) ==
  /\ ThreadAt(c, "close", "erase")
  /\ owner' = [owner EXCEPT ![thread[c].sock] = None]
  /\ UNCHANGED <<stopping, listening, acceptor, peer, activeSockets, socketToWorker, main>>

\* closeSock after the loop.  It takes its argument by reference and sets it to
\* INVALID_SOCKET.
ThreadClose(c) ==
  /\ thread[c].pc = "close"
  /\ thread' = [thread EXCEPT ![c] = [pc |-> "erase", sock |-> None]]
  /\ owner' = [owner EXCEPT ![thread[c].sock] = None]
  /\ UNCHANGED <<stopping, listening, acceptor, peer, activeSockets, socketToWorker, main>>

\* activeSockets.erase(s), under the lock: s is INVALID_SOCKET by now.
ThreadErase(c) ==
  /\ ThreadAt(c, "erase", "done")
  /\ activeSockets' = activeSockets \ {thread[c].sock}
  /\ UNCHANGED <<stopping, listening, acceptor, peer, owner, socketToWorker, main>>

-----------------------------------------------------------------------------
MainAt(from, to) == main = from /\ main' = to

\* stop() is entered: by main when it sees isStopping, or by the owner of the
\* server at any time.
Stop ==
  /\ MainAt("running", "closeListener")
  /\ stopping' = TRUE
  /\ UNCHANGED <<listening, acceptor, thread, peer, owner, activeSockets, socketToWorker>>

\* stop: the first half of the locked section.
StopListener ==
  /\ MainAt("closeListener", "closeSockets")
  /\ listening' = FALSE
  /\ UNCHANGED <<stopping, acceptor, thread, peer, owner, activeSockets, socketToWorker>>

\* Mutation: only the listener is closed.
StopSocketsNone ==
  /\ MainAt("closeSockets", "joinAcceptor")
  /\ UNCHANGED <<stopping, listening, acceptor, thread, peer, owner,
                 activeSockets, socketToWorker>>

\* stop: the second half, every recorded socket is closed.
StopSockets ==
  /\ MainAt("closeSockets", "joinAcceptor")
  /\ owner' = [h \in Handle |-> IF h \in activeSockets THEN None ELSE owner[h]]
  /\ UNCHANGED <<stopping, listening, acceptor, thread, peer, activeSockets, socketToWorker>>

\* Mutation: the accept thread is not waited for.
JoinAcceptorSkipped ==
  /\ MainAt("joinAcceptor", "joinThreads")
  /\ UNCHANGED <<stopping, listening, acceptor, thread, peer, owner,
                 activeSockets, socketToWorker>>

\* acceptThread.join().
JoinAcceptor ==
  /\ acceptor.pc = "done"
  /\ MainAt("joinAcceptor", "joinThreads")
  /\ UNCHANGED <<stopping, listening, acceptor, thread, peer, owner,
                 activeSockets, socketToWorker>>

\* Every thread of connThreads is joined.
JoinThreads ==
  /\ \A c \in Conn : thread[c].pc \in {"none", "accepted", "done"}
  /\ MainAt("joinThreads", "stopped")
  /\ UNCHANGED <<stopping, listening, acceptor, thread, peer, owner,
                 activeSockets, socketToWorker>>

-----------------------------------------------------------------------------
AcceptorStep ==
  \/ AcceptTest \/ AcceptFails \/ AcceptInsert \/ AcceptSpawn
  \/ \E c \in Conn, h \in Handle : Accept(c, h)

\* What the thread of c does without waiting for its peer.
ThreadStep(c) ==
  \/ ThreadTest(c) \/ RecvFails(c) \/ ThreadClose(c) \/ ThreadErase(c)
  \/ Handle_Other(c) \/ Handle_Register(c) \/ Handle_Shutdown(c)

MainStep == StopListener \/ StopSockets \/ JoinAcceptor \/ JoinThreads

ServerNext ==
  \/ \E c \in Conn : Connect(c) \/ PeerClose(c) \/ Receive(c) \/ ThreadStep(c)
  \/ AcceptorStep \/ Stop \/ MainStep

\* The threads run; main polls isStopping.  Nothing is assumed of the peers:
\* they may keep a connection open and silent for ever.
ServerFairness ==
  /\ WF_vars(AcceptorStep)
  /\ \A c \in Conn : WF_vars(ThreadStep(c))
  /\ WF_vars(MainStep)
  /\ WF_vars(stopping /\ Stop)

ServerSpec == ServerInit /\ [][ServerNext]_vars /\ ServerFairness

-----------------------------------------------------------------------------
\* Type correctness of the threads and tables.
ServerTypeOK ==
  /\ stopping \in BOOLEAN /\ listening \in BOOLEAN
  /\ acceptor \in [ pc : {"test", "accept", "insert", "spawn", "done"},
                    conn : Conn \cup {None}, sock : Handle \cup {None} ]
  /\ thread \in [Conn -> [ pc : {"none", "accepted", "test", "recv", "handle",
                                 "close", "erase", "done"},
                           sock : Handle \cup {None} ]]
  /\ peer \in [Conn -> {"away", "open", "closed"}]
  /\ owner \in [Handle -> Conn \cup {None}]
  /\ activeSockets \subseteq Handle
  /\ socketToWorker \in [Handle -> Conn \cup {None}]
  /\ main \in {"running", "closeListener", "closeSockets", "joinAcceptor",
               "joinThreads", "stopped"}

\* Every handle a connection thread waits on is one that stop would close, also
\* when the handle was closed and given out again.  closeSock is called before
\* activeSockets.erase and without the lock, so this rests on the erase removing
\* nothing: with a working erase the new owner of the handle would be dropped.
WaitingIsRecorded ==
  \A c \in Conn : thread[c].pc \in {"test", "recv", "handle"} =>
    thread[c].sock \in activeSockets

\* A connection never inherits a registration: when the thread of c takes or
\* waits for a message, its handle leads to a worker only if c registered it.
\* Otherwise the end of a client's connection would fence a worker that lives.
RegistrationNotInherited ==
  \A c \in Conn : thread[c].pc \in {"recv", "handle"} =>
    socketToWorker[thread[c].sock] \in {None, c}

\* When stop returns, no thread of the server runs and no connection is left
\* half accepted: the server may be destroyed.
NothingOutlivesStop ==
  main = "stopped" =>
    /\ acceptor.pc = "done"
    /\ \A c \in Conn : thread[c].pc \in {"none", "done"}
    /\ \A h \in Handle : owner[h] = None

\* Once stopping is set, by a SHUTDOWN or by stop itself, the server stops, even
\* if every peer stays connected and silent.
StopEnds == stopping ~> (main = "stopped")

=============================================================================
