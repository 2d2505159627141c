---------------------------- MODULE ServerProofs ----------------------------
(***************************************************************************)
(* Proofs about Server for any number of connections and handles.  The     *)
(* properties are about handles that are closed and given out again; what  *)
(* they need is that no two users of a handle overlap while the listener   *)
(* is open, and that nothing is accepted afterwards.                       *)
(***************************************************************************)
EXTENDS Server, TLAPS

\* Where the thread of a connection has a handle of its own.
Working == {"test", "recv", "handle", "close"}

\* The acceptor holds a connection that has no thread yet.
Accepting == acceptor.pc \in {"insert", "spawn"}

\* A working thread has a handle that is on record, and the others have none; the
\* handle denotes the thread's connection until the listener is closed.
ThreadsHold ==
  \A c \in Conn :
    /\ thread[c].pc \in Working =>
         /\ thread[c].sock \in Handle /\ thread[c].sock \in activeSockets
         /\ listening => owner[thread[c].sock] = c
    /\ thread[c].pc \notin Working => thread[c].sock = None
    /\ thread[c].pc = "accepted" => Accepting /\ acceptor.conn = c

\* The same of the acceptor.
AcceptorHolds ==
  /\ Accepting =>
       /\ acceptor.conn \in Conn /\ thread[acceptor.conn].pc = "accepted"
       /\ acceptor.sock \in Handle
       /\ listening => owner[acceptor.sock] = acceptor.conn
  /\ acceptor.pc = "spawn" => acceptor.sock \in activeSockets

\* No handle has two users.
HandlesDiffer ==
  /\ \A c, d \in Conn :
       thread[c].pc \in Working /\ thread[d].pc \in Working /\ c # d =>
         thread[c].sock # thread[d].sock
  /\ \A c \in Conn :
       thread[c].pc \in Working /\ Accepting => thread[c].sock # acceptor.sock

\* An open handle has a user.
HandlesUsed ==
  \A h \in Handle : owner[h] # None =>
    \/ thread[owner[h]].pc \in Working /\ thread[owner[h]].sock = h
    \/ Accepting /\ acceptor.conn = owner[h] /\ acceptor.sock = h

\* Before a shutdown only the thread that registered a handle uses it.
RegistrationsUsed ==
  ~stopping =>
    \A h \in Handle : socketToWorker[h] # None =>
      /\ thread[socketToWorker[h]].pc \in {"test", "recv", "handle"}
      /\ thread[socketToWorker[h]].sock = h

\* How far stop has come.
StopProgress ==
  /\ main \in {"closeSockets", "joinAcceptor", "joinThreads", "stopped"} => ~listening
  /\ main \in {"joinThreads", "stopped"} => acceptor.pc = "done"
  /\ main = "stopped" => \A c \in Conn : thread[c].pc \in {"none", "done"}

\* The inductive invariant.
ServerInv ==
  /\ ServerTypeOK /\ ThreadsHold /\ AcceptorHolds /\ HandlesDiffer /\ HandlesUsed
  /\ RegistrationsUsed /\ RegistrationNotInherited /\ StopProgress

-----------------------------------------------------------------------------
\* What the threads are, one by one.
ThreadPc == {"none", "accepted", "test", "recv", "handle", "close", "erase", "done"}
ThreadRec == [pc : ThreadPc, sock : Handle \cup {None}]

\* A step of one thread.
LEMMA ThreadMoves ==
  ASSUME ServerTypeOK, NEW c \in Conn, NEW from, NEW to \in ThreadPc, ThreadAt(c, from, to)
  PROVE  /\ thread[c].pc = from /\ thread'[c].pc = to /\ thread'[c].sock = thread[c].sock
         /\ \A d \in Conn \ {c} : thread'[d] = thread[d]
         /\ thread' \in [Conn -> ThreadRec]
<1>1. thread \in [Conn -> ThreadRec]
  BY DEF ServerTypeOK, ThreadRec, ThreadPc
<1>2. thread[c] \in ThreadRec
  BY <1>1
<1>3. [thread[c] EXCEPT !.pc = to] \in ThreadRec
  BY <1>2 DEF ThreadRec
<1>4. thread' = [thread EXCEPT ![c] = [thread[c] EXCEPT !.pc = to]]
  BY DEF ThreadAt
<1>5. thread'[c] = [thread[c] EXCEPT !.pc = to] /\ \A d \in Conn \ {c} : thread'[d] = thread[d]
  BY <1>1, <1>4
<1>6. thread'[c].pc = to /\ thread'[c].sock = thread[c].sock
  BY <1>2, <1>5 DEF ThreadRec
<1>7. thread' \in [Conn -> ThreadRec]
  BY <1>1, <1>3, <1>4
<1> QED BY <1>5, <1>6, <1>7 DEF ThreadAt

\* A thread that goes on with the handle it has, while the tables stay: the loop
\* condition, a frame received, a message without effect on the tables.
LEMMA ThreadGoesOn ==
  ASSUME ServerInv, NEW c \in Conn, NEW from \in Working, NEW to \in Working,
         ThreadAt(c, from, to), to = "close" => stopping,
         to = "recv" => ~stopping, to = "handle" => from = "recv",
         UNCHANGED <<listening, acceptor, owner, activeSockets, socketToWorker, main>>,
         stopping' \in BOOLEAN, stopping => stopping', peer' = peer
  PROVE  ServerInv'
<1> USE DEF ServerInv
<1>1. /\ thread[c].pc = from /\ thread'[c].pc = to /\ thread'[c].sock = thread[c].sock
      /\ \A d \in Conn \ {c} : thread'[d] = thread[d]
      /\ thread' \in [Conn -> ThreadRec]
  BY ThreadMoves DEF Working, ThreadPc
<1>2. ServerTypeOK'
  BY <1>1 DEF ServerTypeOK, ThreadRec, ThreadPc
<1>3. ThreadsHold' /\ AcceptorHolds'
  BY <1>1 DEF ThreadsHold, AcceptorHolds, Working, Accepting
<1>4. HandlesDiffer' /\ HandlesUsed'
  BY <1>1 DEF HandlesDiffer, HandlesUsed, Working, Accepting, ServerTypeOK
<1>5. RegistrationsUsed'
  BY <1>1 DEF RegistrationsUsed, Working, ServerTypeOK
<1>6. RegistrationNotInherited'
  <2> SUFFICES ASSUME NEW d \in Conn, thread'[d].pc \in {"recv", "handle"}
               PROVE  socketToWorker[thread'[d].sock] \in {None, d}
    BY DEF RegistrationNotInherited
  <2>1. CASE d # c
    BY <1>1, <2>1 DEF RegistrationNotInherited
  <2>2. CASE d = c /\ to = "handle"
    BY <1>1, <2>2 DEF RegistrationNotInherited
  <2>3. CASE d = c /\ to = "recv"
    <3> DEFINE h == thread[c].sock
    <3>1. h \in Handle
      BY <1>1 DEF ThreadsHold
    <3>2. CASE socketToWorker[h] # None
      <4>1. /\ socketToWorker[h] \in Conn
            /\ thread[socketToWorker[h]].pc \in {"test", "recv", "handle"}
            /\ thread[socketToWorker[h]].sock = h
        BY <2>3, <3>1, <3>2 DEF RegistrationsUsed, ServerTypeOK
      <4>2. socketToWorker[h] = c
        BY <1>1, <4>1 DEF HandlesDiffer, Working
      <4> QED BY <1>1, <2>3, <4>2
    <3> QED BY <1>1, <2>3, <3>2
  <2> QED BY <1>1, <2>1, <2>2, <2>3
<1>7. StopProgress'
  BY <1>1 DEF StopProgress, Working
<1> QED BY <1>2, <1>3, <1>4, <1>5, <1>6, <1>7

\* REGISTER: the handle leads to the connection that uses it.
LEMMA Registers ==
  ASSUME ServerInv, NEW c \in Conn, Handle_Register(c)
  PROVE  ServerInv'
<1> USE DEF ServerInv
<1>0. ThreadAt(c, "handle", "test") /\ "test" \in ThreadPc
  BY DEF Handle_Register, ThreadPc
<1>1. /\ thread[c].pc = "handle" /\ thread'[c].pc = "test" /\ thread'[c].sock = thread[c].sock
      /\ \A d \in Conn \ {c} : thread'[d] = thread[d]
      /\ thread' \in [Conn -> ThreadRec]
  BY <1>0, ThreadMoves
<1>2. /\ UNCHANGED <<stopping, listening, acceptor, peer, owner, activeSockets, main>>
      /\ socketToWorker' = [socketToWorker EXCEPT ![thread[c].sock] = c]
  BY DEF Handle_Register
<1>3. thread[c].sock \in Handle
  BY <1>1 DEF ThreadsHold, Working
<1>4. /\ socketToWorker' \in [Handle -> Conn \cup {None}]
      /\ socketToWorker'[thread[c].sock] = c
      /\ \A h \in Handle \ {thread[c].sock} : socketToWorker'[h] = socketToWorker[h]
  BY <1>2, <1>3 DEF ServerTypeOK
<1>5. ServerTypeOK'
  BY <1>1, <1>2, <1>4 DEF ServerTypeOK, ThreadRec, ThreadPc
<1>6. ThreadsHold' /\ AcceptorHolds'
  BY <1>1, <1>2 DEF ThreadsHold, AcceptorHolds, Working, Accepting
<1>7. HandlesDiffer' /\ HandlesUsed'
  <2>1. HandlesDiffer'
    BY <1>1, <1>2 DEF HandlesDiffer, Working, Accepting
  <2>2. HandlesUsed'
    BY <1>1, <1>2 DEF HandlesUsed, Working, Accepting, ServerTypeOK
  <2> QED BY <2>1, <2>2
<1>8. RegistrationsUsed'
  BY <1>1, <1>2, <1>4 DEF RegistrationsUsed, ServerTypeOK
<1>9. RegistrationNotInherited'
  <2> SUFFICES ASSUME NEW d \in Conn, thread'[d].pc \in {"recv", "handle"}
               PROVE  socketToWorker'[thread'[d].sock] \in {None, d}
    BY DEF RegistrationNotInherited
  <2>1. d # c /\ thread'[d] = thread[d] /\ thread[d].pc \in {"recv", "handle"}
    BY <1>1
  <2>2. thread[d].sock # thread[c].sock /\ thread[d].sock \in Handle
    BY <1>1, <2>1 DEF HandlesDiffer, ThreadsHold, Working
  <2> QED BY <1>4, <2>1, <2>2 DEF RegistrationNotInherited
<1>10. StopProgress'
  BY <1>1, <1>2 DEF StopProgress
<1> QED BY <1>5, <1>6, <1>7, <1>8, <1>9, <1>10

\* The end of a connection: the handle leads nowhere.
LEMMA RecvFailed ==
  ASSUME ServerInv, NEW c \in Conn, RecvFails(c)
  PROVE  ServerInv'
<1> USE DEF ServerInv
<1>0. ThreadAt(c, "recv", "close") /\ "close" \in ThreadPc
  BY DEF RecvFails, ThreadPc
<1>1. /\ thread[c].pc = "recv" /\ thread'[c].pc = "close" /\ thread'[c].sock = thread[c].sock
      /\ \A d \in Conn \ {c} : thread'[d] = thread[d]
      /\ thread' \in [Conn -> ThreadRec]
  BY <1>0, ThreadMoves
<1>2. /\ UNCHANGED <<stopping, listening, acceptor, peer, owner, activeSockets, main>>
      /\ socketToWorker' = [socketToWorker EXCEPT ![thread[c].sock] = None]
  BY DEF RecvFails
<1>3. thread[c].sock \in Handle
  BY <1>1 DEF ThreadsHold, Working
<1>4. /\ socketToWorker' \in [Handle -> Conn \cup {None}]
      /\ socketToWorker'[thread[c].sock] = None
      /\ \A h \in Handle \ {thread[c].sock} : socketToWorker'[h] = socketToWorker[h]
  BY <1>2, <1>3 DEF ServerTypeOK
<1>5. ServerTypeOK'
  BY <1>1, <1>2, <1>4 DEF ServerTypeOK, ThreadRec, ThreadPc
<1>6. ThreadsHold' /\ AcceptorHolds'
  BY <1>1, <1>2 DEF ThreadsHold, AcceptorHolds, Working, Accepting
<1>7. HandlesDiffer' /\ HandlesUsed'
  <2>1. HandlesDiffer'
    BY <1>1, <1>2 DEF HandlesDiffer, Working, Accepting
  <2>2. HandlesUsed'
    BY <1>1, <1>2 DEF HandlesUsed, Working, Accepting, ServerTypeOK
  <2> QED BY <2>1, <2>2
<1>8. RegistrationsUsed'
  BY <1>1, <1>2, <1>4 DEF RegistrationsUsed, ServerTypeOK
<1>9. RegistrationNotInherited'
  <2> SUFFICES ASSUME NEW d \in Conn, thread'[d].pc \in {"recv", "handle"}
               PROVE  socketToWorker'[thread'[d].sock] \in {None, d}
    BY DEF RegistrationNotInherited
  <2>1. d # c /\ thread'[d] = thread[d] /\ thread[d].pc \in {"recv", "handle"}
    BY <1>1
  <2>2. thread[d].sock \in Handle
    BY <2>1 DEF ThreadsHold, Working
  <2> QED BY <1>4, <2>1, <2>2 DEF RegistrationNotInherited
<1>10. StopProgress'
  BY <1>1, <1>2 DEF StopProgress
<1> QED BY <1>5, <1>6, <1>7, <1>8, <1>9, <1>10

\* closeSock frees a handle that nobody else uses.
LEMMA ThreadClosed ==
  ASSUME ServerInv, NEW c \in Conn, ThreadClose(c)
  PROVE  ServerInv'
<1> USE DEF ServerInv
<1>1. thread \in [Conn -> ThreadRec] /\ [pc |-> "erase", sock |-> None] \in ThreadRec
  BY DEF ServerTypeOK, ThreadRec, ThreadPc
<1>2. /\ thread[c].pc = "close" /\ thread'[c].pc = "erase" /\ thread'[c].sock = None
      /\ \A d \in Conn \ {c} : thread'[d] = thread[d]
      /\ thread' \in [Conn -> ThreadRec]
  BY <1>1 DEF ThreadClose
<1>3. /\ UNCHANGED <<stopping, listening, acceptor, peer, activeSockets, socketToWorker, main>>
      /\ owner' = [owner EXCEPT ![thread[c].sock] = None]
  BY DEF ThreadClose
<1>4. thread[c].sock \in Handle
  BY <1>2 DEF ThreadsHold, Working
<1>5. /\ owner' \in [Handle -> Conn \cup {None}] /\ owner'[thread[c].sock] = None
      /\ \A h \in Handle \ {thread[c].sock} : owner'[h] = owner[h]
  BY <1>3, <1>4 DEF ServerTypeOK
<1>6. ServerTypeOK'
  BY <1>2, <1>3, <1>5 DEF ServerTypeOK, ThreadRec, ThreadPc
<1>7. ThreadsHold'
  <2>1. \A d \in Conn \ {c} : thread[d].pc \in Working =>
          thread[d].sock \in Handle /\ owner'[thread[d].sock] = owner[thread[d].sock]
    BY <1>2, <1>5 DEF ThreadsHold, HandlesDiffer, Working
  <2> QED BY <1>2, <1>3, <2>1 DEF ThreadsHold, Working, Accepting
<1>8. AcceptorHolds'
  <2>1. Accepting => owner'[acceptor.sock] = owner[acceptor.sock] /\ acceptor.conn # c
    BY <1>2, <1>5 DEF AcceptorHolds, HandlesDiffer, Working
  <2> QED BY <1>2, <1>3, <2>1 DEF AcceptorHolds, Accepting
<1>9. HandlesDiffer'
  BY <1>2, <1>3 DEF HandlesDiffer, Working, Accepting
<1>10. HandlesUsed'
  <2> SUFFICES ASSUME NEW h \in Handle, owner'[h] # None
               PROVE  \/ thread'[owner'[h]].pc \in Working /\ thread'[owner'[h]].sock = h
                      \/ Accepting /\ acceptor.conn = owner'[h] /\ acceptor.sock = h
    BY <1>3 DEF HandlesUsed, Accepting
  <2>1. h # thread[c].sock /\ owner'[h] = owner[h] /\ owner[h] \in Conn
    BY <1>5 DEF ServerTypeOK
  <2>2. CASE thread[owner[h]].pc \in Working /\ thread[owner[h]].sock = h
    <3>1. owner[h] # c
      BY <2>1, <2>2
    <3> QED BY <1>2, <2>1, <2>2, <3>1
  <2>3. CASE Accepting /\ acceptor.conn = owner[h] /\ acceptor.sock = h
    BY <2>1, <2>3
  <2> QED BY <2>1, <2>2, <2>3 DEF HandlesUsed
<1>11. RegistrationsUsed'
  BY <1>2, <1>3 DEF RegistrationsUsed, ServerTypeOK
<1>12. RegistrationNotInherited' /\ StopProgress'
  BY <1>2, <1>3 DEF RegistrationNotInherited, StopProgress
<1> QED BY <1>6, <1>7, <1>8, <1>9, <1>10, <1>11, <1>12

\* The erase that follows removes INVALID_SOCKET, which is not there.
LEMMA ThreadErased ==
  ASSUME ServerInv, NEW c \in Conn, ThreadErase(c)
  PROVE  ServerInv'
<1> USE DEF ServerInv
<1>0. ThreadAt(c, "erase", "done") /\ "done" \in ThreadPc
  BY DEF ThreadErase, ThreadPc
<1>1. /\ thread[c].pc = "erase" /\ thread'[c].pc = "done" /\ thread'[c].sock = thread[c].sock
      /\ \A d \in Conn \ {c} : thread'[d] = thread[d]
      /\ thread' \in [Conn -> ThreadRec]
  BY <1>0, ThreadMoves
<1>2. thread[c].sock = None
  BY <1>1 DEF ThreadsHold, Working
<1>3. UNCHANGED <<stopping, listening, acceptor, peer, owner, activeSockets, socketToWorker, main>>
  <2>1. activeSockets' = activeSockets
    BY <1>2, ServerAssumption DEF ThreadErase, ServerTypeOK
  <2> QED BY <2>1 DEF ThreadErase
<1>4. ServerTypeOK'
  BY <1>1, <1>3 DEF ServerTypeOK, ThreadRec, ThreadPc
<1>5. ThreadsHold' /\ AcceptorHolds'
  BY <1>1, <1>2, <1>3 DEF ThreadsHold, AcceptorHolds, Working, Accepting
<1>6. HandlesDiffer'
  BY <1>1, <1>3 DEF HandlesDiffer, Working, Accepting
<1>7. HandlesUsed'
  BY <1>1, <1>3 DEF HandlesUsed, Working, Accepting, ServerTypeOK
<1>8. RegistrationsUsed'
  BY <1>1, <1>3 DEF RegistrationsUsed, ServerTypeOK
<1>9. RegistrationNotInherited' /\ StopProgress'
  BY <1>1, <1>3 DEF RegistrationNotInherited, StopProgress
<1> QED BY <1>4, <1>5, <1>6, <1>7, <1>8, <1>9

-----------------------------------------------------------------------------
\* The acceptor, as a record.
AcceptorPc == {"test", "accept", "insert", "spawn", "done"}
AcceptorRec == [pc : AcceptorPc, conn : Conn \cup {None}, sock : Handle \cup {None}]

\* A step of the acceptor that neither takes nor gives a connection away.
LEMMA AcceptorLoops ==
  ASSUME ServerInv, NEW from \in {"test", "accept"}, NEW to \in {"test", "accept", "done"},
         AcceptorAt(from, to),
         UNCHANGED <<stopping, listening, thread, peer, owner, activeSockets,
                     socketToWorker, main>>
  PROVE  ServerInv'
<1> USE DEF ServerInv
<1>1. acceptor \in AcceptorRec
  BY DEF ServerTypeOK, AcceptorRec, AcceptorPc
<1>2. /\ acceptor.pc = from /\ acceptor'.pc = to /\ acceptor' \in AcceptorRec
  BY <1>1 DEF AcceptorAt, AcceptorRec, AcceptorPc
<1>3. ServerTypeOK'
  BY <1>2 DEF ServerTypeOK, AcceptorRec, AcceptorPc
<1>4. ~Accepting /\ ~Accepting'
  BY <1>2 DEF Accepting
<1>5. ThreadsHold' /\ AcceptorHolds'
  BY <1>2, <1>4 DEF ThreadsHold, AcceptorHolds
<1>6. HandlesDiffer' /\ HandlesUsed'
  BY <1>4 DEF HandlesDiffer, HandlesUsed
<1>7. RegistrationsUsed' /\ RegistrationNotInherited'
  BY DEF RegistrationsUsed, RegistrationNotInherited
<1>8. StopProgress'
  BY <1>2 DEF StopProgress
<1> QED BY <1>3, <1>5, <1>6, <1>7, <1>8

\* A free handle is given to a connection: while the listener is open, a handle in
\* use is not free.
LEMMA Accepted ==
  ASSUME ServerInv, NEW c \in Conn, NEW h \in Handle, Accept(c, h)
  PROVE  ServerInv'
<1> USE DEF ServerInv
<1>1. /\ acceptor.pc = "accept" /\ listening /\ thread[c].pc = "none" /\ owner[h] = None
      /\ acceptor' = [pc |-> "insert", conn |-> c, sock |-> h]
      /\ UNCHANGED <<stopping, listening, peer, activeSockets, socketToWorker, main>>
  BY DEF Accept
<1>2. /\ owner' \in [Handle -> Conn \cup {None}] /\ owner'[h] = c
      /\ \A g \in Handle \ {h} : owner'[g] = owner[g]
  BY DEF Accept, ServerTypeOK
<1>3. ThreadAt(c, "none", "accepted") /\ "accepted" \in ThreadPc
  BY <1>1 DEF Accept, ThreadAt, ThreadPc
<1>4. /\ thread'[c].pc = "accepted" /\ thread'[c].sock = thread[c].sock
      /\ \A d \in Conn \ {c} : thread'[d] = thread[d]
      /\ thread' \in [Conn -> ThreadRec]
  BY <1>3, ThreadMoves
<1>5. /\ acceptor'.pc = "insert" /\ acceptor'.conn = c /\ acceptor'.sock = h
      /\ Accepting' /\ ~Accepting
  BY <1>1 DEF Accepting
<1>6. \A d \in Conn : thread[d].pc \in Working => thread[d].sock # h /\ d # c
  <2>1. c # None /\ \A d \in Conn : d # None
    BY ServerAssumption
  <2> QED BY <1>1, <2>1 DEF ThreadsHold, Working
<1>7. ServerTypeOK'
  BY <1>1, <1>2, <1>4 DEF ServerTypeOK, ThreadRec, ThreadPc
<1>8. ThreadsHold'
  BY <1>1, <1>2, <1>4, <1>5, <1>6 DEF ThreadsHold, Working
<1>9. AcceptorHolds'
  BY <1>2, <1>4, <1>5 DEF AcceptorHolds
<1>10. HandlesDiffer'
  BY <1>4, <1>5, <1>6 DEF HandlesDiffer, Working
<1>11. HandlesUsed'
  <2> SUFFICES ASSUME NEW g \in Handle, owner'[g] # None
               PROVE  \/ thread'[owner'[g]].pc \in Working /\ thread'[owner'[g]].sock = g
                      \/ Accepting' /\ acceptor'.conn = owner'[g] /\ acceptor'.sock = g
    BY DEF HandlesUsed
  <2>1. CASE g = h
    BY <1>2, <1>5, <2>1
  <2>2. CASE g # h
    <3>1. owner'[g] = owner[g] /\ owner[g] \in Conn
      BY <1>2, <2>2 DEF ServerTypeOK
    <3>2. thread[owner[g]].pc \in Working /\ thread[owner[g]].sock = g
      BY <1>5, <3>1 DEF HandlesUsed
    <3> QED BY <1>4, <1>6, <3>1, <3>2
  <2> QED BY <2>1, <2>2
<1>12. RegistrationsUsed'
  BY <1>1, <1>4 DEF RegistrationsUsed, ServerTypeOK
<1>13. RegistrationNotInherited' /\ StopProgress'
  BY <1>1, <1>4, <1>5 DEF RegistrationNotInherited, StopProgress
<1> QED BY <1>7, <1>8, <1>9, <1>10, <1>11, <1>12, <1>13

\* The handle is recorded before its thread exists.
LEMMA AcceptInserted ==
  ASSUME ServerInv, AcceptInsert
  PROVE  ServerInv'
<1> USE DEF ServerInv
<1>1. acceptor \in AcceptorRec
  BY DEF ServerTypeOK, AcceptorRec, AcceptorPc
<1>2. /\ acceptor.pc = "insert" /\ acceptor'.pc = "spawn" /\ acceptor' \in AcceptorRec
      /\ acceptor'.conn = acceptor.conn /\ acceptor'.sock = acceptor.sock
  BY <1>1 DEF AcceptInsert, AcceptorAt, AcceptorRec, AcceptorPc
<1>3. /\ UNCHANGED <<stopping, listening, thread, peer, owner, socketToWorker, main>>
      /\ activeSockets' = activeSockets \cup {acceptor.sock}
  BY DEF AcceptInsert
<1>4. Accepting /\ Accepting'
  BY <1>2 DEF Accepting
<1>5. acceptor.sock \in Handle
  BY <1>4 DEF AcceptorHolds
<1>6. ServerTypeOK'
  BY <1>2, <1>3, <1>5 DEF ServerTypeOK, AcceptorRec, AcceptorPc
<1>7. ThreadsHold' /\ AcceptorHolds'
  BY <1>2, <1>3, <1>4 DEF ThreadsHold, AcceptorHolds
<1>8. HandlesDiffer' /\ HandlesUsed'
  BY <1>2, <1>3, <1>4 DEF HandlesDiffer, HandlesUsed
<1>9. RegistrationsUsed' /\ RegistrationNotInherited'
  BY <1>3 DEF RegistrationsUsed, RegistrationNotInherited
<1>10. StopProgress'
  BY <1>2, <1>3 DEF StopProgress
<1> QED BY <1>6, <1>7, <1>8, <1>9, <1>10

\* The new thread takes the connection over.
LEMMA AcceptSpawned ==
  ASSUME ServerInv, AcceptSpawn
  PROVE  ServerInv'
<1> USE DEF ServerInv
<1> DEFINE c == acceptor.conn
           h == acceptor.sock
<1>1. /\ acceptor.pc = "spawn" /\ acceptor' = [pc |-> "test", conn |-> None, sock |-> None]
      /\ thread' = [thread EXCEPT ![c] = [pc |-> "test", sock |-> h]]
      /\ UNCHANGED <<stopping, listening, peer, owner, activeSockets, socketToWorker, main>>
  BY DEF AcceptSpawn
<1>2. Accepting /\ ~Accepting' /\ acceptor'.pc = "test"
  BY <1>1 DEF Accepting
<1>3. /\ c \in Conn /\ thread[c].pc = "accepted" /\ h \in Handle /\ h \in activeSockets
      /\ listening => owner[h] = c
  BY <1>1, <1>2 DEF AcceptorHolds
<1>4. /\ thread \in [Conn -> ThreadRec] /\ [pc |-> "test", sock |-> h] \in ThreadRec
  BY <1>3 DEF ServerTypeOK, ThreadRec, ThreadPc
<1>5. /\ thread'[c].pc = "test" /\ thread'[c].sock = h
      /\ \A d \in Conn \ {c} : thread'[d] = thread[d]
      /\ thread' \in [Conn -> ThreadRec]
  BY <1>1, <1>3, <1>4
<1>6. /\ \A d \in Conn : thread[d].pc \in Working => thread[d].sock # h
      /\ \A d \in Conn \ {c} : thread[d].pc # "accepted"
  BY <1>2 DEF HandlesDiffer, ThreadsHold
<1>7. acceptor' \in AcceptorRec
  BY <1>1 DEF AcceptorRec, AcceptorPc
<1> HIDE DEF c, h
<1>8. ServerTypeOK'
  BY <1>1, <1>5, <1>7 DEF ServerTypeOK, ThreadRec, ThreadPc, AcceptorRec, AcceptorPc
<1>9. ThreadsHold'
  BY <1>1, <1>3, <1>5, <1>6 DEF ThreadsHold, Working
<1>10. AcceptorHolds'
  BY <1>2 DEF AcceptorHolds
<1>11. HandlesDiffer'
  BY <1>2, <1>3, <1>5, <1>6 DEF HandlesDiffer, Working
<1>12. HandlesUsed'
  <2> SUFFICES ASSUME NEW g \in Handle, owner[g] # None
               PROVE  thread'[owner[g]].pc \in Working /\ thread'[owner[g]].sock = g
    BY <1>1 DEF HandlesUsed
  <2>1. owner[g] \in Conn
    BY DEF ServerTypeOK
  <2>2. CASE thread[owner[g]].pc \in Working /\ thread[owner[g]].sock = g
    BY <1>3, <1>5, <2>1, <2>2 DEF Working
  <2>3. CASE Accepting /\ acceptor.conn = owner[g] /\ acceptor.sock = g
    BY <1>5, <2>3 DEF c, h, Working
  <2> QED BY <2>2, <2>3 DEF HandlesUsed
<1>13. RegistrationsUsed'
  BY <1>1, <1>3, <1>5 DEF RegistrationsUsed, ServerTypeOK
<1>14. RegistrationNotInherited' /\ StopProgress'
  BY <1>1, <1>2, <1>5 DEF RegistrationNotInherited, StopProgress
<1> QED BY <1>8, <1>9, <1>10, <1>11, <1>12, <1>13, <1>14

-----------------------------------------------------------------------------
\* The steps of stop.
LEMMA MainSteps ==
  ASSUME ServerInv, Stop \/ MainStep
  PROVE  ServerInv'
<1> USE DEF ServerInv
<1>1. CASE Stop
  BY <1>1 DEF Stop, MainAt, ServerTypeOK, ThreadsHold, AcceptorHolds, HandlesDiffer,
     HandlesUsed, RegistrationsUsed, RegistrationNotInherited, StopProgress, Accepting
<1>2. CASE StopListener
  <2>1. /\ main = "closeListener" /\ main' = "closeSockets" /\ listening' = FALSE
        /\ UNCHANGED <<stopping, acceptor, thread, peer, owner, activeSockets, socketToWorker>>
    BY <1>2 DEF StopListener, MainAt
  <2>2. ServerTypeOK' /\ StopProgress'
    BY <2>1 DEF ServerTypeOK, StopProgress
  <2>3. ThreadsHold' /\ AcceptorHolds'
    BY <2>1 DEF ThreadsHold, AcceptorHolds, Accepting
  <2>4. HandlesDiffer' /\ HandlesUsed'
    BY <2>1 DEF HandlesDiffer, HandlesUsed, Accepting
  <2>5. RegistrationsUsed' /\ RegistrationNotInherited'
    BY <2>1 DEF RegistrationsUsed, RegistrationNotInherited
  <2> QED BY <2>2, <2>3, <2>4, <2>5
<1>3. CASE StopSockets
  <2>1. /\ main = "closeSockets" /\ main' = "joinAcceptor" /\ ~listening
        /\ UNCHANGED <<stopping, listening, acceptor, thread, peer, activeSockets, socketToWorker>>
        /\ owner' \in [Handle -> Conn \cup {None}]
        /\ \A h \in Handle : owner'[h] = None \/ owner'[h] = owner[h]
    BY <1>3 DEF StopSockets, MainAt, StopProgress, ServerTypeOK
  <2>2. ServerTypeOK' /\ StopProgress'
    BY <2>1 DEF ServerTypeOK, StopProgress
  <2>3. ThreadsHold' /\ AcceptorHolds' /\ HandlesDiffer'
    BY <2>1 DEF ThreadsHold, AcceptorHolds, HandlesDiffer, Accepting
  <2>4. HandlesUsed'
    BY <2>1 DEF HandlesUsed, Accepting
  <2>5. RegistrationsUsed' /\ RegistrationNotInherited'
    BY <2>1 DEF RegistrationsUsed, RegistrationNotInherited
  <2> QED BY <2>2, <2>3, <2>4, <2>5
<1>4. CASE JoinAcceptor
  BY <1>4 DEF JoinAcceptor, MainAt, ServerTypeOK, ThreadsHold, AcceptorHolds, HandlesDiffer,
     HandlesUsed, RegistrationsUsed, RegistrationNotInherited, StopProgress, Accepting
<1>5. CASE JoinThreads
  <2>1. /\ \A c \in Conn : thread[c].pc \in {"none", "accepted", "done"}
        /\ main = "joinThreads" /\ main' = "stopped"
        /\ UNCHANGED <<stopping, listening, acceptor, thread, peer, owner, activeSockets,
                       socketToWorker>>
    BY <1>5 DEF JoinThreads, MainAt
  <2>2. acceptor.pc = "done" /\ ~listening
    BY <2>1 DEF StopProgress
  <2>3. \A c \in Conn : thread[c].pc \in {"none", "done"}
    BY <2>1, <2>2 DEF ThreadsHold, Accepting
  <2>4. ServerTypeOK' /\ StopProgress'
    BY <2>1, <2>2, <2>3 DEF ServerTypeOK, StopProgress
  <2>5. ThreadsHold' /\ AcceptorHolds' /\ HandlesDiffer' /\ HandlesUsed'
    BY <2>1 DEF ThreadsHold, AcceptorHolds, HandlesDiffer, HandlesUsed, Accepting
  <2>6. RegistrationsUsed' /\ RegistrationNotInherited'
    BY <2>1 DEF RegistrationsUsed, RegistrationNotInherited
  <2> QED BY <2>4, <2>5, <2>6
<1> QED BY <1>1, <1>2, <1>3, <1>4, <1>5 DEF MainStep

\* Every step of the server keeps the inductive invariant.
LEMMA ServerInvNext ==
  ASSUME ServerInv, [ServerNext]_vars
  PROVE  ServerInv'
<1>1. ASSUME NEW c \in Conn, Connect(c) \/ PeerClose(c)
      PROVE  ServerInv'
  <2>1. /\ UNCHANGED <<stopping, listening, acceptor, thread, owner, activeSockets,
                       socketToWorker, main>>
        /\ peer' \in [Conn -> {"away", "open", "closed"}]
    BY <1>1 DEF Connect, PeerClose, ServerInv, ServerTypeOK
  <2> QED BY <2>1 DEF ServerInv, ServerTypeOK, ThreadsHold, AcceptorHolds, HandlesDiffer,
       HandlesUsed, RegistrationsUsed, RegistrationNotInherited, StopProgress, Accepting
<1>2. CASE UNCHANGED vars
  BY <1>2 DEF vars, ServerInv, ServerTypeOK, ThreadsHold, AcceptorHolds, HandlesDiffer,
     HandlesUsed, RegistrationsUsed, RegistrationNotInherited, StopProgress, Accepting
<1>3. ASSUME NEW c \in Conn, Receive(c) \/ ThreadStep(c)
      PROVE  ServerInv'
  <2>0. stopping \in BOOLEAN
    BY DEF ServerInv, ServerTypeOK
  <2>1. CASE ThreadTest(c)
    <3> DEFINE to == IF stopping THEN "close" ELSE "recv"
    <3>1. /\ ThreadAt(c, "test", to)
          /\ UNCHANGED <<stopping, listening, acceptor, peer, owner, activeSockets,
                         socketToWorker, main>>
      BY <2>1 DEF ThreadTest
    <3>2. /\ to \in Working /\ "test" \in Working /\ to # "handle"
          /\ to = "close" => stopping
          /\ to = "recv" => ~stopping
      BY DEF Working
    <3> HIDE DEF to
    <3> QED BY <2>0, <3>1, <3>2, ThreadGoesOn
  <2>2. CASE Receive(c)
    BY <2>0, <2>2, ThreadGoesOn DEF Receive, Working
  <2>3. CASE Handle_Other(c)
    BY <2>0, <2>3, ThreadGoesOn DEF Handle_Other, Working
  <2>4. CASE Handle_Shutdown(c)
    BY <2>0, <2>4, ThreadGoesOn DEF Handle_Shutdown, Working
  <2> QED BY <1>3, <2>1, <2>2, <2>3, <2>4, Registers, RecvFailed, ThreadClosed, ThreadErased
       DEF ThreadStep
<1>4. CASE AcceptorStep
  <2>1. CASE AcceptTest
    BY <2>1, AcceptorLoops DEF AcceptTest
  <2>2. CASE AcceptFails
    BY <2>2, AcceptorLoops DEF AcceptFails
  <2> QED BY <1>4, <2>1, <2>2, Accepted, AcceptInserted, AcceptSpawned DEF AcceptorStep
<1> QED BY <1>1, <1>2, <1>3, <1>4, MainSteps DEF ServerNext

\* The inductive invariant, from a server that has just started.
THEOREM ServerInvariant == ServerSpec => []ServerInv
<1>1. ServerInit => ServerInv
  <2> SUFFICES ASSUME ServerInit PROVE ServerInv
    OBVIOUS
  <2> USE DEF ServerInit
  <2>1. ServerTypeOK
    BY DEF ServerTypeOK
  <2>2. ThreadsHold /\ AcceptorHolds /\ HandlesDiffer
    BY DEF ThreadsHold, AcceptorHolds, HandlesDiffer, Working, Accepting
  <2>3. HandlesUsed /\ RegistrationsUsed
    BY DEF HandlesUsed, RegistrationsUsed
  <2>4. RegistrationNotInherited /\ StopProgress
    BY DEF RegistrationNotInherited, StopProgress
  <2> QED BY <2>1, <2>2, <2>3, <2>4 DEF ServerInv
<1>2. ServerInv /\ [ServerNext]_vars => ServerInv'
  BY ServerInvNext
<1> QED BY <1>1, <1>2, PTL DEF ServerSpec

\* The threads and tables are well typed.
THEOREM ServerTypeCorrect == ServerSpec => []ServerTypeOK
<1>1. ServerInv => ServerTypeOK
  BY DEF ServerInv
<1> QED BY ServerInvariant, <1>1, PTL

\* stop closes every handle a connection thread waits on, however often handles
\* were closed and given out again.
THEOREM WaitingStaysRecorded == ServerSpec => []WaitingIsRecorded
<1>1. ServerInv => WaitingIsRecorded
  BY DEF ServerInv, ThreadsHold, WaitingIsRecorded, Working
<1> QED BY ServerInvariant, <1>1, PTL

\* A connection never inherits the registration of the one that had its handle.
THEOREM NothingInherited == ServerSpec => []RegistrationNotInherited
<1>1. ServerInv => RegistrationNotInherited
  BY DEF ServerInv
<1> QED BY ServerInvariant, <1>1, PTL

\* When stop returns the server may be destroyed.
THEOREM StopLeavesNothing == ServerSpec => []NothingOutlivesStop
<1>1. ServerInv => NothingOutlivesStop
  <2> SUFFICES ASSUME ServerInv, main = "stopped"
               PROVE  /\ acceptor.pc = "done"
                      /\ \A c \in Conn : thread[c].pc \in {"none", "done"}
                      /\ \A h \in Handle : owner[h] = None
    BY DEF NothingOutlivesStop
  <2>1. acceptor.pc = "done" /\ \A c \in Conn : thread[c].pc \in {"none", "done"}
    BY DEF ServerInv, StopProgress
  <2>2. ASSUME NEW h \in Handle PROVE owner[h] = None
    BY <2>1 DEF ServerInv, HandlesUsed, Working, Accepting, ServerTypeOK
  <2> QED BY <2>1, <2>2
<1> QED BY ServerInvariant, <1>1, PTL

=============================================================================
