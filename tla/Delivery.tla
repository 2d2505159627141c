------------------------------ MODULE Delivery ------------------------------
(***************************************************************************)
(* The coordinator together with the processes that execute its plans      *)
(* (cuda/cuda_worker_main.cu) and the connections between them.  A worker  *)
(* process registers, publishes its endpoints, link, capacity and          *)
(* congestion, each time taking the next frame for the answer, and then    *)
(* serves EXECUTE frames.  EXECUTION_HANDOFF reads the worker's socket     *)
(* under Impl::mtx and sends the EXECUTE after the unlock, when the socket *)
(* handle may already be closed or belong to another process.              *)
(*                                                                         *)
(* A process is named by its boot; all of them are the worker Wid.  Death  *)
(* is noticed late: the connection thread first reads what it still gets,  *)
(* then fences the worker and frees the handle.  What clients do besides   *)
(* submitting, handing off and cancelling their own plans is left to       *)
(* Coordinator.                                                            *)
(***************************************************************************)
EXTENDS Coordinator, Sequences

CONSTANTS
  Wid,            \* the worker id of cuda_worker_main
  Client,         \* connection threads that handle EXECUTION_HANDOFF
  Program,        \* what a process publishes after REGISTER, in order
  MaxHandoffs,    \* bound: handoffs
  MaxStarts       \* bound: worker processes started

ASSUME DeliveryAssumption ==
  /\ Wid \in Worker
  /\ Program \in Seq(Endpoint \cup Link \cup {"CAPACITY", "CONGESTION"})
  /\ TRUE \in EndpointUp /\ TRUE \in LinkHealthy /\ FALSE \in LinkHard
  /\ MaxHandoffs \in Nat /\ MaxStarts \in Nat

VARIABLES
  proc,        \* proc[b]: the process with boot b, its socket and where it is
  peerOf,      \* peerOf[s]: the process that connected on handle s; None: free
  up, down,    \* frames under way on s, to the coordinator and to the worker
  sending,     \* sending[c]: an EXECUTE between the unlock and the send
  starts, handoffs,   \* worker processes started and handoffs made so far
  executed,    \* the executions so far: <<plan, boot>>
  refused      \* the EXECUTEs a worker took and could not run

netVars == <<proc, peerOf, up, down, sending, starts, handoffs, executed, refused>>
deliveryVars == <<vars, netVars>>

\* at = 0: REGISTER; at in 1 .. Len(Program): publishing; beyond: the loop.
NotRunning == [sock |-> None, at |-> 0]
Loop == Len(Program) + 1

Execute(p, b) == [type |-> "EXECUTE", plan |-> p, boot |-> b]
Result(p, ok) == [type |-> "RESULT", plan |-> p, ok |-> ok]
Publish(i) == [type |-> "PUBLISH", step |-> i]
Reply == [type |-> "REPLY"]

DeliveryInit ==
  /\ Init
  /\ proc = [b \in Boot |-> NotRunning]
  /\ peerOf = [s \in Socket |-> None]
  /\ up = [s \in Socket |-> <<>>] /\ down = [s \in Socket |-> <<>>]
  /\ sending = [c \in Client |-> None]
  /\ starts = 0 /\ handoffs = 0 /\ executed = {} /\ refused = {}

Running(b) == proc[b].sock # None

\* The process at the other end of s is still there.
Connected(s) == peerOf[s] # None /\ proc[peerOf[s]].sock = s

-----------------------------------------------------------------------------
\* A worker process starts, connects and sends REGISTER; a boot may be used
\* again.
Start(b, s) ==
  /\ starts < MaxStarts
  /\ ~Running(b) /\ peerOf[s] = None
  /\ proc' = [proc EXCEPT ![b] = [sock |-> s, at |-> 0]]
  /\ peerOf' = [peerOf EXCEPT ![s] = b]
  /\ up' = [up EXCEPT ![s] = <<Publish(0)>>]
  /\ starts' = starts + 1
  /\ UNCHANGED <<vars, down, sending, handoffs, executed, refused>>

\* The process dies; what it had not read is gone.
Die(b) ==
  /\ Running(b)
  /\ proc' = [proc EXCEPT ![b] = NotRunning]
  /\ down' = [down EXCEPT ![proc[b].sock] = <<>>]
  /\ UNCHANGED <<vars, peerOf, up, sending, starts, handoffs, executed, refused>>

\* A process in its start-up takes the next frame for the answer, whatever it
\* is, and sends its next publication.
WorkerAnswered(b) ==
  LET s == proc[b].sock
      next == proc[b].at + 1
  IN
  /\ Running(b) /\ proc[b].at < Loop /\ down[s] # <<>>
  /\ down' = [down EXCEPT ![s] = Tail(@)]
  /\ up' = IF next = Loop THEN up ELSE [up EXCEPT ![s] = Append(@, Publish(next))]
  /\ proc' = [proc EXCEPT ![b].at = next]
  /\ UNCHANGED <<vars, peerOf, sending, starts, handoffs, executed, refused>>

\* The execute loop takes frame f.
Takes(b, f) ==
  /\ Running(b) /\ proc[b].at = Loop
  /\ down[proc[b].sock] # <<>> /\ Head(down[proc[b].sock]) = f
  /\ down' = [down EXCEPT ![proc[b].sock] = Tail(@)]
  /\ UNCHANGED <<vars, proc, peerOf, sending, starts, handoffs>>

\* Anything but an EXECUTE for this boot is dropped.
WorkerDrops(b) ==
  /\ \/ Takes(b, Reply)
     \/ \E p \in PlanId, other \in Boot \ {b} : Takes(b, Execute(p, other))
  /\ UNCHANGED <<up, executed, refused>>

\* Mutation: the boot of the EXECUTE is not compared.
WorkerExecutesAnyBoot(b, p, ok) ==
  /\ \E other \in Boot : Takes(b, Execute(p, other))
  /\ executed' = executed \cup {<<p, b>>}
  /\ up' = [up EXCEPT ![proc[b].sock] = Append(@, Result(p, ok))]
  /\ UNCHANGED refused

\* Mutation: only a success is reported.
WorkerExecutesQuietly(b, p, ok) ==
  /\ Takes(b, Execute(p, b))
  /\ executed' = executed \cup {<<p, b>>}
  /\ up' = [up EXCEPT ![proc[b].sock] = IF ok THEN Append(@, Result(p, ok)) ELSE @]
  /\ UNCHANGED refused

\* The transfer runs, and its outcome is reported.
WorkerExecutes(b, p, ok) ==
  /\ Takes(b, Execute(p, b))
  /\ executed' = executed \cup {<<p, b>>}
  /\ up' = [up EXCEPT ![proc[b].sock] = Append(@, Result(p, ok))]
  /\ UNCHANGED refused

\* The payload is smaller than an int, or an allocation fails: no answer.
WorkerRefuses(b, p) ==
  /\ Takes(b, Execute(p, b))
  /\ refused' = refused \cup {<<p, b>>}
  /\ UNCHANGED <<up, executed>>

-----------------------------------------------------------------------------
\* The handlers, for a frame of the process with boot b on socket s.
HandleRegister(s, b) ==
  \/ Register(s, Wid, b) /\ UNCHANGED <<brokerVars, planVars>>
  \/ <<Wid, b>> \in fenced /\ UNCHANGED vars

HandlePublish(b, item) ==
  \/ /\ item \in Endpoint
     /\ \E g \in Generation : PublishEndpoint(Wid, b, item, g, TRUE)
     /\ UNCHANGED <<brokerVars, planVars>>
  \/ /\ item \in Link
     /\ \E g \in Generation : PublishLink(Wid, b, item, g, TRUE, FALSE)
     /\ UNCHANGED <<brokerVars, planVars>>
  \/ /\ item \in Endpoint \cup Link /\ ~Authorized(Wid, b)
     /\ UNCHANGED vars
  \/ /\ item = "CAPACITY" /\ PublishCapacity
     /\ UNCHANGED <<brokerVars, planVars>>
  \/ /\ item = "CONGESTION" /\ \E l \in Link : PublishCongestion(l, FALSE)
     /\ UNCHANGED <<brokerVars, planVars>>

HandleResult(b, p, ok) ==
  \/ ExecutionResult(p, Wid, b, ok)
  \/ /\ <<plans[p].state, plans[p].worker, plans[p].boot>> # <<"ACTIVE", Wid, b>>
     /\ UNCHANGED vars

\* The connection thread of s takes a frame, handles it and answers.
HandleFrame(s) ==
  /\ peerOf[s] # None /\ up[s] # <<>>
  /\ LET f == Head(up[s])
         b == peerOf[s]
     IN  \/ f = Publish(0) /\ HandleRegister(s, b)
         \/ f.type = "PUBLISH" /\ f.step > 0 /\ HandlePublish(b, Program[f.step])
         \/ f.type = "RESULT" /\ HandleResult(b, f.plan, f.ok)
  /\ up' = [up EXCEPT ![s] = Tail(@)]
  /\ down' = IF Connected(s) THEN [down EXCEPT ![s] = Append(@, Reply)] ELSE down
  /\ UNCHANGED <<proc, peerOf, sending, starts, handoffs, executed, refused>>

\* Mutation: the worker is forgotten, not fenced.
HangUpUnfenced(s) ==
  /\ peerOf[s] # None /\ ~Connected(s)
  /\ socketToWorker' = [socketToWorker EXCEPT ![s] = None]
  /\ UNCHANGED <<workers, workerBoots, fenced, endpoints, links, topologyGeneration,
                 capacityGeneration, congestionGeneration, brokerVars, planVars>>
  /\ peerOf' = [peerOf EXCEPT ![s] = None]
  /\ up' = [up EXCEPT ![s] = <<>>]
  /\ UNCHANGED <<proc, down, sending, starts, handoffs, executed, refused>>

\* recvFrame fails: the worker registered on s is fenced and the handle closed.
HangUp(s) ==
  /\ peerOf[s] # None /\ ~Connected(s)
  /\ IF socketToWorker[s] = None THEN UNCHANGED vars
     ELSE Disconnect(s) /\ UNCHANGED <<brokerVars, planVars>>
  /\ peerOf' = [peerOf EXCEPT ![s] = None]
  /\ up' = [up EXCEPT ![s] = <<>>]
  /\ UNCHANGED <<proc, down, sending, starts, handoffs, executed, refused>>

\* EXECUTION_HANDOFF up to the unlock.
Handoff(c, p) ==
  /\ handoffs < MaxHandoffs
  /\ sending[c] = None
  /\ ExecutionHandoff(p)
  /\ LET w == plans[p].worker IN
     sending' = [sending EXCEPT ![c] =
       IF Revalidates(plans[p]) /\ w # None /\ workers[w].alive
       THEN [sock |-> workers[w].sock, frame |-> Execute(p, plans[p].boot)]
       ELSE None]
  /\ handoffs' = handoffs + 1
  /\ UNCHANGED <<proc, peerOf, up, down, starts, executed, refused>>

\* The send after the unlock, to whoever has the handle now.
SendExecute(c) ==
  /\ sending[c] # None
  /\ LET s == sending[c].sock IN
     down' = IF Connected(s) THEN [down EXCEPT ![s] = Append(@, sending[c].frame)]
             ELSE down
  /\ sending' = [sending EXCEPT ![c] = None]
  /\ UNCHANGED <<vars, proc, peerOf, up, starts, handoffs, executed, refused>>

-----------------------------------------------------------------------------
\* The messages of clients that make plans and cancel the plans they made.
OtherClientStep ==
  /\ \/ \E r \in Request : SubmitFeasible(r)
     \/ \E r \in Request, p \in PlanId : plans[p].req = r /\ Cancel(r, p)
  /\ UNCHANGED netVars

WorkerStep(b) ==
  \/ WorkerAnswered(b) \/ WorkerDrops(b)
  \/ \E p \in PlanId : WorkerRefuses(b, p)
  \/ \E p \in PlanId, ok \in BOOLEAN : WorkerExecutes(b, p, ok)

DeliveryNext ==
  \/ \E b \in Boot, s \in Socket : Start(b, s)
  \/ \E b \in Boot : Die(b) \/ WorkerStep(b)
  \/ \E s \in Socket : HandleFrame(s) \/ HangUp(s)
  \/ \E c \in Client, p \in PlanId : Handoff(c, p)
  \/ \E c \in Client : SendExecute(c)
  \/ OtherClientStep

\* Workers and connection threads keep running; clients owe nothing, and
\* processes are free to die and to be started.
DeliveryFairness ==
  /\ \A b \in Boot : WF_deliveryVars(WorkerStep(b))
  /\ \A s \in Socket : WF_deliveryVars(HandleFrame(s))
  /\ \A c \in Client : WF_deliveryVars(SendExecute(c))

DeliverySpec == DeliveryInit /\ [][DeliveryNext]_deliveryVars /\ DeliveryFairness

-----------------------------------------------------------------------------
\* Only the incarnation a plan was bound to executes it, even when its EXECUTE
\* was sent on a handle that another process has by then.
ExecutedByItsExecutor ==
  \A p \in PlanId, b \in Boot : <<p, b>> \in executed => plans[p].boot = b

\* The EXECUTE of p is on its way to the loop of its executor b.
UnderWay(p, b) ==
  /\ Running(b) /\ proc[b].at = Loop
  /\ \/ \E i \in DOMAIN down[proc[b].sock] : down[proc[b].sock][i] = Execute(p, b)
     \/ \E c \in Client : sending[c] = [sock |-> proc[b].sock, frame |-> Execute(p, b)]

\* An EXECUTE that is on its way to the loop of its executor makes the plan leave
\* ACTIVE, unless the process dies or cannot run the transfer.
ExecuteAnswered ==
  \A p \in PlanId, b \in Boot :
    UnderWay(p, b) ~> (plans[p].state # "ACTIVE" \/ ~Running(b) \/ <<p, b>> \in refused)

\* With its workers and connections the coordinator still behaves as specified
\* in Coordinator, where evidence and results arrive in any order.
CoordinatorBehaves == Spec

=============================================================================
