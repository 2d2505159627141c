--------------------------- MODULE DeliveryProofs ---------------------------
(***************************************************************************)
(* Proofs about Delivery for any number of worker processes, sockets,      *)
(* clients and plans.  The connections only bring the coordinator messages *)
(* that Coordinator already allows, so Delivery implements Coordinator and *)
(* keeps everything proved of it.  On top of that, an EXECUTE names the    *)
(* incarnation its plan is bound to from the moment it leaves the handler  *)
(* until a process takes it, whoever has the socket by then.               *)
(***************************************************************************)
EXTENDS Delivery, PlanTableProofs

\* What a worker sends.
UpFrame == {Publish(i) : i \in 0 .. Len(Program)}
             \cup {Result(p, ok) : p \in PlanId, ok \in BOOLEAN}

\* The invariant about processes and what they send.
ConnectionInv ==
  /\ proc \in [Boot -> [sock : Socket \cup {None}, at : 0 .. Loop]]
  /\ peerOf \in [Socket -> Boot \cup {None}]
  /\ up \in [Socket -> Seq(UpFrame)]

\* The plans on record with the incarnations they are bound to, and what the
\* coordinator sends.
Executors == {<<p, plans[p].boot>> : p \in {q \in PlanId : Exists(q)}}
DownFrame == {Reply} \cup {Execute(x[1], x[2]) : x \in Executors}

\* The invariant about what the coordinator sends and what is executed.
ExecuteInv ==
  /\ down \in [Socket -> Seq(DownFrame)]
  /\ sending \in [Client -> {None} \cup [sock : Socket \cup {None}, frame : DownFrame]]
  /\ executed \subseteq Executors

-----------------------------------------------------------------------------
\* The kinds of frames are told apart by their type.
LEMMA ResultFields ==
  ASSUME NEW f \in UpFrame, f.type = "RESULT"
  PROVE  f.plan \in PlanId /\ f.ok \in BOOLEAN
<1>1. \A i : Publish(i).type = "PUBLISH"
  BY DEF Publish
<1>2. PICK p \in PlanId, ok \in BOOLEAN : f = Result(p, ok)
  BY <1>1 DEF UpFrame
<1>3. Result(p, ok).plan = p /\ Result(p, ok).ok = ok
  BY DEF Result
<1> QED BY <1>2, <1>3

LEMMA ExecuteFields ==
  ASSUME NEW p, NEW b, Execute(p, b) \in DownFrame
  PROVE  <<p, b>> \in Executors
<1>1. \A q, c : /\ Execute(q, c).type = "EXECUTE"
                /\ Execute(q, c).plan = q /\ Execute(q, c).boot = c
  BY DEF Execute
<1>2. Reply.type = "REPLY"
  BY DEF Reply
<1>3. PICK x \in Executors : Execute(p, b) = Execute(x[1], x[2])
  BY <1>1, <1>2 DEF DownFrame
<1>4. p = x[1] /\ b = x[2]
  BY <1>1, <1>3
<1> QED BY <1>3, <1>4 DEF Executors

\* A running process has a socket.
LEMMA RunningSocket ==
  ASSUME ConnectionInv, NEW b \in Boot, Running(b)
  PROVE  proc[b].sock \in Socket
  BY DEF ConnectionInv, Running

-----------------------------------------------------------------------------
\* No process and no connection: nothing sent.
LEMMA ConnectionInvInit == DeliveryInit => ConnectionInv
<1>1. 0 \in 0 .. Loop
  BY DeliveryAssumption DEF Loop
<1> QED BY <1>1 DEF DeliveryInit, ConnectionInv, NotRunning

\* Every step keeps the types of what workers send.
LEMMA ConnectionInvNext ==
  ASSUME ConnectionInv, [DeliveryNext]_deliveryVars
  PROVE  ConnectionInv'
<1> USE DEF ConnectionInv
<1> DEFINE P == [sock : Socket \cup {None}, at : 0 .. Loop]
<1>0. Len(Program) \in Nat /\ Loop = Len(Program) + 1
  BY DeliveryAssumption DEF Loop
<1>1. CASE UNCHANGED <<proc, peerOf, up>>
  BY <1>1
<1>2. ASSUME NEW b \in Boot, NEW s \in Socket, Start(b, s)
      PROVE  ConnectionInv'
  <2>1. [sock |-> s, at |-> 0] \in P
    BY <1>0
  <2>2. Publish(0) \in UpFrame
    BY <1>0 DEF UpFrame
  <2>3. <<Publish(0)>> \in Seq(UpFrame)
    BY <2>2
  <2>4. /\ proc' = [proc EXCEPT ![b] = [sock |-> s, at |-> 0]]
        /\ peerOf' = [peerOf EXCEPT ![s] = b]
        /\ up' = [up EXCEPT ![s] = <<Publish(0)>>]
    BY <1>2 DEF Start
  <2> QED BY <2>1, <2>3, <2>4
<1>3. ASSUME NEW b \in Boot, Die(b)
      PROVE  ConnectionInv'
  <2>1. NotRunning \in P
    BY <1>0 DEF NotRunning
  <2> QED BY <1>3, <2>1 DEF Die
<1>4. ASSUME NEW b \in Boot, WorkerAnswered(b)
      PROVE  ConnectionInv'
  <2> DEFINE s == proc[b].sock
             next == proc[b].at + 1
  <2>1. s \in Socket /\ proc[b] \in P
    BY <1>4, RunningSocket DEF WorkerAnswered
  <2>2. next \in 0 .. Loop /\ next \in Nat
    BY <1>0, <1>4, <2>1 DEF WorkerAnswered
  <2>3. [proc[b] EXCEPT !.at = next] \in P
    BY <2>1, <2>2
  <2>4. /\ proc' = [proc EXCEPT ![b].at = next] /\ peerOf' = peerOf
        /\ up' = IF next = Loop THEN up ELSE [up EXCEPT ![s] = Append(@, Publish(next))]
    BY <1>4 DEF WorkerAnswered
  <2>5. next # Loop => Publish(next) \in UpFrame
    BY <1>0, <2>2 DEF UpFrame
  <2>6. next # Loop => Append(up[s], Publish(next)) \in Seq(UpFrame)
    BY <2>1, <2>5
  <2>7. proc' \in [Boot -> P]
    BY <2>3, <2>4
  <2> HIDE DEF next, s
  <2>8. up' \in [Socket -> Seq(UpFrame)]
    BY <2>1, <2>4, <2>6
  <2> QED BY <2>4, <2>7, <2>8
<1>5. ASSUME NEW b \in Boot, WorkerDrops(b)
      PROVE  ConnectionInv'
  BY <1>1, <1>5 DEF WorkerDrops, Takes
<1>6. ASSUME NEW b \in Boot, NEW p \in PlanId, WorkerRefuses(b, p)
      PROVE  ConnectionInv'
  BY <1>1, <1>6 DEF WorkerRefuses, Takes
<1>7. ASSUME NEW b \in Boot, NEW p \in PlanId, NEW ok \in BOOLEAN, WorkerExecutes(b, p, ok)
      PROVE  ConnectionInv'
  <2>1. proc[b].sock \in Socket
    BY <1>7, RunningSocket DEF WorkerExecutes, Takes
  <2>2. Result(p, ok) \in UpFrame
    BY DEF UpFrame
  <2>3. Append(up[proc[b].sock], Result(p, ok)) \in Seq(UpFrame)
    BY <2>1, <2>2
  <2> QED BY <1>7, <2>1, <2>3 DEF WorkerExecutes, Takes
<1>8. ASSUME NEW s \in Socket, HandleFrame(s)
      PROVE  ConnectionInv'
  <2>1. /\ up[s] # <<>> /\ up' = [up EXCEPT ![s] = Tail(@)]
        /\ UNCHANGED <<proc, peerOf>>
    BY <1>8 DEF HandleFrame
  <2>2. Tail(up[s]) \in Seq(UpFrame)
    BY <2>1
  <2> QED BY <2>1, <2>2
<1>9. ASSUME NEW s \in Socket, HangUp(s)
      PROVE  ConnectionInv'
  BY <1>9 DEF HangUp
<1>10. ASSUME NEW c \in Client, NEW p \in PlanId, Handoff(c, p)
       PROVE  ConnectionInv'
  BY <1>1, <1>10 DEF Handoff
<1>11. ASSUME NEW c \in Client, SendExecute(c)
       PROVE  ConnectionInv'
  BY <1>1, <1>11 DEF SendExecute
<1>12. CASE OtherClientStep \/ UNCHANGED deliveryVars
  BY <1>1, <1>12 DEF OtherClientStep, deliveryVars, netVars
<1> QED BY <1>2, <1>3, <1>4, <1>5, <1>6, <1>7, <1>8, <1>9, <1>10, <1>11, <1>12
        DEF DeliveryNext, WorkerStep

-----------------------------------------------------------------------------
\* A frame that a connection thread handles is a message that Coordinator allows,
\* or one it answers with an error.
LEMMA HandledFrame ==
  ASSUME ConnectionInv, NEW s \in Socket, HandleFrame(s)
  PROVE  [Next]_vars
<1> DEFINE f == Head(up[s])
           b == peerOf[s]
<1>1. b \in Boot /\ f \in UpFrame
  <2>1. peerOf[s] # None /\ up[s] # <<>>
    BY DEF HandleFrame
  <2> QED BY <2>1 DEF ConnectionInv
<1>2. \/ HandleRegister(s, b)
      \/ \E item : HandlePublish(b, item)
      \/ f.type = "RESULT" /\ HandleResult(b, f.plan, f.ok)
  BY DEF HandleFrame
<1>3. f.type = "RESULT" => f.plan \in PlanId /\ f.ok \in BOOLEAN
  BY <1>1, ResultFields
<1> HIDE DEF f, b
<1>4. CASE HandleRegister(s, b)
  <2>1. CASE Register(s, Wid, b) /\ UNCHANGED <<brokerVars, planVars>>
    <3>1. EvidenceNext
      BY <1>1, <2>1, DeliveryAssumption DEF EvidenceNext
    <3> QED BY <2>1, <3>1 DEF Next, EvidenceStep
  <2> QED BY <1>4, <2>1 DEF HandleRegister
<1>5. ASSUME NEW item, HandlePublish(b, item)
      PROVE  [Next]_vars
  <2>1. ASSUME item \in Endpoint, NEW g \in Generation, PublishEndpoint(Wid, b, item, g, TRUE)
        PROVE  EvidenceNext
    BY <1>1, <2>1, DeliveryAssumption DEF EvidenceNext
  <2>2. ASSUME item \in Link, NEW g \in Generation, PublishLink(Wid, b, item, g, TRUE, FALSE)
        PROVE  EvidenceNext
    BY <1>1, <2>2, DeliveryAssumption DEF EvidenceNext
  <2>3. PublishCapacity => EvidenceNext
    BY DEF EvidenceNext
  <2>4. ASSUME NEW l \in Link, PublishCongestion(l, FALSE)
        PROVE  EvidenceNext
    BY <2>4, DeliveryAssumption DEF EvidenceNext
  <2>5. \/ UNCHANGED vars
        \/ EvidenceNext /\ UNCHANGED <<brokerVars, planVars>>
    BY <1>5, <2>1, <2>2, <2>3, <2>4 DEF HandlePublish
  <2> QED BY <2>5 DEF Next, EvidenceStep
<1>6. CASE f.type = "RESULT" /\ HandleResult(b, f.plan, f.ok)
  <2>1. CASE ExecutionResult(f.plan, Wid, b, f.ok)
    <3>1. ClientStep
      BY <1>1, <1>3, <1>6, <2>1, DeliveryAssumption DEF ClientStep
    <3> QED BY <3>1 DEF Next
  <2> QED BY <1>6, <2>1 DEF HandleResult
<1> QED BY <1>2, <1>4, <1>5, <1>6

\* Every step of the whole is a step of the coordinator or leaves it alone.
LEMMA StepOfCoordinator ==
  ASSUME ConnectionInv, [DeliveryNext]_deliveryVars
  PROVE  [Next]_vars
<1>1. CASE UNCHANGED vars
  BY <1>1
<1>2. ASSUME NEW b \in Boot, Die(b) \/ WorkerStep(b)
      PROVE  UNCHANGED vars
  BY <1>2 DEF Die, WorkerStep, WorkerAnswered, WorkerDrops, WorkerRefuses,
     WorkerExecutes, Takes
<1>3. ASSUME NEW b \in Boot, NEW s \in Socket, Start(b, s)
      PROVE  UNCHANGED vars
  BY <1>3 DEF Start
<1>4. ASSUME NEW s \in Socket, HandleFrame(s)
      PROVE  [Next]_vars
  BY <1>4, HandledFrame
<1>5. ASSUME NEW s \in Socket, HangUp(s)
      PROVE  [Next]_vars
  <2>1. UNCHANGED vars \/ (Disconnect(s) /\ UNCHANGED <<brokerVars, planVars>>)
    BY <1>5 DEF HangUp
  <2> QED BY <2>1 DEF Next, EvidenceStep, EvidenceNext
<1>6. ASSUME NEW c \in Client, NEW p \in PlanId, Handoff(c, p)
      PROVE  Next
  <2>1. ExecutionHandoff(p)
    BY <1>6 DEF Handoff
  <2> QED BY <2>1 DEF Next, ClientStep
<1>7. ASSUME NEW c \in Client, SendExecute(c)
      PROVE  UNCHANGED vars
  BY <1>7 DEF SendExecute
<1>8. CASE OtherClientStep
  BY <1>8 DEF OtherClientStep, Next, ClientStep
<1>9. CASE UNCHANGED deliveryVars
  BY <1>9 DEF deliveryVars
<1> QED BY <1>1, <1>2, <1>3, <1>4, <1>5, <1>6, <1>7, <1>8, <1>9 DEF DeliveryNext

\* What workers send is well typed, however processes start and die.
THEOREM ConnectionInvariant == DeliverySpec => []ConnectionInv
<1> QED BY ConnectionInvInit, ConnectionInvNext, PTL DEF DeliverySpec

\* The coordinator with its workers, their connections and the handles that the
\* operating system uses again implements Coordinator: evidence and results reach
\* the handlers in no order that Coordinator leaves out.
THEOREM DeliveryImplementsCoordinator == DeliverySpec => CoordinatorBehaves
<1>1. DeliveryInit => Init
  BY DEF DeliveryInit
<1> QED BY ConnectionInvariant, <1>1, StepOfCoordinator, PTL
        DEF DeliverySpec, CoordinatorBehaves, Spec

\* So what is proved of Coordinator holds with real connections: plans are handed
\* off on live incarnations only, a new plan with stages has a live executor and
\* one without stages has none, and no plan is bound to a topology generation
\* ahead of the snapshot's.
THEOREM DeliveryKeepsLiveEvidence ==
  DeliverySpec => HandoffOnLiveEvidence /\ NewPlanHasLiveExecutor /\ []BoundTopologyBehind
<1> QED BY DeliveryImplementsCoordinator, HandoffIsLive, ExecutorIsLive,
           TopologyStaysAhead, PTL DEF CoordinatorBehaves

-----------------------------------------------------------------------------
\* A plan keeps its executor, so a frame that names it stays right.
LEMMA ExecutorsStay ==
  ASSUME CoordinatorInv, IdsBelowNext, [Next]_vars
  PROVE  Executors \subseteq Executors' /\ DownFrame \subseteq DownFrame'
<1>1. ASSUME NEW p \in PlanId, Exists(p)
      PROVE  plans'[p].state # "ABSENT" /\ plans'[p].boot = plans[p].boot
  BY <1>1, BindingsStay DEF Bindings
<1>2. Executors \subseteq Executors'
  BY <1>1 DEF Executors, Exists, PlanId
<1> QED BY <1>2 DEF DownFrame

\* Nothing is sent or executed at first.
LEMMA ExecuteInvInit == DeliveryInit => ExecuteInv
  BY DEF DeliveryInit, ExecuteInv

\* Every step keeps the frames right.
LEMMA ExecuteInvNext ==
  ASSUME CoordinatorInv, IdsBelowNext, ConnectionInv, ExecuteInv,
         [DeliveryNext]_deliveryVars
  PROVE  ExecuteInv'
<1> DEFINE F == DownFrame'
           Pending == {None} \cup [sock : Socket \cup {None}, frame : F]
<1>1. Executors \subseteq Executors' /\ DownFrame \subseteq F
  BY StepOfCoordinator, ExecutorsStay
<1>2. /\ down \in [Socket -> Seq(F)] /\ sending \in [Client -> Pending]
      /\ executed \subseteq Executors'
  BY <1>1 DEF ExecuteInv
<1>3. Reply \in F
  BY DEF DownFrame
<1>4. SUFFICES /\ down' \in [Socket -> Seq(F)] /\ sending' \in [Client -> Pending]
               /\ executed' \subseteq Executors'
  BY DEF ExecuteInv
<1> HIDE DEF F, Pending
<1>5. CASE UNCHANGED <<down, sending, executed>>
  BY <1>2, <1>5
<1>6. ASSUME NEW b \in Boot, NEW s \in Socket, Start(b, s)
      PROVE  UNCHANGED <<down, sending, executed>>
  BY <1>6 DEF Start
<1>7. ASSUME NEW b \in Boot, Die(b)
      PROVE  down' \in [Socket -> Seq(F)] /\ UNCHANGED <<sending, executed>>
  <2>1. <<>> \in Seq(F)
    OBVIOUS
  <2>2. /\ down' = [down EXCEPT ![proc[b].sock] = <<>>] /\ UNCHANGED <<sending, executed>>
    BY <1>7 DEF Die
  <2> QED BY <1>2, <2>1, <2>2
<1>8. ASSUME NEW b \in Boot, NEW s \in Socket, down[s] # <<>>,
             down' = [down EXCEPT ![s] = Tail(@)]
      PROVE  down' \in [Socket -> Seq(F)]
  <2>1. Tail(down[s]) \in Seq(F)
    BY <1>2, <1>8
  <2> QED BY <1>2, <1>8, <2>1
<1>9. ASSUME NEW b \in Boot, WorkerAnswered(b)
      PROVE  down' \in [Socket -> Seq(F)] /\ UNCHANGED <<sending, executed>>
  <2>1. proc[b].sock \in Socket
    BY <1>9, RunningSocket DEF WorkerAnswered
  <2> QED BY <1>8, <1>9, <2>1 DEF WorkerAnswered
<1>10. ASSUME NEW b \in Boot, NEW f, Takes(b, f)
       PROVE  /\ down' \in [Socket -> Seq(F)] /\ sending' = sending
              /\ f \in DownFrame
  <2>1. proc[b].sock \in Socket
    BY <1>10, RunningSocket DEF Takes
  <2>2. Head(down[proc[b].sock]) \in DownFrame
    BY <1>10, <2>1 DEF Takes, ExecuteInv
  <2> QED BY <1>8, <1>10, <2>1, <2>2 DEF Takes
<1>11. ASSUME NEW b \in Boot, WorkerDrops(b) \/ \E p \in PlanId : WorkerRefuses(b, p)
       PROVE  down' \in [Socket -> Seq(F)] /\ UNCHANGED <<sending, executed>>
  BY <1>10, <1>11 DEF WorkerDrops, WorkerRefuses
<1>12. ASSUME NEW b \in Boot, NEW p \in PlanId, NEW ok \in BOOLEAN, WorkerExecutes(b, p, ok)
       PROVE  /\ down' \in [Socket -> Seq(F)] /\ sending' = sending
              /\ executed' \subseteq Executors'
  <2>1. /\ down' \in [Socket -> Seq(F)] /\ sending' = sending
        /\ Execute(p, b) \in DownFrame
    BY <1>10, <1>12 DEF WorkerExecutes
  <2>2. <<p, b>> \in Executors
    BY <2>1, ExecuteFields
  <2>3. executed' = executed \cup {<<p, b>>}
    BY <1>12 DEF WorkerExecutes
  <2> QED BY <1>1, <1>2, <2>1, <2>2, <2>3
<1>13. ASSUME NEW s \in Socket, HandleFrame(s)
       PROVE  down' \in [Socket -> Seq(F)] /\ UNCHANGED <<sending, executed>>
  <2>1. /\ down' = down \/ down' = [down EXCEPT ![s] = Append(@, Reply)]
        /\ UNCHANGED <<sending, executed>>
    BY <1>13 DEF HandleFrame
  <2>2. Append(down[s], Reply) \in Seq(F)
    BY <1>2, <1>3
  <2> QED BY <1>2, <2>1, <2>2
<1>14. ASSUME NEW s \in Socket, HangUp(s)
       PROVE  UNCHANGED <<down, sending, executed>>
  BY <1>14 DEF HangUp
<1>15. ASSUME NEW c \in Client, NEW p \in PlanId, Handoff(c, p)
       PROVE  sending' \in [Client -> Pending] /\ UNCHANGED <<down, executed>>
  <2> DEFINE w == plans[p].worker
             order == [sock |-> workers[w].sock, frame |-> Execute(p, plans[p].boot)]
  <2>1. /\ UNCHANGED <<down, executed>> /\ Exists(p)
        /\ \/ sending' = [sending EXCEPT ![c] = None]
           \/ /\ w # None /\ sending' = [sending EXCEPT ![c] = order]
    BY <1>15 DEF Handoff, ExecutionHandoff
  <2>2. None \in Pending
    BY DEF Pending
  <2>3. w # None => order \in Pending
    <3>1. <<p, plans[p].boot>> \in Executors
      BY <2>1 DEF Executors
    <3>2. Execute(p, plans[p].boot) \in DownFrame
      BY <3>1 DEF DownFrame
    <3>3. w # None => w \in Worker
      BY DEF CoordinatorInv, PlanInv, PlansTypeOK, PlanRecord
    <3>4. w # None => workers[w].sock \in Socket \cup {None}
      BY <3>3 DEF CoordinatorInv, EvidenceInv, EvidenceTypeOK, WorkerInfo
    <3> QED BY <1>1, <3>2, <3>4 DEF Pending
  <2> HIDE DEF w, order
  <2> QED BY <1>2, <2>1, <2>2, <2>3
<1>16. ASSUME NEW c \in Client, SendExecute(c)
       PROVE  /\ down' \in [Socket -> Seq(F)] /\ sending' \in [Client -> Pending]
              /\ executed' = executed
  <2> DEFINE s == sending[c].sock
             f == sending[c].frame
  <2>1. /\ down' = down \/ down' = [down EXCEPT ![s] = Append(@, f)]
        /\ sending' = [sending EXCEPT ![c] = None] /\ executed' = executed
        /\ sending[c] # None
    BY <1>16 DEF SendExecute
  <2>2. f \in F
    BY <1>2, <2>1 DEF Pending
  <2>3. None \in Pending
    BY DEF Pending
  <2>4. s \in Socket => Append(down[s], f) \in Seq(F)
    BY <1>2, <2>2
  <2> HIDE DEF s, f
  <2>5. down' \in [Socket -> Seq(F)]
    BY <1>2, <2>1, <2>4
  <2> QED BY <1>2, <2>1, <2>3, <2>5
<1>17. CASE OtherClientStep \/ UNCHANGED deliveryVars
  BY <1>5, <1>17 DEF OtherClientStep, deliveryVars, netVars
<1> QED BY <1>2, <1>5, <1>6, <1>7, <1>9, <1>11, <1>12, <1>13, <1>14, <1>15, <1>16, <1>17
        DEF DeliveryNext, WorkerStep

\* Only the incarnation a plan was bound to executes it, for any number of worker
\* processes that die, restart and get each other's handles while an EXECUTE is
\* between the unlock of EXECUTION_HANDOFF and the send.
THEOREM OnlyItsExecutorExecutes == DeliverySpec => []ExecutedByItsExecutor
<1>1. ExecuteInv => ExecutedByItsExecutor
  BY DEF ExecuteInv, Executors, ExecutedByItsExecutor
<1>2. DeliverySpec => []CoordinatorInv /\ []IdsBelowNext
  BY DeliveryImplementsCoordinator, CoordinatorInvariant, IdsInvariant, PTL
     DEF CoordinatorBehaves
<1> QED BY ConnectionInvariant, ExecuteInvInit, ExecuteInvNext, <1>1, <1>2, PTL
        DEF DeliverySpec

=============================================================================
