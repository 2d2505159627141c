-------------------------- MODULE PlanTableProofs --------------------------
(***************************************************************************)
(* More about Coordinator for any number of workers, threads, requests,    *)
(* routes and plans: which plan is current, what a plan is bound to, and   *)
(* when a plan becomes COMMITTED.  All of it rests on one case             *)
(* distinction: a step either records a new plan or leaves every plan's    *)
(* bindings and the choice of current plans alone.                         *)
(***************************************************************************)
EXTENDS CoordinatorProofs

\* What a plan is bound to: all of it but the state.
Bindings(rec) ==
  << rec.req, rec.primary, rec.paths, rec.ends, rec.links,
     rec.topology, rec.congestion, rec.capacity, rec.worker, rec.boot >>

\* A step that leaves the bindings of the plans alone.
BindingsKept ==
  /\ UNCHANGED <<nextPlan, currentByRequest>>
  /\ \A p \in PlanId :
       /\ Bindings(plans'[p]) = Bindings(plans[p])
       /\ (plans'[p].state = "ABSENT") <=> (plans[p].state = "ABSENT")

\* A step that records a plan of request r for usable routes.
PlanRecorded(r) ==
  /\ nextPlan \in PlanId /\ nextPlan' = nextPlan + 1
  /\ currentByRequest' = [currentByRequest EXCEPT ![r] = nextPlan]
  /\ UNCHANGED evidenceVars
  /\ \E primary \in Route, fallbacks \in SUBSET Route :
       /\ RouteUsable(primary)
       /\ RouteLinks[primary] = {} => fallbacks = {}
       /\ plans' = [plans EXCEPT ![nextPlan] = NewPlan(r, primary, fallbacks)]

\* SetState keeps the bindings.
LEMMA SetStateKeeps ==
  ASSUME PlansTypeOK, NEW p \in PlanId, NEW s \in PlanState, Exists(p), SetState(p, s),
         UNCHANGED <<nextPlan, currentByRequest>>
  PROVE  BindingsKept
<1>1. plans[p] \in PlanRecord /\ plans \in [PlanId -> PlanRecord]
  BY DEF PlansTypeOK
<1>2. plans'[p] = [plans[p] EXCEPT !.state = s] /\ \A q \in PlanId \ {p} : plans'[q] = plans[q]
  BY <1>1 DEF SetState
<1>3. Bindings(plans'[p]) = Bindings(plans[p]) /\ plans'[p].state = s
  BY <1>1, <1>2 DEF PlanRecord, Bindings
<1>4. s # "ABSENT"
  BY DEF PlanState
<1> QED BY <1>2, <1>3, <1>4 DEF BindingsKept, Exists

\* The case distinction.
LEMMA RecordedOrKept ==
  ASSUME CoordinatorInv, [Next]_vars
  PROVE  BindingsKept \/ \E r \in Request : PlanRecorded(r)
<1> USE DEF CoordinatorInv
<1>1. CASE UNCHANGED <<plans, nextPlan, currentByRequest>>
  BY <1>1 DEF BindingsKept
<1>2. CASE EvidenceStep \/ UNCHANGED vars
  BY <1>1, <1>2 DEF EvidenceStep, vars, planVars
<1>3. ASSUME NEW q \in PlanId, NEW s \in PlanState, Exists(q), SetState(q, s),
             UNCHANGED <<nextPlan, currentByRequest>>
      PROVE  BindingsKept
  BY <1>3, SetStateKeeps DEF PlanInv
<1>4. ASSUME NEW r \in Request, SubmitFeasible(r)
      PROVE  PlanRecorded(r)
  <2>1. /\ nextPlan \in PlanId /\ nextPlan' = nextPlan + 1
        /\ currentByRequest' = [currentByRequest EXCEPT ![r] = nextPlan]
        /\ UNCHANGED evidenceVars
    BY <1>4 DEF SubmitFeasible, Current
  <2>2. \E primary \in Route, fallbacks \in SUBSET Route :
          /\ RouteUsable(primary)
          /\ RouteLinks[primary] = {} => fallbacks = {}
          /\ plans' = [plans EXCEPT ![nextPlan] = NewPlan(r, primary, fallbacks)]
    <3>1. PICK primary \in Candidates[r], fallbacks \in SUBSET Candidates[r] :
            /\ primary \notin fallbacks /\ RouteUsable(primary)
            /\ plans' = [plans EXCEPT ![nextPlan] = NewPlan(r, primary, fallbacks)]
      BY <1>4 DEF SubmitFeasible
    <3>2. RouteLinks[primary] = {} => Candidates[r] = {primary}
      BY CoordinatorAssumption
    <3>3. RouteLinks[primary] = {} => fallbacks = {}
      BY <3>1, <3>2
    <3>4. primary \in Route /\ fallbacks \in SUBSET Route
      BY CoordinatorAssumption
    <3> QED BY <3>1, <3>3, <3>4
  <2> QED BY <2>1, <2>2 DEF PlanRecorded
<1>5. ASSUME NEW r \in Request, SubmitInfeasible(r)
      PROVE  BindingsKept
  BY <1>1, <1>5 DEF SubmitInfeasible, BindingsKept
<1>6. ASSUME NEW t \in Thread, NEW q \in PlanId, CommitBegin(t, q)
      PROVE  BindingsKept
  BY <1>3, <1>6 DEF CommitBegin, Exists, PlanState
<1>7. ASSUME NEW q \in PlanId, Revalidate(q)
      PROVE  BindingsKept
  BY <1>3, <1>7 DEF Revalidate, PlanState
<1>8. ASSUME NEW q \in PlanId, ExecutionHandoff(q)
      PROVE  BindingsKept
  BY <1>3, <1>8 DEF ExecutionHandoff, PlanState
<1>9. ASSUME NEW q \in PlanId, NEW w \in Worker \cup {None}, NEW b \in Boot,
             NEW ok \in BOOLEAN, ExecutionResult(q, w, b, ok)
      PROVE  BindingsKept
  BY <1>3, <1>9 DEF ExecutionResult, PlanState, Exists
<1>10. ASSUME NEW r \in Request, NEW q \in PlanId, Cancel(r, q)
       PROVE  BindingsKept
  <2>1. UNCHANGED <<nextPlan, currentByRequest>> /\ "CANCELLED" \in PlanState
    BY <1>10 DEF Cancel, PlanState
  <2>2. plans' = plans \/ (Exists(q) /\ SetState(q, "CANCELLED"))
    BY <1>10 DEF Cancel, Exists
  <2> QED BY <1>3, <2>1, <2>2 DEF BindingsKept
<1>11. ASSUME NEW r \in Request, NEW q \in PlanId, Supersede(r, q)
       PROVE  BindingsKept
  <2>1. UNCHANGED <<nextPlan, currentByRequest>>
    BY <1>11 DEF Supersede
  <2>2. ASSUME NEW p \in PlanId
        PROVE  /\ Bindings(plans'[p]) = Bindings(plans[p])
               /\ (plans'[p].state = "ABSENT") <=> (plans[p].state = "ABSENT")
    <3>1. plans[p] \in PlanRecord
      BY DEF PlanInv, PlansTypeOK
    <3>2. LET d == [plans[p] EXCEPT !.state = "SUPERSEDED"] IN
          Bindings(d) = Bindings(plans[p]) /\ d.state = "SUPERSEDED"
      BY <3>1 DEF PlanRecord, Bindings
    <3>3. \/ plans'[p] = plans[p]
          \/ plans'[p] = [plans[p] EXCEPT !.state = "SUPERSEDED"] /\ Exists(p)
      <4>1. p # None
        BY CoordinatorAssumption DEF PlanId
      <4>2. p = currentByRequest[r] => Exists(p)
        BY <4>1 DEF CurrentOnRecord
      <4>3. \/ plans'[p] = plans[p]
            \/ /\ plans'[p] = [plans[p] EXCEPT !.state = "SUPERSEDED"]
               /\ p = currentByRequest[r] \/ plans[p].state # "ABSENT"
        BY <1>11 DEF Supersede
      <4> QED BY <4>2, <4>3 DEF Exists
    <3> QED BY <3>2, <3>3 DEF Exists
  <2> QED BY <2>1, <2>2 DEF BindingsKept
<1>12. ASSUME NEW t \in Thread, CommitStep(t)
       PROVE  BindingsKept
  <2>1. CASE CommitAcquire(t)
    BY <2>1 DEF CommitAcquire, planVars, BindingsKept
  <2>2. ASSUME CommitEnd(t)
        PROVE  /\ commit[t] \in PlanId /\ Exists(commit[t])
               /\ UNCHANGED <<nextPlan, currentByRequest>>
    BY <2>2 DEF CommitEnd, AcquireReturn, PlanInv, CommitCallMatches, PlansTypeOK
  <2>3. CASE CommitWithdrawn(t)
    BY <1>3, <2>2, <2>3 DEF CommitWithdrawn, PlanState
  <2>4. CASE CommitRefused(t)
    BY <1>3, <2>2, <2>4 DEF CommitRefused, PlanState
  <2>5. CASE CommitDone(t)
    BY <1>3, <2>2, <2>5 DEF CommitDone, PlanState
  <2> QED BY <1>12, <2>1, <2>3, <2>4, <2>5 DEF CommitStep
<1> QED BY <1>2, <1>4, <1>5, <1>6, <1>7, <1>8, <1>9, <1>10, <1>11, <1>12
        DEF Next, ClientStep

-----------------------------------------------------------------------------
\* The topology generation never goes back.
LEMMA TopologyMonotone ==
  ASSUME CoordinatorInv, [Next]_vars
  PROVE  /\ topologyGeneration \in Nat /\ topologyGeneration' \in Nat
         /\ topologyGeneration' >= topologyGeneration
<1>1. [EvidenceNext]_evidenceVars
  BY DEF Next, EvidenceStep, ClientStep, CommitStep, SubmitFeasible,
     SubmitInfeasible, CommitBegin, Revalidate, ExecutionHandoff, ExecutionResult,
     Cancel, Supersede, CommitAcquire, CommitWithdrawn, CommitRefused, CommitDone,
     CommitEnd, vars
<1>2. topologyGeneration \in Nat
  BY DEF CoordinatorInv, EvidenceInv, EvidenceTypeOK
<1>3. topologyGeneration' = topologyGeneration \/ topologyGeneration' = topologyGeneration + 1
  BY <1>1 DEF EvidenceNext, Register, PublishEndpoint, PublishLink, PublishCapacity,
     PublishCongestion, Disconnect, FenceWorker, evidenceVars
<1> QED BY <1>2, <1>3

\* What a recorded plan is.
LEMMA NewPlanFields ==
  ASSUME NEW r, NEW primary, NEW fallbacks
  PROVE  LET rec == NewPlan(r, primary, fallbacks) IN
         /\ rec.req = r /\ rec.state = "PLAN_READY" /\ rec.topology = topologyGeneration
         /\ rec.worker = Executor(primary)[1] /\ rec.boot = Executor(primary)[2]
         /\ \A l \in Link : rec.links[l] = IF \E q \in {primary} \cup fallbacks : l \in RouteLinks[q]
                                          THEN links[l].gen ELSE None
  BY DEF NewPlan, Binding

\* The new plan takes the next id and the others stay.
LEMMA RecordedPlan ==
  ASSUME CoordinatorInv, NEW r \in Request, PlanRecorded(r)
  PROVE  /\ \A p \in PlanId \ {nextPlan} : plans'[p] = plans[p]
         /\ plans'[nextPlan].req = r /\ plans'[nextPlan].state = "PLAN_READY"
         /\ plans'[nextPlan].topology = topologyGeneration
<1>1. PICK primary \in Route, fallbacks \in SUBSET Route :
        plans' = [plans EXCEPT ![nextPlan] = NewPlan(r, primary, fallbacks)]
  BY DEF PlanRecorded
<1>2. plans \in [PlanId -> PlanRecord] /\ nextPlan \in PlanId
  BY DEF CoordinatorInv, PlanInv, PlansTypeOK, PlanRecorded
<1>3. plans'[nextPlan] = NewPlan(r, primary, fallbacks)
  BY <1>1, <1>2
<1>4. \A p \in PlanId \ {nextPlan} : plans'[p] = plans[p]
  BY <1>1, <1>2
<1> QED BY <1>3, <1>4, NewPlanFields

\* revalidatePlan's "topology generation regressed" cannot happen within one life
\* of the process.
THEOREM TopologyStaysAhead == Spec => []BoundTopologyBehind
<1>1. Init => BoundTopologyBehind
  BY DEF Init, EvidenceInit, PlansInit, NoPlan, BoundTopologyBehind
<1>2. ASSUME CoordinatorInv, BoundTopologyBehind, [Next]_vars
      PROVE  BoundTopologyBehind'
  <2>1. /\ topologyGeneration \in Nat /\ topologyGeneration' \in Nat
        /\ topologyGeneration' >= topologyGeneration
    BY <1>2, TopologyMonotone
  <2>2. \A p \in PlanId : plans[p].topology \in Nat /\ plans[p].topology <= topologyGeneration
    BY <1>2 DEF CoordinatorInv, PlanInv, PlansTypeOK, PlanRecord, BoundTopologyBehind
  <2>3. CASE BindingsKept
    <3>1. \A p \in PlanId : plans'[p].topology = plans[p].topology
      BY <2>3 DEF BindingsKept, Bindings
    <3> QED BY <2>1, <2>2, <3>1 DEF BoundTopologyBehind, PlanId
  <2>4. ASSUME NEW r \in Request, PlanRecorded(r)
        PROVE  BoundTopologyBehind'
    BY <1>2, <2>1, <2>2, <2>4, RecordedPlan DEF BoundTopologyBehind, PlanId
  <2> QED BY <1>2, <2>3, <2>4, RecordedOrKept
<1> QED BY CoordinatorInvariant, <1>1, <1>2, PTL DEF Spec

-----------------------------------------------------------------------------
\* Within one life of the process the next id is free.
IdsBelowNext == \A p \in PlanId : Exists(p) => p < nextPlan

\* Every step keeps it so.
LEMMA IdsStayBelowNext ==
  ASSUME CoordinatorInv, IdsBelowNext, [Next]_vars
  PROVE  IdsBelowNext'
<1>1. CASE BindingsKept
  BY <1>1 DEF BindingsKept, IdsBelowNext, Exists, PlanId
<1>2. ASSUME NEW r \in Request, PlanRecorded(r)
      PROVE  IdsBelowNext'
  <2> SUFFICES ASSUME NEW p \in PlanId, plans'[p].state # "ABSENT"
               PROVE  p < nextPlan'
    BY DEF IdsBelowNext, Exists, PlanId
  <2>1. nextPlan \in Nat /\ p \in Nat /\ nextPlan' = nextPlan + 1
    BY <1>2 DEF PlanRecorded, PlanId
  <2>2. p = nextPlan \/ p < nextPlan
    BY <1>2, RecordedPlan DEF IdsBelowNext, Exists
  <2> QED BY <2>1, <2>2
<1> QED BY <1>1, <1>2, RecordedOrKept

\* A plan on record keeps its bindings as long as ids are free.
LEMMA BindingsStay ==
  ASSUME CoordinatorInv, IdsBelowNext, [Next]_vars, NEW p \in PlanId, Exists(p)
  PROVE  plans'[p].state # "ABSENT" /\ Bindings(plans'[p]) = Bindings(plans[p])
<1>1. CASE BindingsKept
  BY <1>1 DEF BindingsKept, Exists
<1>2. ASSUME NEW r \in Request, PlanRecorded(r)
      PROVE  plans'[p] = plans[p]
  <2>1. nextPlan \in Nat /\ p < nextPlan
    BY <1>2 DEF PlanRecorded, PlanId, IdsBelowNext
  <2> QED BY <1>2, <2>1, RecordedPlan
<1> QED BY <1>1, <1>2, RecordedOrKept DEF Exists

\* SUBMIT_REQUEST takes an id that no plan has.
THEOREM IdsInvariant == Spec => []IdsBelowNext
<1>1. Init => IdsBelowNext
  BY DEF Init, PlansInit, NoPlan, IdsBelowNext, Exists
<1> QED BY CoordinatorInvariant, <1>1, IdsStayBelowNext, PTL DEF Spec

\* Once SUBMIT_REQUEST has recorded a plan, no handler forgets it or changes what
\* it is bound to, so that REVALIDATE, EXECUTION_HANDOFF and EXECUTION_RESULT
\* judge it by the evidence and the executor it was made for.
THEOREM BindingsNeverChange ==
  Spec => [][ \A p \in PlanId : Exists(p) =>
                /\ plans'[p].state # "ABSENT"
                /\ Bindings(plans'[p]) = Bindings(plans[p]) ]_vars
<1> DEFINE Kept(p) == Exists(p) => /\ plans'[p].state # "ABSENT"
                                   /\ Bindings(plans'[p]) = Bindings(plans[p])
<1>1. ASSUME CoordinatorInv, IdsBelowNext, [Next]_vars, NEW p \in PlanId
      PROVE  Kept(p)
  BY <1>1, BindingsStay
<1>2. CoordinatorInv /\ IdsBelowNext /\ [Next]_vars => [\A p \in PlanId : Kept(p)]_vars
  BY <1>1
<1> QED BY CoordinatorInvariant, IdsInvariant, <1>2, PTL DEF Spec

\* currentByRequest names the most recent plan of each request.
THEOREM CurrentStaysNewest == Spec => []CurrentIsNewest
<1>1. Init => CurrentIsNewest
  <2> SUFFICES ASSUME Init PROVE CurrentIsNewest
    OBVIOUS
  <2>1. \A p \in PlanId : plans[p].req = None
    BY DEF Init, PlansInit, NoPlan
  <2> QED BY <2>1, CoordinatorAssumption DEF CurrentIsNewest
<1>2. ASSUME CoordinatorInv, IdsBelowNext, CurrentIsNewest, [Next]_vars
      PROVE  CurrentIsNewest'
  <2>1. CASE BindingsKept
    <3>1. \A p \in PlanId : plans'[p].req = plans[p].req
      BY <2>1 DEF BindingsKept, Bindings
    <3>2. ASSUME NEW r \in Request, NEW p \in PlanId, plans'[p].req = r
          PROVE  currentByRequest'[r] \in p .. MaxPlans /\ plans'[currentByRequest'[r]].req = r
      <4>1. currentByRequest[r] \in p .. MaxPlans /\ plans[currentByRequest[r]].req = r
        BY <1>2, <3>1, <3>2 DEF CurrentIsNewest
      <4>2. currentByRequest[r] \in PlanId
        BY <4>1, CoordinatorAssumption DEF PlanId
      <4> QED BY <2>1, <3>1, <4>1, <4>2 DEF BindingsKept
    <3> QED BY <3>2 DEF CurrentIsNewest, PlanId
  <2>2. ASSUME NEW s \in Request, PlanRecorded(s)
        PROVE  CurrentIsNewest'
    <3>1. /\ \A p \in PlanId \ {nextPlan} : plans'[p] = plans[p]
          /\ plans'[nextPlan].req = s /\ plans'[nextPlan].state = "PLAN_READY"
      BY <1>2, <2>2, RecordedPlan
    <3>2. /\ nextPlan \in PlanId /\ nextPlan \in Nat /\ MaxPlans \in Nat
          /\ currentByRequest' = [currentByRequest EXCEPT ![s] = nextPlan]
          /\ currentByRequest \in [Request -> PlanId \cup {None}]
      BY <1>2, <2>2, CoordinatorAssumption
         DEF PlanRecorded, CoordinatorInv, PlanInv, PlansTypeOK, PlanId
    <3>4. \A p \in PlanId : plans[p].req # None => p < nextPlan
      BY <1>2 DEF IdsBelowNext, CoordinatorInv, PlanInv, PlansWellFormed
    <3>5. ASSUME NEW r \in Request, NEW p \in PlanId, plans'[p].req = r
          PROVE  currentByRequest'[r] \in p .. MaxPlans /\ plans'[currentByRequest'[r]].req = r
      <4>0. r # None
        BY CoordinatorAssumption
      <4>1. CASE r = s
        <5>1. currentByRequest'[r] = nextPlan
          BY <3>2, <4>1
        <5>2. p <= nextPlan
          BY <3>1, <3>2, <3>4, <3>5, <4>0 DEF PlanId
        <5> QED BY <3>1, <3>2, <4>1, <5>1, <5>2 DEF PlanId
      <4>2. CASE r # s
        <5>1. p # nextPlan /\ plans[p].req = r
          BY <3>1, <3>5, <4>2
        <5>2. currentByRequest[r] \in p .. MaxPlans /\ plans[currentByRequest[r]].req = r
          BY <1>2, <5>1 DEF CurrentIsNewest
        <5>3. currentByRequest[r] \in PlanId
          BY <5>2, CoordinatorAssumption DEF PlanId
        <5>4. currentByRequest[r] # nextPlan
          BY <3>2, <3>4, <4>0, <5>2, <5>3
        <5>5. currentByRequest'[r] = currentByRequest[r]
          BY <3>2, <4>2
        <5> QED BY <3>1, <5>2, <5>3, <5>4, <5>5
      <4> QED BY <4>1, <4>2
    <3> QED BY <3>5 DEF CurrentIsNewest, PlanId
  <2> QED BY <1>2, <2>1, <2>2, RecordedOrKept
<1> QED BY CoordinatorInvariant, IdsInvariant, <1>1, <1>2, PTL DEF Spec

-----------------------------------------------------------------------------
\* The executor of a usable route with links is registered and not fenced.
LEMMA ExecutorLive ==
  ASSUME CoordinatorInv, NEW primary \in Route, RouteUsable(primary), RouteLinks[primary] # {}
  PROVE  LET w == Executor(primary)[1]
             b == Executor(primary)[2]
         IN  /\ w \in Worker /\ workers[w].alive /\ b = workers[w].boot
             /\ <<w, b>> \notin fenced
<1> DEFINE e == RouteSource[primary]
<1>1. e \in Endpoint /\ EndpointUsable(e)
  BY CoordinatorAssumption DEF RouteUsable
<1>2. Executor(primary)[1] = endpoints[e].worker /\ Executor(primary)[2] = endpoints[e].boot
  BY DEF Executor
<1>3. EvidenceInv
  BY DEF CoordinatorInv
<1> HIDE DEF e
<1>4. /\ endpoints[e].worker \in Worker /\ workers[endpoints[e].worker].alive
      /\ workers[endpoints[e].worker].boot = endpoints[e].boot
      /\ <<endpoints[e].worker, endpoints[e].boot>> \notin fenced
  BY <1>1, <1>3, UsableIsLive
<1> QED BY <1>2, <1>4

\* A plan with stages is made only for an executor that is registered and not
\* fenced; a plan without stages, which handleSubmitRequest's guard on
\* plan->stages leaves with a null executor, binds no link.
THEOREM ExecutorIsLive == Spec => NewPlanHasLiveExecutor
<1> DEFINE Live(p) ==
      (plans[p].state = "ABSENT" /\ plans'[p].state # "ABSENT") =>
        LET w == plans'[p].worker
            b == plans'[p].boot
        IN  IF \E l \in Link : plans'[p].links[l] # None
            THEN /\ w \in Worker /\ workers[w].alive /\ b = workers[w].boot
                 /\ <<w, b>> \notin fenced
            ELSE w = None /\ b = None
<1>1. ASSUME CoordinatorInv, [Next]_vars, NEW p \in PlanId
      PROVE  Live(p)
  <2>1. CASE BindingsKept
    BY <2>1 DEF BindingsKept
  <2>2. ASSUME NEW r \in Request, PlanRecorded(r)
        PROVE  Live(p)
    <3>1. PICK primary \in Route, fallbacks \in SUBSET Route :
            /\ RouteUsable(primary)
            /\ RouteLinks[primary] = {} => fallbacks = {}
            /\ plans' = [plans EXCEPT ![nextPlan] = NewPlan(r, primary, fallbacks)]
      BY <2>2 DEF PlanRecorded
    <3>2. plans \in [PlanId -> PlanRecord] /\ nextPlan \in PlanId
      BY <1>1, <2>2 DEF CoordinatorInv, PlanInv, PlansTypeOK, PlanRecorded
    <3>3. CASE p # nextPlan
      BY <3>1, <3>2, <3>3
    <3>4. CASE p = nextPlan
      <4>1. plans'[p] = NewPlan(r, primary, fallbacks)
        BY <3>1, <3>2, <3>4
      <4>2. /\ plans'[p].worker = Executor(primary)[1]
            /\ plans'[p].boot = Executor(primary)[2]
        BY <4>1, NewPlanFields
      <4>3. ASSUME NEW l \in Link
            PROVE  plans'[p].links[l] = IF \E q \in {primary} \cup fallbacks : l \in RouteLinks[q]
                                        THEN links[l].gen ELSE None
        BY <4>1, NewPlanFields
      <4>4. CASE RouteLinks[primary] = {}
        <5>1. \A l \in Link : plans'[p].links[l] = None
          BY <3>1, <4>3, <4>4
        <5>2. Executor(primary)[1] = None /\ Executor(primary)[2] = None
          BY <4>4 DEF Executor
        <5> QED BY <4>2, <5>1, <5>2
      <4>5. CASE RouteLinks[primary] # {}
        <5>1. PICK l \in RouteLinks[primary] : l \in Link /\ links[l].gen # None
          BY <3>1, <4>5, CoordinatorAssumption DEF RouteUsable, LinkUsable
        <5>2. \E k \in Link : plans'[p].links[k] # None
          BY <4>3, <5>1
        <5> QED BY <1>1, <3>1, <4>2, <4>5, <5>2, ExecutorLive
      <4> QED BY <4>4, <4>5
    <3> QED BY <3>3, <3>4
  <2> QED BY <1>1, <2>1, <2>2, RecordedOrKept
<1>2. CoordinatorInv /\ [Next]_vars => [\A p \in PlanId : Live(p)]_vars
  BY <1>1
<1> QED BY CoordinatorInvariant, <1>2, PTL DEF Spec, NewPlanHasLiveExecutor

-----------------------------------------------------------------------------
\* A cancelled request gets nothing committed, whatever the broker call that was
\* running when it was cancelled returns.
THEOREM CancelWins == Spec => CancelledNeverCommits
<1> DEFINE Kept(p) ==
      (plans[p].state # "COMMITTED" /\ plans'[p].state = "COMMITTED") =>
        plans[p].req \notin cancelled
<1>1. ASSUME CoordinatorInv, [Next]_vars, NEW p \in PlanId
      PROVE  Kept(p)
  BY <1>1, StateChange
<1>2. CoordinatorInv /\ [Next]_vars => [\A p \in PlanId : Kept(p)]_vars
  BY <1>1
<1> QED BY CoordinatorInvariant, <1>2, PTL DEF Spec, CancelledNeverCommits

-----------------------------------------------------------------------------
\* The coordinator uses the broker as BrokerNext allows, except that a withdrawn
\* commit returns and releases under one lock.
LEMMA BrokerUse ==
  ASSUME CoordinatorInv, [Next]_vars
  PROVE  [BrokerNext]_brokerVars \/ \E t \in Thread : CommitWithdrawn(t)
<1> USE DEF CoordinatorInv
<1>1. CASE UNCHANGED brokerVars
  BY <1>1
<1>2. CASE EvidenceStep \/ UNCHANGED vars
  BY <1>2 DEF EvidenceStep, vars
<1>3. ASSUME NEW r \in Request, SubmitFeasible(r) \/ SubmitInfeasible(r)
      PROVE  UNCHANGED brokerVars
  BY <1>3 DEF SubmitFeasible, SubmitInfeasible
<1>4. ASSUME NEW t \in Thread, NEW p \in PlanId, CommitBegin(t, p)
      PROVE  BrokerNext
  <2>1. AcquireCall(t, Claims(plans[p]), Payload[plans[p].req]) /\ UNCHANGED held
    BY <1>4 DEF CommitBegin, CommitClaims
  <2>2. Exists(p)
    BY <1>4 DEF CommitBegin, Exists
  <2>3. Payload[plans[p].req] \in Sizes
    BY <2>2, CoordinatorAssumption DEF PlanInv, PlansWellFormed
  <2>4. Claims(plans[p]) \in SUBSET Resource
    BY ClaimsAreResources DEF PlanInv
  <2> QED BY <2>1, <2>3, <2>4 DEF BrokerNext
<1>5. ASSUME NEW p \in PlanId, Revalidate(p) \/ ExecutionHandoff(p)
      PROVE  UNCHANGED brokerVars
  BY <1>5 DEF Revalidate, ExecutionHandoff
<1>6. ASSUME NEW p \in PlanId, NEW w \in Worker \cup {None}, NEW b \in Boot,
             NEW ok \in BOOLEAN, ExecutionResult(p, w, b, ok)
      PROVE  UNCHANGED brokerVars
  BY <1>6 DEF ExecutionResult
<1>7. ASSUME NEW r \in Request, NEW p \in PlanId, Cancel(r, p) \/ Supersede(r, p)
      PROVE  [BrokerNext]_brokerVars
  <2>1. Claims(plans[p]) \in SUBSET Resource
    BY ClaimsAreResources DEF PlanInv
  <2>2. /\ UNCHANGED <<call, wrapped>>
        /\ held' = held \/ held' = Released(Claims(plans[p]))
    BY <1>7 DEF Cancel, Supersede
  <2> QED BY <2>1, <2>2 DEF BrokerNext, brokerVars
<1>8. ASSUME NEW t \in Thread, CommitStep(t)
      PROVE  BrokerNext \/ CommitWithdrawn(t)
  BY <1>8 DEF CommitStep, CommitAcquire, CommitRefused, CommitDone, CommitEnd, BrokerNext
<1> QED BY <1>2, <1>3, <1>4, <1>5, <1>6, <1>7, <1>8 DEF Next, ClientStep

\* A withdrawn commit only lowers what is held.
LEMMA WithdrawnKeepsRoom ==
  ASSUME IsFiniteSet(Thread), BrokerInv, BrokerTypeOK', NEW t \in Thread, CommitWithdrawn(t)
  PROVE  BrokerInv'
<1> SUFFICES ASSUME NEW r \in Resource PROVE Room(r)'
  BY DEF BrokerInv
<1>1. AcquireReturn(t) /\ (held' = held \/ held' = Released(call[t].rs))
  BY DEF CommitWithdrawn, CommitEnd
<1>2. Adding(r)' = Adding(r) /\ \A v \in Adding(r) : call'[v].size = call[v].size
  BY <1>1 DEF AcquireReturn, Adding, BrokerInv, BrokerTypeOK, Idle
<1>3. wrapped' = wrapped /\ held'[r] <= held[r]
  BY <1>1 DEF AcquireReturn, Released, BrokerInv, BrokerTypeOK
<1> QED BY <1>2, <1>3, RoomKept DEF BrokerInv

\* What is proved of the broker alone holds inside the coordinator: its commits,
\* cancels and supersessions hold a resource beyond its capacity by at most one
\* more capacity for every other thread, whatever payload sizes clients send,
\* until a comparison of that resource succeeds on a sum that wrapped.
THEOREM OvershootStaysBounded ==
  ASSUME IsFiniteSet(Thread)
  PROVE  Spec => []OvershootBounded
<1>1. Init => BrokerInv
  BY BrokerInvInit DEF Init
<1>2. ASSUME CoordinatorInv, CoordinatorInv', BrokerInv, [Next]_vars
      PROVE  BrokerInv'
  <2>1. BrokerTypeOK'
    BY <1>2 DEF CoordinatorInv, PlanInv
  <2> QED BY <1>2, <2>1, BrokerUse, BrokerInvNext, WithdrawnKeepsRoom
<1>3. BrokerInv => OvershootBounded
  BY DEF BrokerInv, Room, Bound, OvershootBounded
<1> QED BY CoordinatorInvariant, <1>1, <1>2, <1>3, PTL DEF Spec

=============================================================================
