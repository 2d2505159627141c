------------------------- MODULE CoordinatorProofs -------------------------
(***************************************************************************)
(* Proofs about Coordinator for any number of workers, threads, requests,  *)
(* routes and plans.  The three commit and staging invariants are proved   *)
(* together with the types of the whole coordinator: a commit reaches the  *)
(* broker with the claims of a plan, and those are resources only for a    *)
(* plan that names a request and a route.  Nothing here uses that the next *)
(* plan id is free, which a restart breaks: RecoveryProofs starts from the *)
(* same invariant.                                                         *)
(***************************************************************************)
EXTENDS Coordinator, EvidenceBrokerProofs

\* A plan on record names its request and its primary route, and nothing else
\* names a request.
PlansWellFormed ==
  \A p \in PlanId :
    /\ Exists(p) => plans[p].req \in Request /\ plans[p].primary \in Route
    /\ ~Exists(p) => plans[p].req = None

\* Plans that can be committed, and those that are being committed, were made in
\* this life of the process: SUBMIT_REQUEST never takes their id again.
CommitsBelowNext ==
  /\ \A p \in PlanId :
       plans[p].state \in {"PLAN_READY", "AWAITING_RESOURCE_COMMIT"} => p < nextPlan
  /\ \A t \in Thread : commit[t] # None => commit[t] < nextPlan

\* The inductive invariant about plans and the threads that commit them.
PlanInv ==
  /\ BrokerTypeOK /\ PlansTypeOK /\ PlansWellFormed /\ CommitsBelowNext
  /\ ExecutableNeedsNoStaging /\ AwaitingCommitHasCommitter /\ CommitCallMatches

\* The current plan of a request is on record.
CurrentOnRecord ==
  \A r \in Request : currentByRequest[r] # None => Exists(currentByRequest[r])

\* The inductive invariant of the coordinator.
CoordinatorInv == EvidenceInv /\ PlanInv /\ CurrentOnRecord

\* A step that changes only the states of plans on record.
StateOnly ==
  /\ plans' \in [PlanId -> PlanRecord]
  /\ \A p \in PlanId : /\ plans'[p].primary = plans[p].primary
                       /\ plans'[p].req = plans[p].req
                       /\ (plans'[p].state = "ABSENT") <=> (plans[p].state = "ABSENT")

\* SetState changes the state of one plan and nothing else.
LEMMA SetStateOnly ==
  ASSUME PlansTypeOK, NEW p \in PlanId, NEW s \in PlanState, Exists(p), SetState(p, s)
  PROVE  /\ StateOnly
         /\ plans'[p].state = s
         /\ \A q \in PlanId \ {p} : plans'[q] = plans[q]
<1>1. plans[p] \in PlanRecord /\ plans \in [PlanId -> PlanRecord]
  BY DEF PlansTypeOK
<1>2. [plans[p] EXCEPT !.state = s] \in PlanRecord
  BY <1>1 DEF PlanRecord
<1>3. plans'[p] = [plans[p] EXCEPT !.state = s] /\ \A q \in PlanId \ {p} : plans'[q] = plans[q]
  BY <1>1 DEF SetState
<1>4. plans' \in [PlanId -> PlanRecord]
  BY <1>1, <1>2 DEF SetState
<1>5. /\ plans'[p].primary = plans[p].primary /\ plans'[p].req = plans[p].req
      /\ plans'[p].state = s
  BY <1>1, <1>3 DEF PlanRecord
<1>6. s # "ABSENT"
  BY DEF PlanState
<1> QED BY <1>3, <1>4, <1>5, <1>6 DEF StateOnly, Exists

\* Such a step keeps the claims of every plan and what is on record.
LEMMA StateOnlyKeeps ==
  ASSUME StateOnly, PlansWellFormed
  PROVE  /\ \A p \in PlanId : Claims(plans'[p]) = Claims(plans[p])
         /\ PlansWellFormed'
  BY DEF StateOnly, PlansWellFormed, Exists, Claims, PlanId

\* The claims of a plan are resources.
LEMMA ClaimsAreResources ==
  ASSUME PlansWellFormed, NEW p \in PlanId
  PROVE  Claims(plans[p]) \in SUBSET Resource
  BY CoordinatorAssumption DEF PlansWellFormed, Exists, Claims

\* Revalidation succeeds only for a plan that claims nothing, because no handler
\* ever fills snap.resourceCapacities.
LEMMA RevalidatedClaimsNothing ==
  ASSUME NEW p \in PlanId, Revalidates(plans[p])
  PROVE  Claims(plans[p]) = {}
  BY DEF Revalidates, ResourceCapacities

\* A record of SUBMIT_REQUEST is well typed.
LEMMA NewPlanType ==
  ASSUME EvidenceTypeOK, NEW r \in Request, NEW primary \in Route,
         NEW fallbacks \in SUBSET Route
  PROVE  NewPlan(r, primary, fallbacks) \in PlanRecord
<1> DEFINE src == endpoints[RouteSource[primary]]
<1>1. src \in EndpointEvidence
  BY CoordinatorAssumption DEF EvidenceTypeOK
<1>2. /\ Executor(primary)[1] \in Worker \cup {None}
      /\ Executor(primary)[2] \in Boot \cup {None}
  BY <1>1 DEF EndpointEvidence, Executor
<1>3. \A e \in Endpoint : endpoints[e].gen \in Generation \cup {None}
  BY DEF EvidenceTypeOK, EndpointEvidence
<1>4. \A l \in Link : links[l].gen \in Generation \cup {None}
  BY DEF EvidenceTypeOK, LinkEvidence
<1>5. "PLAN_READY" \in PlanState
  BY DEF PlanState
<1>6. /\ topologyGeneration \in Nat /\ congestionGeneration \in Nat
      /\ capacityGeneration \in Nat
  BY DEF EvidenceTypeOK
<1>7. {primary} \cup fallbacks \in SUBSET Route
  OBVIOUS
<1> QED BY <1>2, <1>3, <1>4, <1>5, <1>6, <1>7 DEF NewPlan, Binding, PlanRecord

-----------------------------------------------------------------------------
\* A handler that only moves plans between states, none into PLAN_READY or
\* AWAITING_RESOURCE_COMMIT and none with claims towards execution.
LEMMA Relabelled ==
  ASSUME PlanInv, StateOnly, UNCHANGED <<nextPlan, commit, call>>,
         \A p \in PlanId : plans'[p].state \in Executable => Claims(plans[p]) = {},
         \A p \in PlanId : plans'[p].state \in {"PLAN_READY", "AWAITING_RESOURCE_COMMIT"} =>
                            plans'[p].state = plans[p].state
  PROVE  /\ PlansWellFormed' /\ CommitsBelowNext' /\ ExecutableNeedsNoStaging'
         /\ AwaitingCommitHasCommitter' /\ CommitCallMatches'
<1>1. PlansWellFormed' /\ \A p \in PlanId : Claims(plans'[p]) = Claims(plans[p])
  BY StateOnlyKeeps DEF PlanInv
<1>2. ExecutableNeedsNoStaging'
  BY <1>1 DEF ExecutableNeedsNoStaging, Executable, PlanId
<1>3. AwaitingCommitHasCommitter'
  BY DEF PlanInv, AwaitingCommitHasCommitter, PlanId
<1>4. CommitCallMatches'
  <2> SUFFICES ASSUME NEW t \in Thread
               PROVE  /\ (call[t].pc = "idle") <=> (commit[t] = None)
                      /\ commit[t] # None => /\ plans'[commit[t]].state # "ABSENT"
                                             /\ call[t].rs = Claims(plans'[commit[t]])
    BY DEF CommitCallMatches, Exists
  <2>1. commit[t] # None => commit[t] \in PlanId
    BY DEF PlanInv, PlansTypeOK
  <2> QED BY <1>1, <2>1 DEF PlanInv, CommitCallMatches, Exists, StateOnly
<1>5. CommitsBelowNext'
  BY DEF PlanInv, CommitsBelowNext, PlanId
<1> QED BY <1>1, <1>2, <1>3, <1>4, <1>5

\* The second locked half of a commit: the plan leaves
\* AWAITING_RESOURCE_COMMIT together with the thread that put it there.
LEMMA CommitEnded ==
  ASSUME PlanInv, NEW t \in Thread, CommitEnd(t),
         NEW s \in {"CANCELLED", "FAILED", "COMMITTED"}, SetState(commit[t], s),
         held' \in [Resource -> Nat]
  PROVE  PlanInv'
<1> DEFINE p == commit[t]
<1>1. /\ call[t].pc = "done" /\ call' = [call EXCEPT ![t] = Idle]
      /\ commit' = [commit EXCEPT ![t] = None]
      /\ UNCHANGED <<wrapped, nextPlan, currentByRequest, cancelled, supersessions,
                     requests>>
  BY DEF CommitEnd, AcquireReturn
<1>2. p \in PlanId /\ Exists(p)
  BY <1>1 DEF PlanInv, CommitCallMatches, PlansTypeOK
<1>3. /\ s \in PlanState /\ s \notin Executable
      /\ s # "AWAITING_RESOURCE_COMMIT" /\ s # "PLAN_READY"
  BY DEF PlanState, Executable
<1> HIDE DEF p
<1>4. /\ StateOnly /\ plans'[p].state = s
      /\ \A q \in PlanId \ {p} : plans'[q] = plans[q]
  BY <1>2, <1>3, SetStateOnly DEF PlanInv, p
<1>5. PlansWellFormed' /\ \A q \in PlanId : Claims(plans'[q]) = Claims(plans[q])
  BY <1>4, StateOnlyKeeps DEF PlanInv
<1>6. BrokerTypeOK'
  <2>1. Idle \in Calls
    BY DEF Idle, Calls
  <2> QED BY <1>1, <2>1 DEF PlanInv, BrokerTypeOK
<1>7. PlansTypeOK'
  BY <1>1, <1>4 DEF PlanInv, PlansTypeOK, StateOnly, PlanId
<1>8. ExecutableNeedsNoStaging'
  BY <1>3, <1>4, <1>5 DEF PlanInv, ExecutableNeedsNoStaging, PlanId, Executable
<1>9. AwaitingCommitHasCommitter'
  <2> SUFFICES ASSUME NEW q \in PlanId, plans'[q].state = "AWAITING_RESOURCE_COMMIT"
               PROVE  \E u \in Thread : commit'[u] = q
    BY DEF AwaitingCommitHasCommitter, PlanId
  <2>1. q # p /\ plans[q].state = "AWAITING_RESOURCE_COMMIT"
    BY <1>3, <1>4
  <2>2. PICK u \in Thread : commit[u] = q
    BY <2>1 DEF PlanInv, AwaitingCommitHasCommitter
  <2>3. u # t
    BY <2>1, <2>2 DEF p
  <2> QED BY <1>1, <2>2, <2>3 DEF PlanInv, PlansTypeOK
<1>10. CommitCallMatches'
  <2> SUFFICES ASSUME NEW u \in Thread
               PROVE  /\ (call'[u].pc = "idle") <=> (commit'[u] = None)
                      /\ commit'[u] # None =>
                           /\ plans'[commit'[u]].state # "ABSENT"
                           /\ call'[u].rs = Claims(plans'[commit'[u]])
    BY DEF CommitCallMatches, Exists
  <2>1. CASE u = t
    <3>1. call'[u] = Idle /\ commit'[u] = None
      BY <1>1, <2>1 DEF PlanInv, PlansTypeOK, BrokerTypeOK
    <3> QED BY <3>1 DEF Idle
  <2>2. CASE u # t
    <3>1. call'[u] = call[u] /\ commit'[u] = commit[u]
      BY <1>1, <2>2 DEF PlanInv, PlansTypeOK, BrokerTypeOK
    <3>2. commit[u] # None => commit[u] \in PlanId
      BY DEF PlanInv, PlansTypeOK
    <3> QED BY <1>4, <1>5, <3>1, <3>2 DEF PlanInv, CommitCallMatches, Exists, StateOnly
  <2> QED BY <2>1, <2>2
<1>11. CommitsBelowNext'
  <2>1. \A u \in Thread : commit'[u] # None => commit'[u] = commit[u]
    BY <1>1 DEF PlanInv, PlansTypeOK
  <2> QED BY <1>1, <1>3, <1>4, <2>1 DEF PlanInv, CommitsBelowNext, PlanId
<1> QED BY <1>5, <1>6, <1>7, <1>8, <1>9, <1>10, <1>11 DEF PlanInv

\* The first locked half of a commit.
LEMMA CommitBegun ==
  ASSUME PlanInv, NEW t \in Thread, NEW p \in PlanId, CommitBegin(t, p)
  PROVE  PlanInv'
<1> DEFINE new == [pc |-> "check", rs |-> Claims(plans[p]),
                   size |-> Payload[plans[p].req], ok |-> FALSE]
<1>1. /\ call' = [call EXCEPT ![t] = new] /\ commit' = [commit EXCEPT ![t] = p]
      /\ UNCHANGED <<held, wrapped, nextPlan, currentByRequest, cancelled,
                     supersessions, requests>>
      /\ SetState(p, "AWAITING_RESOURCE_COMMIT")
      /\ plans[p].state \in {"PLAN_READY", "AWAITING_RESOURCE_COMMIT"}
  BY DEF CommitBegin, AcquireCall, CommitClaims
<1>2. Exists(p) /\ "AWAITING_RESOURCE_COMMIT" \in PlanState
  BY <1>1 DEF Exists, PlanState
<1>3. /\ StateOnly /\ plans'[p].state = "AWAITING_RESOURCE_COMMIT"
      /\ \A q \in PlanId \ {p} : plans'[q] = plans[q]
  BY <1>1, <1>2, SetStateOnly DEF PlanInv
<1>4. PlansWellFormed' /\ \A q \in PlanId : Claims(plans'[q]) = Claims(plans[q])
  BY <1>3, StateOnlyKeeps DEF PlanInv
<1>5. new \in Calls
  <2>1. Payload[plans[p].req] \in Sizes
    BY <1>2, CoordinatorAssumption DEF PlanInv, PlansWellFormed
  <2>2. Claims(plans[p]) \in SUBSET Resource
    BY ClaimsAreResources DEF PlanInv
  <2> QED BY <2>1, <2>2 DEF Calls
<1>6. new.pc # "idle" /\ new.rs = Claims(plans[p])
  OBVIOUS
<1>n. p # None
  BY CoordinatorAssumption DEF PlanId
<1> HIDE DEF new
<1>7. BrokerTypeOK'
  BY <1>1, <1>5 DEF PlanInv, BrokerTypeOK
<1>8. PlansTypeOK'
  BY <1>1, <1>3 DEF PlanInv, PlansTypeOK, StateOnly, PlanId
<1>9. ExecutableNeedsNoStaging'
  BY <1>3, <1>4 DEF PlanInv, ExecutableNeedsNoStaging, PlanId, Executable
<1>10. /\ call'[t] = new /\ commit'[t] = p
       /\ \A u \in Thread \ {t} : call'[u] = call[u] /\ commit'[u] = commit[u]
  BY <1>1 DEF PlanInv, PlansTypeOK, BrokerTypeOK
<1>11. commit[t] = None
  BY DEF CommitBegin
<1>12. AwaitingCommitHasCommitter'
  <2> SUFFICES ASSUME NEW q \in PlanId, plans'[q].state = "AWAITING_RESOURCE_COMMIT"
               PROVE  \E u \in Thread : commit'[u] = q
    BY DEF AwaitingCommitHasCommitter, PlanId
  <2>1. CASE q = p
    BY <1>10, <2>1
  <2>2. CASE q # p
    <3>1. PICK u \in Thread : commit[u] = q
      BY <1>3, <2>2 DEF PlanInv, AwaitingCommitHasCommitter
    <3>2. q # None
      BY CoordinatorAssumption DEF PlanId
    <3> QED BY <1>10, <1>11, <3>1, <3>2
  <2> QED BY <2>1, <2>2
<1>13. CommitCallMatches'
  <2> SUFFICES ASSUME NEW u \in Thread
               PROVE  /\ (call'[u].pc = "idle") <=> (commit'[u] = None)
                      /\ commit'[u] # None =>
                           /\ plans'[commit'[u]].state # "ABSENT"
                           /\ call'[u].rs = Claims(plans'[commit'[u]])
    BY DEF CommitCallMatches, Exists
  <2>1. CASE u = t
    BY <1>n, <1>3, <1>4, <1>6, <1>10, <2>1
  <2>2. CASE u # t
    <3>1. commit[u] # None => commit[u] \in PlanId
      BY DEF PlanInv, PlansTypeOK
    <3> QED BY <1>3, <1>4, <1>10, <2>2, <3>1
            DEF PlanInv, CommitCallMatches, Exists, StateOnly
  <2> QED BY <2>1, <2>2
<1>14. CommitsBelowNext'
  <2>1. p < nextPlan
    BY <1>1 DEF PlanInv, CommitsBelowNext
  <2>2. \A q \in PlanId :
          plans'[q].state \in {"PLAN_READY", "AWAITING_RESOURCE_COMMIT"} => q < nextPlan
    BY <1>3, <2>1 DEF PlanInv, CommitsBelowNext
  <2>3. \A u \in Thread : commit'[u] # None => commit'[u] < nextPlan
    BY <1>10, <2>1 DEF PlanInv, CommitsBelowNext
  <2> QED BY <1>1, <2>2, <2>3 DEF CommitsBelowNext, PlanId
<1> QED BY <1>4, <1>7, <1>8, <1>9, <1>12, <1>13, <1>14 DEF PlanInv

\* The unlocked steps of broker.acquire.
LEMMA AcquireStepped ==
  ASSUME PlanInv, NEW t \in Thread, CommitAcquire(t)
  PROVE  PlanInv'
<1>1. UNCHANGED planVars /\ (AcquireCheck(t) \/ AcquireAdd(t))
  BY DEF CommitAcquire
<1>2. BrokerTypeOK'
  <2>1. BrokerNext
    BY <1>1 DEF BrokerNext
  <2> QED BY <2>1, BrokerTypeNext DEF PlanInv
<1>3. \A u \in Thread : /\ call'[u].rs = call[u].rs
                        /\ (call'[u].pc = "idle") <=> (call[u].pc = "idle")
  <2>1. call[t] \in Calls /\ call \in [Thread -> Calls]
    BY DEF PlanInv, BrokerTypeOK
  <2>2. CASE AcquireCheck(t)
    BY <2>1, <2>2 DEF AcquireCheck, Calls
  <2>3. CASE AcquireAdd(t)
    BY <2>1, <2>3 DEF AcquireAdd, Calls
  <2> QED BY <1>1, <2>2, <2>3
<1>4. CommitCallMatches'
  <2>1. plans' = plans /\ commit' = commit
    BY <1>1 DEF planVars
  <2> SUFFICES ASSUME NEW u \in Thread
               PROVE  /\ (call'[u].pc = "idle") <=> (commit[u] = None)
                      /\ commit[u] # None => /\ plans[commit[u]].state # "ABSENT"
                                             /\ call'[u].rs = Claims(plans[commit[u]])
    BY <2>1 DEF CommitCallMatches, Exists
  <2>2. /\ (call[u].pc = "idle") <=> (commit[u] = None)
        /\ commit[u] # None => /\ plans[commit[u]].state # "ABSENT"
                               /\ call[u].rs = Claims(plans[commit[u]])
    BY DEF PlanInv, CommitCallMatches, Exists
  <2>3. call'[u].rs = call[u].rs /\ ((call'[u].pc = "idle") <=> (call[u].pc = "idle"))
    BY <1>3
  <2> QED BY <2>2, <2>3
<1>5. /\ PlansTypeOK' /\ PlansWellFormed' /\ CommitsBelowNext'
      /\ ExecutableNeedsNoStaging' /\ AwaitingCommitHasCommitter'
  BY <1>1 DEF PlanInv, planVars, PlansTypeOK, PlansWellFormed, CommitsBelowNext, Exists,
     ExecutableNeedsNoStaging, AwaitingCommitHasCommitter, Claims
<1> QED BY <1>2, <1>4, <1>5 DEF PlanInv

\* SUBMIT_REQUEST with a feasible route: no thread commits the plan that the new
\* id may replace.
LEMMA Submitted ==
  ASSUME EvidenceTypeOK, PlanInv, NEW r \in Request, SubmitFeasible(r)
  PROVE  PlanInv'
<1> DEFINE n == nextPlan
<1>1. /\ n \in PlanId /\ nextPlan' = n + 1
      /\ currentByRequest' = Current(r) /\ requests' = Pushed(r)
      /\ UNCHANGED <<brokerVars, cancelled, supersessions, commit>>
  BY DEF SubmitFeasible
<1>2. PICK primary \in Route, fallbacks \in SUBSET Route :
        plans' = [plans EXCEPT ![n] = NewPlan(r, primary, fallbacks)]
  BY CoordinatorAssumption DEF SubmitFeasible
<1> DEFINE rec == NewPlan(r, primary, fallbacks)
<1>3. rec \in PlanRecord
  BY NewPlanType
<1>4. rec.state = "PLAN_READY" /\ rec.req = r /\ rec.primary = primary
  BY DEF NewPlan, Binding
<1> HIDE DEF rec
<1>5. /\ plans' \in [PlanId -> PlanRecord] /\ plans'[n] = rec
      /\ \A q \in PlanId \ {n} : plans'[q] = plans[q]
  BY <1>1, <1>2, <1>3 DEF PlanInv, PlansTypeOK, rec
<1>6. n \in Nat /\ MaxPlans \in Nat /\ \A t \in Thread : commit[t] # n
  BY <1>1, CoordinatorAssumption DEF PlanInv, CommitsBelowNext, PlanId
<1>7. BrokerTypeOK'
  BY <1>1 DEF PlanInv, BrokerTypeOK, brokerVars
<1>8. PlansTypeOK'
  <2>1. nextPlan' \in 1 .. (MaxPlans + 1)
    BY <1>1, <1>6 DEF PlanId
  <2>2. currentByRequest' \in [Request -> PlanId \cup {None}]
    BY <1>1 DEF PlanInv, PlansTypeOK, Current
  <2>3. requests' \in [Request -> 0 .. 2]
    BY <1>1 DEF PlanInv, PlansTypeOK, Pushed
  <2> QED BY <1>1, <1>5, <2>1, <2>2, <2>3 DEF PlanInv, PlansTypeOK, PlanId
<1>9. PlansWellFormed'
  BY <1>4, <1>5 DEF PlanInv, PlansWellFormed, Exists, PlanId
<1>10. ExecutableNeedsNoStaging'
  BY <1>4, <1>5 DEF PlanInv, ExecutableNeedsNoStaging, Executable, PlanId
<1>11. AwaitingCommitHasCommitter'
  BY <1>1, <1>4, <1>5 DEF PlanInv, AwaitingCommitHasCommitter, PlanId
<1>13. CommitsBelowNext'
  <2>1. ASSUME NEW q \in PlanId,
               plans'[q].state \in {"PLAN_READY", "AWAITING_RESOURCE_COMMIT"}
        PROVE  q < n + 1
    <3>1. CASE q = n
      BY <1>6, <3>1
    <3>2. CASE q # n
      <4>1. q \in Nat /\ q < n
        BY <1>5, <2>1, <3>2 DEF PlanInv, CommitsBelowNext, PlanId
      <4> QED BY <1>6, <4>1
    <3> QED BY <3>1, <3>2
  <2>2. ASSUME NEW t \in Thread, commit[t] # None
        PROVE  commit[t] < n + 1
    <3>1. commit[t] \in Nat /\ commit[t] < n
      BY <2>2 DEF PlanInv, CommitsBelowNext, PlansTypeOK, PlanId
    <3> QED BY <1>6, <3>1
  <2> QED BY <1>1, <2>1, <2>2 DEF CommitsBelowNext, PlanId
<1>12. CommitCallMatches'
  <2> SUFFICES ASSUME NEW t \in Thread
               PROVE  /\ (call[t].pc = "idle") <=> (commit[t] = None)
                      /\ commit[t] # None => /\ plans'[commit[t]].state # "ABSENT"
                                             /\ call[t].rs = Claims(plans'[commit[t]])
    BY <1>1 DEF CommitCallMatches, Exists, brokerVars
  <2>1. commit[t] # None => commit[t] \in PlanId /\ Exists(commit[t])
    BY DEF PlanInv, PlansTypeOK, CommitCallMatches
  <2>2. commit[t] # None => plans'[commit[t]] = plans[commit[t]]
    BY <1>5, <1>6, <2>1
  <2> QED BY <2>1, <2>2 DEF PlanInv, CommitCallMatches, Exists
<1> QED BY <1>7, <1>8, <1>9, <1>10, <1>11, <1>12, <1>13 DEF PlanInv

\* REVALIDATE, EXECUTION_HANDOFF and EXECUTION_RESULT.
LEMMA StateAnswered ==
  ASSUME PlanInv, NEW p \in PlanId, NEW s \in PlanState, Exists(p), SetState(p, s),
         s \in Executable => Claims(plans[p]) = {},
         s # "AWAITING_RESOURCE_COMMIT", s # "PLAN_READY",
         UNCHANGED <<brokerVars, nextPlan, currentByRequest, cancelled,
                     supersessions, requests, commit>>
  PROVE  PlanInv'
<1>1. /\ StateOnly /\ plans'[p].state = s
      /\ \A q \in PlanId \ {p} : plans'[q] = plans[q]
  BY SetStateOnly DEF PlanInv
<1>2. \A q \in PlanId : plans'[q].state \in Executable => Claims(plans[q]) = {}
  BY <1>1 DEF PlanInv, ExecutableNeedsNoStaging
<1>3. \A q \in PlanId : plans'[q].state \in {"PLAN_READY", "AWAITING_RESOURCE_COMMIT"} =>
                         plans'[q].state = plans[q].state
  BY <1>1
<1>4. /\ PlansWellFormed' /\ CommitsBelowNext' /\ ExecutableNeedsNoStaging'
      /\ AwaitingCommitHasCommitter' /\ CommitCallMatches'
  BY <1>1, <1>2, <1>3, Relabelled DEF brokerVars
<1>5. BrokerTypeOK' /\ PlansTypeOK'
  BY <1>1 DEF PlanInv, BrokerTypeOK, brokerVars, PlansTypeOK, StateOnly, PlanId
<1> QED BY <1>4, <1>5 DEF PlanInv

\* release erases entries and leaves numbers.
LEMMA ReleasedType ==
  ASSUME BrokerTypeOK, NEW rs
  PROVE  Released(rs) \in [Resource -> Nat]
  BY DEF BrokerTypeOK, Released

\* CANCEL.
LEMMA Cancelled ==
  ASSUME PlanInv, NEW r \in Request, NEW p \in PlanId, Cancel(r, p)
  PROVE  PlanInv'
<1>1. /\ cancelled' = cancelled \cup {r}
      /\ UNCHANGED <<call, wrapped, nextPlan, currentByRequest, supersessions,
                     requests, commit>>
      /\ plans' = plans \/ (Exists(p) /\ SetState(p, "CANCELLED"))
  BY DEF Cancel, Exists
<1>2. held' \in [Resource -> Nat]
  <2>1. held' = held \/ held' = Released(Claims(plans[p]))
    BY DEF Cancel
  <2> QED BY <2>1, ReleasedType DEF PlanInv, BrokerTypeOK
<1>3. "CANCELLED" \in PlanState
  BY DEF PlanState
<1>4. /\ StateOnly
      /\ \A q \in PlanId : plans'[q] = plans[q] \/ plans'[q].state = "CANCELLED"
  <2>1. CASE plans' = plans
    BY <2>1 DEF PlanInv, PlansTypeOK, StateOnly
  <2>2. CASE Exists(p) /\ SetState(p, "CANCELLED")
    BY <1>3, <2>2, SetStateOnly DEF PlanInv
  <2> QED BY <1>1, <2>1, <2>2
<1>5. \A q \in PlanId : plans'[q].state \in Executable => Claims(plans[q]) = {}
  BY <1>4 DEF PlanInv, ExecutableNeedsNoStaging, Executable
<1>6. /\ PlansWellFormed' /\ CommitsBelowNext' /\ ExecutableNeedsNoStaging'
      /\ AwaitingCommitHasCommitter' /\ CommitCallMatches'
  BY <1>1, <1>4, <1>5, Relabelled
<1>7. BrokerTypeOK' /\ PlansTypeOK'
  BY <1>1, <1>2, <1>4 DEF PlanInv, BrokerTypeOK, PlansTypeOK, StateOnly, PlanId
<1> QED BY <1>6, <1>7 DEF PlanInv

\* SUPERSEDE.
LEMMA Superseded ==
  ASSUME PlanInv, CurrentOnRecord, NEW r \in Request, NEW p \in PlanId, Supersede(r, p)
  PROVE  PlanInv'
<1> DEFINE demoted == IF plans[p].state \in {"ABSENT", "COMPLETED", "CANCELLED"}
                      THEN {} ELSE {p}
           old == {q \in PlanId : q = currentByRequest[r] /\ q # p}
<1>1. /\ plans' = [q \in PlanId |-> IF q \in demoted \cup old
                                    THEN [plans[q] EXCEPT !.state = "SUPERSEDED"]
                                    ELSE plans[q]]
      /\ supersessions' = supersessions \cup {<<q, p>> : q \in old}
      /\ UNCHANGED <<call, wrapped, nextPlan, currentByRequest, cancelled,
                     requests, commit>>
      /\ held' = held \/ held' = Released(Claims(plans[p]))
  BY DEF Supersede
<1>2. held' \in [Resource -> Nat]
  BY <1>1, ReleasedType DEF PlanInv, BrokerTypeOK
<1>3. \A q \in demoted \cup old : q \in PlanId /\ Exists(q)
  <2>1. ASSUME NEW q \in demoted PROVE q \in PlanId /\ Exists(q)
    BY DEF Exists
  <2>2. ASSUME NEW q \in old PROVE q \in PlanId /\ Exists(q)
    <3>1. q \in PlanId /\ q = currentByRequest[r] /\ q # None
      BY CoordinatorAssumption DEF PlanId
    <3> QED BY <3>1 DEF CurrentOnRecord
  <2> QED BY <2>1, <2>2
<1>4. supersessions' \subseteq PlanId \X PlanId
  BY <1>1 DEF PlanInv, PlansTypeOK
<1> HIDE DEF demoted, old
<1>5. ASSUME NEW q \in PlanId
      PROVE  /\ plans'[q] \in PlanRecord
             /\ plans'[q].primary = plans[q].primary /\ plans'[q].req = plans[q].req
             /\ plans'[q] = plans[q] \/ (Exists(q) /\ plans'[q].state = "SUPERSEDED")
  <2>1. plans[q] \in PlanRecord
    BY DEF PlanInv, PlansTypeOK
  <2>2. [plans[q] EXCEPT !.state = "SUPERSEDED"] \in PlanRecord
    BY <2>1 DEF PlanRecord, PlanState
  <2>3. CASE q \in demoted \cup old
    <3>1. plans'[q] = [plans[q] EXCEPT !.state = "SUPERSEDED"]
      BY <1>1, <2>3
    <3> QED BY <1>3, <2>1, <2>2, <2>3, <3>1 DEF PlanRecord
  <2>4. CASE q \notin demoted \cup old
    <3>1. plans'[q] = plans[q]
      BY <1>1, <2>4
    <3> QED BY <2>1, <3>1
  <2> QED BY <2>3, <2>4
<1>6. plans' \in [PlanId -> PlanRecord]
  BY <1>1, <1>5
<1>7. StateOnly
  BY <1>5, <1>6 DEF StateOnly, Exists
<1>8. \A q \in PlanId : plans'[q].state \in Executable => Claims(plans[q]) = {}
  BY <1>5 DEF PlanInv, ExecutableNeedsNoStaging, Executable
<1>9. \A q \in PlanId : plans'[q].state \in {"PLAN_READY", "AWAITING_RESOURCE_COMMIT"} =>
                         plans'[q].state = plans[q].state
  BY <1>5
<1>10. /\ PlansWellFormed' /\ CommitsBelowNext' /\ ExecutableNeedsNoStaging'
       /\ AwaitingCommitHasCommitter' /\ CommitCallMatches'
  BY <1>1, <1>7, <1>8, <1>9, Relabelled
<1>11. BrokerTypeOK' /\ PlansTypeOK'
  BY <1>1, <1>2, <1>4, <1>6 DEF PlanInv, BrokerTypeOK, PlansTypeOK, PlanId
<1> QED BY <1>10, <1>11 DEF PlanInv

-----------------------------------------------------------------------------
\* Every step of the coordinator keeps the part about plans.
LEMMA PlanInvNext ==
  ASSUME CoordinatorInv, [Next]_vars
  PROVE  PlanInv'
<1> USE DEF CoordinatorInv
<1>1. CASE EvidenceStep \/ UNCHANGED vars
  <2>1. UNCHANGED <<brokerVars, planVars>>
    BY <1>1 DEF EvidenceStep, vars
  <2> QED BY <2>1 DEF PlanInv, brokerVars, planVars, BrokerTypeOK, PlansTypeOK,
       PlansWellFormed, CommitsBelowNext, ExecutableNeedsNoStaging,
       AwaitingCommitHasCommitter, CommitCallMatches, Exists, Claims
<1>2. ASSUME NEW r \in Request, SubmitFeasible(r)
      PROVE  PlanInv'
  BY <1>2, Submitted DEF EvidenceInv
<1>3. ASSUME NEW r \in Request, SubmitInfeasible(r)
      PROVE  PlanInv'
  <2>1. /\ UNCHANGED <<held, call, wrapped, plans, nextPlan, currentByRequest, cancelled,
                       supersessions, commit>>
        /\ requests' = Pushed(r)
    BY <1>3 DEF SubmitInfeasible, brokerVars
  <2>2. requests' \in [Request -> 0 .. 2]
    BY <2>1 DEF PlanInv, PlansTypeOK, Pushed
  <2> QED BY <2>1, <2>2 DEF PlanInv, BrokerTypeOK, PlansTypeOK,
       PlansWellFormed, CommitsBelowNext, ExecutableNeedsNoStaging,
       AwaitingCommitHasCommitter, CommitCallMatches, Exists, Claims
<1>4. ASSUME NEW t \in Thread, NEW p \in PlanId, CommitBegin(t, p)
      PROVE  PlanInv'
  BY <1>4, CommitBegun
<1>5. ASSUME NEW p \in PlanId, Revalidate(p)
      PROVE  PlanInv'
  <2> DEFINE s == IF Revalidates(plans[p]) THEN "AWAITING_EXECUTION"
                  ELSE "REVALIDATION_REQUIRED"
  <2>1. s \in PlanState /\ s # "AWAITING_RESOURCE_COMMIT" /\ s # "PLAN_READY"
    BY DEF PlanState
  <2>2. s \in Executable => Claims(plans[p]) = {}
    BY RevalidatedClaimsNothing DEF Executable
  <2>3. /\ Exists(p) /\ SetState(p, s)
        /\ UNCHANGED <<brokerVars, nextPlan, currentByRequest, cancelled,
                       supersessions, requests, commit>>
    BY <1>5 DEF Revalidate
  <2> HIDE DEF s
  <2> QED BY <2>1, <2>2, <2>3, StateAnswered
<1>6. ASSUME NEW p \in PlanId, ExecutionHandoff(p)
      PROVE  PlanInv'
  <2> DEFINE s == IF Revalidates(plans[p]) THEN "ACTIVE" ELSE "REVALIDATION_REQUIRED"
  <2>1. s \in PlanState /\ s # "AWAITING_RESOURCE_COMMIT" /\ s # "PLAN_READY"
    BY DEF PlanState
  <2>2. s \in Executable => Claims(plans[p]) = {}
    BY RevalidatedClaimsNothing DEF Executable
  <2>3. /\ Exists(p) /\ SetState(p, s)
        /\ UNCHANGED <<brokerVars, nextPlan, currentByRequest, cancelled,
                       supersessions, requests, commit>>
    BY <1>6 DEF ExecutionHandoff
  <2> HIDE DEF s
  <2> QED BY <2>1, <2>2, <2>3, StateAnswered
<1>7. ASSUME NEW p \in PlanId, NEW w \in Worker \cup {None}, NEW b \in Boot,
             NEW ok \in BOOLEAN, ExecutionResult(p, w, b, ok)
      PROVE  PlanInv'
  <2> DEFINE s == IF ok THEN "COMPLETED" ELSE "FAILED"
  <2>1. s \in PlanState /\ s # "AWAITING_RESOURCE_COMMIT" /\ s # "PLAN_READY"
    BY DEF PlanState
  <2>2. plans[p].state = "ACTIVE"
    BY <1>7 DEF ExecutionResult
  <2>3. Exists(p) /\ Claims(plans[p]) = {}
    BY <2>2 DEF Exists, PlanInv, ExecutableNeedsNoStaging, Executable
  <2>4. /\ SetState(p, s)
        /\ UNCHANGED <<brokerVars, nextPlan, currentByRequest, cancelled,
                       supersessions, requests, commit>>
    BY <1>7 DEF ExecutionResult
  <2> HIDE DEF s
  <2> QED BY <2>1, <2>3, <2>4, StateAnswered
<1>8. ASSUME NEW r \in Request, NEW p \in PlanId, Cancel(r, p)
      PROVE  PlanInv'
  BY <1>8, Cancelled
<1>9. ASSUME NEW r \in Request, NEW p \in PlanId, Supersede(r, p)
      PROVE  PlanInv'
  BY <1>9, Superseded
<1>10. ASSUME NEW t \in Thread, CommitStep(t)
       PROVE  PlanInv'
  <2>1. CASE CommitAcquire(t)
    BY <2>1, AcquireStepped
  <2>2. CASE CommitWithdrawn(t)
    <3>1. held' \in [Resource -> Nat]
      BY <2>2, ReleasedType DEF CommitWithdrawn, PlanInv, BrokerTypeOK
    <3> QED BY <2>2, <3>1, CommitEnded DEF CommitWithdrawn
  <2>3. CASE CommitRefused(t)
    BY <2>3, CommitEnded DEF CommitRefused, PlanInv, BrokerTypeOK
  <2>4. CASE CommitDone(t)
    BY <2>4, CommitEnded DEF CommitDone, PlanInv, BrokerTypeOK
  <2> QED BY <1>10, <2>1, <2>2, <2>3, <2>4 DEF CommitStep
<1> QED BY <1>1, <1>2, <1>3, <1>4, <1>5, <1>6, <1>7, <1>8, <1>9, <1>10
        DEF Next, ClientStep

\* Only SUBMIT_REQUEST changes which plan is current, and it names the plan it
\* has just recorded; no handler removes a plan.
LEMMA CurrentOnRecordNext ==
  ASSUME CoordinatorInv, [Next]_vars
  PROVE  CurrentOnRecord'
<1> USE DEF CoordinatorInv
<1>1. ASSUME currentByRequest' = currentByRequest,
             \A p \in PlanId : Exists(p) => plans'[p].state # "ABSENT"
      PROVE  CurrentOnRecord'
  <2>1. \A r \in Request : currentByRequest[r] # None => currentByRequest[r] \in PlanId
    BY DEF PlanInv, PlansTypeOK
  <2> QED BY <1>1, <2>1 DEF CurrentOnRecord, Exists
<1>2. ASSUME NEW p \in PlanId, NEW s \in PlanState, Exists(p), SetState(p, s),
             currentByRequest' = currentByRequest
      PROVE  CurrentOnRecord'
  BY <1>1, <1>2, SetStateOnly DEF PlanInv, StateOnly, Exists
<1>3. CASE UNCHANGED <<plans, currentByRequest>>
  BY <1>1, <1>3 DEF Exists
<1>4. CASE EvidenceStep \/ UNCHANGED vars
  BY <1>3, <1>4 DEF EvidenceStep, vars, planVars
<1>5. ASSUME NEW r \in Request, SubmitFeasible(r)
      PROVE  CurrentOnRecord'
  <2>1. /\ nextPlan \in PlanId
        /\ currentByRequest' = [currentByRequest EXCEPT ![r] = nextPlan]
    BY <1>5 DEF SubmitFeasible, Current
  <2>2. PICK primary \in Route, fallbacks \in SUBSET Route :
          plans' = [plans EXCEPT ![nextPlan] = NewPlan(r, primary, fallbacks)]
    BY <1>5, CoordinatorAssumption DEF SubmitFeasible
  <2>3. NewPlan(r, primary, fallbacks).state = "PLAN_READY"
    BY DEF NewPlan, Binding
  <2>4. /\ plans'[nextPlan].state # "ABSENT"
        /\ \A q \in PlanId \ {nextPlan} : plans'[q] = plans[q]
    BY <2>1, <2>2, <2>3 DEF PlanInv, PlansTypeOK
  <2> SUFFICES ASSUME NEW v \in Request, currentByRequest'[v] # None
               PROVE  plans'[currentByRequest'[v]].state # "ABSENT"
    BY DEF CurrentOnRecord, Exists
  <2>5. CASE v = r
    BY <2>1, <2>4, <2>5 DEF PlanInv, PlansTypeOK
  <2>6. CASE v # r
    <3>1. currentByRequest'[v] = currentByRequest[v] /\ currentByRequest[v] \in PlanId
      BY <2>1, <2>6 DEF PlanInv, PlansTypeOK
    <3> QED BY <2>4, <3>1 DEF CurrentOnRecord, Exists
  <2> QED BY <2>5, <2>6
<1>6. ASSUME NEW r \in Request, SubmitInfeasible(r)
      PROVE  CurrentOnRecord'
  BY <1>3, <1>6 DEF SubmitInfeasible
<1>7. ASSUME NEW t \in Thread, NEW p \in PlanId, CommitBegin(t, p)
      PROVE  CurrentOnRecord'
  BY <1>2, <1>7 DEF CommitBegin, Exists, PlanState
<1>8. ASSUME NEW p \in PlanId, Revalidate(p)
      PROVE  CurrentOnRecord'
  BY <1>2, <1>8 DEF Revalidate, PlanState
<1>9. ASSUME NEW p \in PlanId, ExecutionHandoff(p)
      PROVE  CurrentOnRecord'
  BY <1>2, <1>9 DEF ExecutionHandoff, PlanState
<1>10. ASSUME NEW p \in PlanId, NEW w \in Worker \cup {None}, NEW b \in Boot,
              NEW ok \in BOOLEAN, ExecutionResult(p, w, b, ok)
       PROVE  CurrentOnRecord'
  BY <1>2, <1>10 DEF ExecutionResult, PlanState, Exists
<1>11. ASSUME NEW r \in Request, NEW p \in PlanId, Cancel(r, p)
       PROVE  CurrentOnRecord'
  <2>1. currentByRequest' = currentByRequest /\ "CANCELLED" \in PlanState
    BY <1>11 DEF Cancel, PlanState
  <2>2. plans' = plans \/ (Exists(p) /\ SetState(p, "CANCELLED"))
    BY <1>11 DEF Cancel, Exists
  <2> QED BY <1>2, <1>3, <2>1, <2>2
<1>12. ASSUME NEW r \in Request, NEW p \in PlanId, Supersede(r, p)
       PROVE  CurrentOnRecord'
  <2>1. currentByRequest' = currentByRequest
    BY <1>12 DEF Supersede
  <2>2. ASSUME NEW q \in PlanId, Exists(q)
        PROVE  plans'[q].state # "ABSENT"
    <3>1. plans[q] \in PlanRecord
      BY DEF PlanInv, PlansTypeOK
    <3>2. [plans[q] EXCEPT !.state = "SUPERSEDED"].state = "SUPERSEDED"
      BY <3>1 DEF PlanRecord
    <3>3. \/ plans'[q] = plans[q]
          \/ plans'[q] = [plans[q] EXCEPT !.state = "SUPERSEDED"]
      BY <1>12 DEF Supersede
    <3> QED BY <2>2, <3>2, <3>3 DEF Exists
  <2> QED BY <1>1, <2>1, <2>2
<1>13. ASSUME NEW t \in Thread, CommitStep(t)
       PROVE  CurrentOnRecord'
  <2>1. CASE CommitAcquire(t)
    BY <1>3, <2>1 DEF CommitAcquire, planVars
  <2>2. ASSUME CommitEnd(t)
        PROVE  /\ commit[t] \in PlanId /\ Exists(commit[t])
               /\ currentByRequest' = currentByRequest
    BY <2>2 DEF CommitEnd, AcquireReturn, PlanInv, CommitCallMatches, PlansTypeOK
  <2>3. CASE CommitWithdrawn(t)
    BY <1>2, <2>2, <2>3 DEF CommitWithdrawn, PlanState
  <2>4. CASE CommitRefused(t)
    BY <1>2, <2>2, <2>4 DEF CommitRefused, PlanState
  <2>5. CASE CommitDone(t)
    BY <1>2, <2>2, <2>5 DEF CommitDone, PlanState
  <2> QED BY <1>13, <2>1, <2>3, <2>4, <2>5 DEF CommitStep
<1> QED BY <1>4, <1>5, <1>6, <1>7, <1>8, <1>9, <1>10, <1>11, <1>12, <1>13
        DEF Next, ClientStep

\* Plan handlers leave the evidence alone.
LEMMA EvidenceInvKept ==
  ASSUME CoordinatorInv, [Next]_vars
  PROVE  EvidenceInv'
<1>1. [EvidenceNext]_evidenceVars
  BY DEF Next, EvidenceStep, ClientStep, CommitStep, SubmitFeasible,
     SubmitInfeasible, CommitBegin, Revalidate, ExecutionHandoff, ExecutionResult,
     Cancel, Supersede, CommitAcquire, CommitWithdrawn, CommitRefused, CommitDone,
     CommitEnd, vars
<1> QED BY <1>1, EvidenceInvNext DEF CoordinatorInv

\* The empty coordinator.
LEMMA CoordinatorInvInit == Init => CoordinatorInv
<1> SUFFICES ASSUME Init PROVE CoordinatorInv
  OBVIOUS
<1>1. EvidenceInv
  BY EvidenceInvInit DEF Init
<1>2. BrokerTypeOK
  BY DEF Init, BrokerInit, BrokerTypeOK, NothingHeld, AllIdle, Idle, Calls
<1>3. NoPlan \in PlanRecord /\ NoPlan.state = "ABSENT" /\ NoPlan.req = None
  BY DEF NoPlan, PlanRecord
<1>4. \A p \in PlanId : plans[p] = NoPlan
  BY DEF Init, PlansInit
<1>5. PlansTypeOK
  BY <1>3, CoordinatorAssumption DEF Init, PlansInit, PlansTypeOK
<1>6. /\ PlansWellFormed /\ ExecutableNeedsNoStaging /\ AwaitingCommitHasCommitter
  BY <1>3, <1>4 DEF PlansWellFormed, ExecutableNeedsNoStaging, Executable,
     AwaitingCommitHasCommitter, Exists
<1>7. CommitCallMatches /\ CurrentOnRecord
  BY DEF Init, PlansInit, BrokerInit, AllIdle, Idle, CommitCallMatches, CurrentOnRecord
<1>8. CommitsBelowNext
  BY <1>3, <1>4 DEF Init, PlansInit, CommitsBelowNext
<1> QED BY <1>1, <1>2, <1>5, <1>6, <1>7, <1>8 DEF CoordinatorInv, PlanInv

\* The invariant is inductive.
LEMMA CoordinatorInvNext == CoordinatorInv /\ [Next]_vars => CoordinatorInv'
  BY EvidenceInvKept, PlanInvNext, CurrentOnRecordNext DEF CoordinatorInv

\* The invariant of the whole coordinator.
THEOREM CoordinatorInvariant == Spec => []CoordinatorInv
<1> QED BY CoordinatorInvInit, CoordinatorInvNext, PTL DEF Spec

\* The coordinator's tables are well typed, however its threads interleave.
THEOREM TypeCorrect == Spec => []TypeOK
<1>1. CoordinatorInv => TypeOK
  BY DEF CoordinatorInv, PlanInv, EvidenceInv, TypeOK
<1> QED BY CoordinatorInvariant, <1>1, PTL

\* No plan with staging claims reaches execution: revalidatePlan refuses it, and
\* every way into execution revalidates.
THEOREM StagingStaysOut == Spec => []ExecutableNeedsNoStaging
<1>1. CoordinatorInv => ExecutableNeedsNoStaging
  BY DEF CoordinatorInv, PlanInv
<1> QED BY CoordinatorInvariant, <1>1, PTL

\* A plan in AWAITING_RESOURCE_COMMIT has a thread inside handleCommit for it,
\* for any number of threads and any interleaving of client messages.
THEOREM NoPlanStranded == Spec => []AwaitingCommitHasCommitter
<1>1. CoordinatorInv => AwaitingCommitHasCommitter
  BY DEF CoordinatorInv, PlanInv
<1> QED BY CoordinatorInvariant, <1>1, PTL

\* The claims that handleCommit copies before it unlocks are the plan's until it
\* locks again.
THEOREM CopiedClaimsStay == Spec => []CommitCallMatches
<1>1. CoordinatorInv => CommitCallMatches
  BY DEF CoordinatorInv, PlanInv
<1> QED BY CoordinatorInvariant, <1>1, PTL

-----------------------------------------------------------------------------
\* The states the handlers give to plans.
Assigned ==
  { "PLAN_READY", "AWAITING_RESOURCE_COMMIT", "COMMITTED", "AWAITING_EXECUTION",
    "ACTIVE", "COMPLETED", "REVALIDATION_REQUIRED", "CANCELLED", "FAILED", "SUPERSEDED" }

\* What a step does to the state of a plan: EXECUTION_HANDOFF is the only way into
\* ACTIVE, and the end of handleCommit, which looks at the cancelled requests
\* under the same lock, the only way into COMMITTED.
LEMMA StateChange ==
  ASSUME CoordinatorInv, [Next]_vars, NEW p \in PlanId
  PROVE  \/ plans'[p].state = plans[p].state
         \/ plans'[p].state = "ACTIVE" /\ Revalidates(plans[p])
         \/ plans'[p].state = "COMMITTED" /\ plans[p].req \notin cancelled
         \/ plans'[p].state \in Assigned \ {"ACTIVE", "COMMITTED"}
<1> USE DEF CoordinatorInv
<1> DEFINE Allowed(s) ==
      \/ s = plans[p].state
      \/ s = "ACTIVE" /\ Revalidates(plans[p])
      \/ s = "COMMITTED" /\ plans[p].req \notin cancelled
      \/ s \in Assigned \ {"ACTIVE", "COMMITTED"}
<1> SUFFICES Allowed(plans'[p].state)
  OBVIOUS
<1>0. ASSUME NEW q \in PlanId, NEW s \in PlanState, Exists(q), SetState(q, s),
             q = p => Allowed(s)
      PROVE  Allowed(plans'[p].state)
  <2>1. plans'[q].state = s /\ \A v \in PlanId \ {q} : plans'[v] = plans[v]
    BY <1>0, SetStateOnly DEF PlanInv
  <2> QED BY <1>0, <2>1
<1>1. CASE UNCHANGED plans
  BY <1>1
<1>2. CASE EvidenceStep \/ UNCHANGED vars
  BY <1>1, <1>2 DEF EvidenceStep, vars, planVars
<1>3. ASSUME NEW r \in Request, SubmitFeasible(r)
      PROVE  Allowed(plans'[p].state)
  <2>1. nextPlan \in PlanId
    BY <1>3 DEF SubmitFeasible
  <2>2. PICK primary \in Route, fallbacks \in SUBSET Route :
          plans' = [plans EXCEPT ![nextPlan] = NewPlan(r, primary, fallbacks)]
    BY <1>3, CoordinatorAssumption DEF SubmitFeasible
  <2>3. NewPlan(r, primary, fallbacks).state = "PLAN_READY"
    BY DEF NewPlan, Binding
  <2>4. plans'[p] = plans[p] \/ plans'[p] = NewPlan(r, primary, fallbacks)
    BY <2>1, <2>2 DEF PlanInv, PlansTypeOK
  <2> QED BY <2>3, <2>4 DEF Assigned
<1>4. ASSUME NEW r \in Request, SubmitInfeasible(r)
      PROVE  UNCHANGED plans
  BY <1>4 DEF SubmitInfeasible
<1>5. ASSUME NEW t \in Thread, NEW q \in PlanId, CommitBegin(t, q)
      PROVE  Allowed(plans'[p].state)
  <2>1. Exists(q) /\ SetState(q, "AWAITING_RESOURCE_COMMIT")
    BY <1>5 DEF CommitBegin, Exists
  <2>2. "AWAITING_RESOURCE_COMMIT" \in PlanState /\ Allowed("AWAITING_RESOURCE_COMMIT")
    BY DEF PlanState, Assigned
  <2> QED BY <1>0, <2>1, <2>2
<1>6. ASSUME NEW q \in PlanId, Revalidate(q)
      PROVE  Allowed(plans'[p].state)
  <2>1. PICK s \in {"AWAITING_EXECUTION", "REVALIDATION_REQUIRED"} :
          Exists(q) /\ SetState(q, s)
    BY <1>6 DEF Revalidate
  <2>2. s \in PlanState /\ Allowed(s)
    BY DEF PlanState, Assigned
  <2> QED BY <1>0, <2>1, <2>2
<1>7. ASSUME NEW q \in PlanId, ExecutionHandoff(q)
      PROVE  Allowed(plans'[p].state)
  <2>1. PICK s \in {"ACTIVE", "REVALIDATION_REQUIRED"} :
          Exists(q) /\ SetState(q, s) /\ (s = "ACTIVE" => Revalidates(plans[q]))
    BY <1>7 DEF ExecutionHandoff
  <2>2. s \in PlanState /\ (q = p => Allowed(s))
    BY <2>1 DEF PlanState, Assigned
  <2> QED BY <1>0, <2>1, <2>2
<1>8. ASSUME NEW q \in PlanId, NEW w \in Worker \cup {None}, NEW b \in Boot,
             NEW ok \in BOOLEAN, ExecutionResult(q, w, b, ok)
      PROVE  Allowed(plans'[p].state)
  <2>1. PICK s \in {"COMPLETED", "FAILED"} : Exists(q) /\ SetState(q, s)
    BY <1>8 DEF ExecutionResult, Exists
  <2>2. s \in PlanState /\ Allowed(s)
    BY DEF PlanState, Assigned
  <2> QED BY <1>0, <2>1, <2>2
<1>9. ASSUME NEW r \in Request, NEW q \in PlanId, Cancel(r, q)
      PROVE  Allowed(plans'[p].state)
  <2>1. UNCHANGED plans \/ (Exists(q) /\ SetState(q, "CANCELLED"))
    BY <1>9 DEF Cancel, Exists
  <2>2. "CANCELLED" \in PlanState /\ Allowed("CANCELLED")
    BY DEF PlanState, Assigned
  <2> QED BY <1>0, <1>1, <2>1, <2>2
<1>10. ASSUME NEW r \in Request, NEW q \in PlanId, Supersede(r, q)
       PROVE  Allowed(plans'[p].state)
  <2>1. plans[p] \in PlanRecord
    BY DEF PlanInv, PlansTypeOK
  <2>2. [plans[p] EXCEPT !.state = "SUPERSEDED"].state = "SUPERSEDED"
    BY <2>1 DEF PlanRecord
  <2>3. \/ plans'[p] = plans[p]
        \/ plans'[p] = [plans[p] EXCEPT !.state = "SUPERSEDED"]
    BY <1>10 DEF Supersede
  <2> QED BY <2>2, <2>3 DEF Assigned
<1>11. ASSUME NEW t \in Thread, CommitStep(t)
       PROVE  Allowed(plans'[p].state)
  <2>1. CASE CommitAcquire(t)
    BY <1>1, <2>1 DEF CommitAcquire, planVars
  <2>2. ASSUME CommitEnd(t)
        PROVE  commit[t] \in PlanId /\ Exists(commit[t])
    BY <2>2 DEF CommitEnd, AcquireReturn, PlanInv, CommitCallMatches, PlansTypeOK
  <2>3. CASE CommitWithdrawn(t) \/ CommitRefused(t)
    <3>1. PICK s \in {"CANCELLED", "FAILED"} : CommitEnd(t) /\ SetState(commit[t], s)
      BY <2>3 DEF CommitWithdrawn, CommitRefused
    <3>2. s \in PlanState /\ Allowed(s)
      BY DEF PlanState, Assigned
    <3> QED BY <1>0, <2>2, <3>1, <3>2
  <2>4. CASE CommitDone(t)
    <3>1. /\ CommitEnd(t) /\ SetState(commit[t], "COMMITTED")
          /\ plans[commit[t]].req \notin cancelled
      BY <2>4 DEF CommitDone, Withdrawn
    <3>2. "COMMITTED" \in PlanState
      BY DEF PlanState
    <3> QED BY <1>0, <2>2, <3>1, <3>2
  <2> QED BY <1>11, <2>1, <2>3, <2>4 DEF CommitStep
<1> QED BY <1>1, <1>2, <1>3, <1>4, <1>5, <1>6, <1>7, <1>8, <1>9, <1>10, <1>11
        DEF Next, ClientStep

\* What a plan is handed off on was published by live incarnations.
LEMMA HandoffLive ==
  ASSUME CoordinatorInv, [Next]_vars, NEW p \in PlanId,
         plans[p].state # "ACTIVE", plans'[p].state = "ACTIVE",
         NEW q \in plans[p].paths, NEW e \in RouteEnds[q]
  PROVE  LET w == endpoints[e].worker IN
         /\ w \in Worker /\ workers[w].alive
         /\ endpoints[e].boot = workers[w].boot
         /\ <<w, workers[w].boot>> \notin fenced
<1>1. Revalidates(plans[p])
  BY StateChange
<1>2. q \in Route
  BY DEF CoordinatorInv, PlanInv, PlansTypeOK, PlanRecord
<1>3. e \in Endpoint
  BY <1>2, CoordinatorAssumption
<1>4. EndpointUsable(e)
  BY <1>1 DEF Revalidates, EvidenceCurrent, RouteUsable
<1>5. EvidenceInv
  BY DEF CoordinatorInv
<1> QED BY <1>3, <1>4, <1>5, UsableIsLive

\* A plan is handed off only on endpoints whose publishers are registered and
\* not fenced at that moment.
THEOREM HandoffIsLive == Spec => HandoffOnLiveEvidence
<1> DEFINE Live(p) ==
      (plans[p].state # "ACTIVE" /\ plans'[p].state = "ACTIVE") =>
        \A q \in plans[p].paths : \A e \in RouteEnds[q] :
          LET w == endpoints[e].worker IN
          /\ w \in Worker /\ workers[w].alive
          /\ endpoints[e].boot = workers[w].boot
          /\ <<w, workers[w].boot>> \notin fenced
<1>1. ASSUME CoordinatorInv, [Next]_vars, NEW p \in PlanId
      PROVE  Live(p)
  BY <1>1, HandoffLive
<1>2. CoordinatorInv /\ [Next]_vars => [\A p \in PlanId : Live(p)]_vars
  BY <1>1
<1> QED BY CoordinatorInvariant, <1>2, PTL DEF Spec, HandoffOnLiveEvidence

=============================================================================
