---------------------------- MODULE Coordinator ----------------------------
(***************************************************************************)
(* The plan table of the coordinator (src/coordinator.cpp) on top of its   *)
(* evidence and its resource broker: SUBMIT_REQUEST, the two locked halves *)
(* of handleCommit around an unlocked broker acquire, REVALIDATE,          *)
(* EXECUTION_HANDOFF, EXECUTION_RESULT, CANCEL and SUPERSEDE.  Handlers    *)
(* other than the commit run under Impl::mtx from start to end and are one *)
(* action each.  Messages come from any client, in any order; a handler    *)
(* that only answers with an error is not an action.                       *)
(*                                                                         *)
(* Planning is abstracted to its outcome.  A route stands for one way to   *)
(* serve a request, reduced to the links, endpoints and relays that        *)
(* feasibility and revalidation look at: one candidate path, or for a      *)
(* multicast or collective request one path to every destination or        *)
(* member, taken together.  A collective whose only participant is its     *)
(* root is served by the route without links: its plan has no path.        *)
(* Candidates holds the routes that pass the filters that depend on the    *)
(* request alone.  Which usable route ranks first is a matter of cost, so  *)
(* any of them may.                                                        *)
(***************************************************************************)
EXTENDS Evidence, Broker, PlanLifecycle

CONSTANTS
  Request, Route,
  RouteLinks,     \* RouteLinks[q]: the links of route q
  RouteEnds,      \* RouteEnds[q]: the endpoints q touches, relays included
  RouteSource,    \* RouteSource[q]: where q starts, when it has a link
  Relays,         \* Relays[q]: the staging resources of q's relays
  Candidates,     \* Candidates[r]: the routes request r may take
  Participants,   \* Participants[r]: the endpoints a collective r names
  Payload,        \* Payload[r]: request r's payload size
  MaxFallbacks,   \* MaxFallbacks[r]: bounds.maxFallbacks, 0 unless r is served
                  \* by a single path
  MaxPlans        \* bound: plans created in one life of the process

ASSUME CoordinatorAssumption ==
  /\ None \notin Request /\ None \notin Route /\ None \notin Nat
  /\ RouteLinks \in [Route -> SUBSET Link]
  /\ RouteEnds \in [Route -> SUBSET Endpoint]
  /\ RouteSource \in [Route -> Endpoint]
  /\ Relays \in [Route -> SUBSET Resource]
  /\ \A q \in Route : IF RouteLinks[q] = {} THEN RouteEnds[q] = {} /\ Relays[q] = {}
                      ELSE RouteSource[q] \in RouteEnds[q]
  /\ Candidates \in [Request -> SUBSET Route]
  /\ \A r \in Request : \A q \in Candidates[r] :
       RouteLinks[q] = {} => Candidates[r] = {q}
  /\ Participants \in [Request -> SUBSET Endpoint]
  /\ Payload \in [Request -> Sizes]
  /\ MaxFallbacks \in [Request -> Nat] /\ MaxPlans \in Nat

PlanId == 1 .. MaxPlans

VARIABLES
  plans,             \* Impl::plans, with the bindings of each plan
  nextPlan,          \* CommunicationPlanId::next(), a process-wide counter
  currentByRequest,  \* Impl::currentByRequest
  cancelled,         \* Impl::cancelled
  supersessions,     \* Impl::supersessions
  requests,          \* how often each request is in Impl::requests: 0, 1 or more
  commit             \* commit[t]: the plan thread t is committing, or None

planVars == <<plans, nextPlan, currentByRequest, cancelled, supersessions,
              requests, commit>>
vars == <<evidenceVars, brokerVars, planVars>>

\* struct PlanRecord and the parts of CommunicationPlan that revalidation,
\* commitment and execution read.
PlanRecord ==
  [ state : PlanState \cup {"ABSENT"}, req : Request \cup {None},
    primary : Route \cup {None}, paths : SUBSET Route,
    ends : [Endpoint -> Generation \cup {None}],
    links : [Link -> Generation \cup {None}],
    topology : Nat, congestion : Nat, capacity : Nat,
    worker : Worker \cup {None}, boot : Boot \cup {None} ]

NoPlan ==
  [ state |-> "ABSENT", req |-> None, primary |-> None, paths |-> {},
    ends |-> [e \in Endpoint |-> None], links |-> [l \in Link |-> None],
    topology |-> 0, congestion |-> 0, capacity |-> 0,
    worker |-> None, boot |-> None ]

PlansInit ==
  /\ plans = [p \in PlanId |-> NoPlan]
  /\ nextPlan = 1
  /\ currentByRequest = [r \in Request |-> None]
  /\ cancelled = {}
  /\ supersessions = {}
  /\ requests = [r \in Request |-> 0]
  /\ commit = [t \in Thread |-> None]

Init == EvidenceInit /\ BrokerInit /\ PlansInit

-----------------------------------------------------------------------------
\* snap.resourceCapacities: no handler ever adds a resource to it.
ResourceCapacities == {}

\* plan.requiredResourceClaims, which is also requiredStagingResources: the
\* relays of the primary path, not those of the fallbacks.
Claims(rec) == IF rec.state = "ABSENT" THEN {} ELSE Relays[rec.primary]

\* evaluateCandidateFeasibility, the part that depends on the evidence;
\* revalidatePath makes the same tests.
RouteUsable(q) ==
  /\ \A l \in RouteLinks[q] : LinkUsable(l)
  /\ \A e \in RouteEnds[q] : EndpointUsable(e)

\* Mutation: the source endpoint is taken for its publisher.
ExecutorOwnerless(primary) ==
  LET e == RouteSource[primary] IN
  IF RouteLinks[primary] = {} THEN <<None, None>> ELSE <<e, endpoints[e].boot>>

\* The executor of a plan: the publisher of its first stage's source, and
\* nobody when there are no stages.
Executor(primary) ==
  LET e == RouteSource[primary] IN
  IF RouteLinks[primary] = {} THEN <<None, None>>
  ELSE <<endpoints[e].worker, endpoints[e].boot>>

\* The bindings planCommunication gives a plan for r over the given routes, the
\* generations of the snapshot, of every endpoint and of every link, and the
\* executor SUBMIT_REQUEST gives it.
Binding(r, primary, paths) ==
  [ state |-> "PLAN_READY", req |-> r, primary |-> primary, paths |-> paths,
    ends |-> [e \in Endpoint |-> IF \E q \in paths : e \in RouteEnds[q]
                                 THEN endpoints[e].gen ELSE None],
    links |-> [l \in Link |-> IF \E q \in paths : l \in RouteLinks[q]
                              THEN links[l].gen ELSE None],
    topology |-> topologyGeneration, congestion |-> congestionGeneration,
    capacity |-> capacityGeneration,
    worker |-> Executor(primary)[1], boot |-> Executor(primary)[2] ]

\* Mutation: the plan is bound to the next topology generation.
NewPlanAhead(r, primary, fallbacks) ==
  [Binding(r, primary, {primary} \cup fallbacks) EXCEPT !.topology = @ + 1]

\* The PlanRecord of SUBMIT_REQUEST.
NewPlan(r, primary, fallbacks) == Binding(r, primary, {primary} \cup fallbacks)

\* The part of revalidatePlan that compares the plan with the evidence.
EvidenceCurrent(rec) ==
  /\ rec.topology <= topologyGeneration
  /\ rec.congestion = congestionGeneration
  /\ rec.capacity = capacityGeneration
  /\ \A e \in Endpoint : rec.ends[e] # None =>
       endpoints[e].gen = rec.ends[e] /\ EndpointUsable(e)
  /\ \A l \in Link : rec.links[l] # None =>
       links[l].gen = rec.links[l] /\ LinkUsable(l)
  /\ \A q \in rec.paths : RouteUsable(q)

\* Mutation: the staging resources are not looked up.
RevalidatesUnstaged(rec) == EvidenceCurrent(rec)

\* revalidatePlan.
Revalidates(rec) == EvidenceCurrent(rec) /\ Claims(rec) \subseteq ResourceCapacities

Exists(p) == plans[p].state # "ABSENT"

SetState(p, s) == plans' = [plans EXCEPT ![p].state = s]

-----------------------------------------------------------------------------
\* The number of times r was pushed, as far as the store can tell.
Pushed(r) == [requests EXCEPT ![r] = IF @ = 0 THEN 1 ELSE 2]

\* Mutation: the first plan of a request stays its current plan.
CurrentFirst(r) ==
  IF currentByRequest[r] = None
  THEN [currentByRequest EXCEPT ![r] = nextPlan] ELSE currentByRequest

\* currentByRequest after a plan for r.
Current(r) == [currentByRequest EXCEPT ![r] = nextPlan]

\* buildCollectivePlan: every participant is there, current, reachable and ready.
ParticipantsReady(r) == \A e \in Participants[r] : EndpointUsable(e)

\* SUBMIT_REQUEST with a feasible route: the plan becomes the request's current
\* plan; an older plan of the request keeps its state.
SubmitFeasible(r) ==
  /\ r \notin cancelled
  /\ nextPlan \in PlanId
  /\ ParticipantsReady(r)
  /\ LET usable == {q \in Candidates[r] : RouteUsable(q)} IN
     \E primary \in usable : \E fallbacks \in SUBSET (usable \ {primary}) :
       /\ \/ Cardinality(fallbacks) = MaxFallbacks[r]
          \/ /\ Cardinality(fallbacks) < MaxFallbacks[r]
             /\ fallbacks = usable \ {primary}
       /\ plans' = [plans EXCEPT ![nextPlan] = NewPlan(r, primary, fallbacks)]
  /\ nextPlan' = nextPlan + 1
  /\ currentByRequest' = Current(r)
  /\ requests' = Pushed(r)
  /\ UNCHANGED <<evidenceVars, brokerVars, cancelled, supersessions, commit>>

\* SUBMIT_REQUEST with none: the request is recorded all the same.
SubmitInfeasible(r) ==
  /\ r \notin cancelled
  /\ ParticipantsReady(r) => \A q \in Candidates[r] : ~RouteUsable(q)
  /\ requests' = Pushed(r)
  /\ UNCHANGED <<evidenceVars, brokerVars, plans, nextPlan, currentByRequest,
                 cancelled, supersessions, commit>>

\* Mutation: the relays of the fallback paths are claimed too.
CommitClaimsAll(p) == UNION {Relays[q] : q \in plans[p].paths}

\* The resources handleCommit copies for the broker.
CommitClaims(p) == Claims(plans[p])

\* COMMIT_REQUEST, first locked half of handleCommit.
CommitBegin(t, p) ==
  /\ commit[t] = None
  /\ plans[p].state \in {"PLAN_READY", "AWAITING_RESOURCE_COMMIT"}
  /\ plans[p].req \notin cancelled
  /\ SetState(p, "AWAITING_RESOURCE_COMMIT")
  /\ AcquireCall(t, CommitClaims(p), Payload[plans[p].req])
  /\ commit' = [commit EXCEPT ![t] = p]
  /\ UNCHANGED <<evidenceVars, held, nextPlan, currentByRequest, cancelled,
                 supersessions, requests>>

\* broker.acquire, with no lock held.
CommitAcquire(t) ==
  /\ AcquireCheck(t) \/ AcquireAdd(t)
  /\ UNCHANGED <<evidenceVars, planVars>>

\* Mutation: only the state of the plan is tested.
WithdrawnByState(rec) == rec.state \in {"CANCELLED", "SUPERSEDED", "RETIRED"}

\* The test at the start of the second half.
Withdrawn(rec) ==
  rec.req \in cancelled \/ rec.state \in {"CANCELLED", "SUPERSEDED", "RETIRED"}

CommitEnd(t) ==
  /\ AcquireReturn(t)
  /\ commit' = [commit EXCEPT ![t] = None]
  /\ UNCHANGED <<evidenceVars, nextPlan, currentByRequest, cancelled,
                 supersessions, requests>>

\* Second locked half, plan withdrawn meanwhile: what was acquired is released.
CommitWithdrawn(t) ==
  /\ CommitEnd(t)
  /\ Withdrawn(plans[commit[t]])
  /\ SetState(commit[t], "CANCELLED")
  /\ held' = IF call[t].ok THEN Released(call[t].rs) ELSE held

\* Mutation: the error is answered and the plan keeps its state.
CommitRefusedKeeps(t) ==
  /\ CommitEnd(t)
  /\ ~Withdrawn(plans[commit[t]])
  /\ ~call[t].ok
  /\ UNCHANGED <<held, plans>>

\* Second locked half, broker refused.
CommitRefused(t) ==
  /\ CommitEnd(t)
  /\ ~Withdrawn(plans[commit[t]])
  /\ ~call[t].ok
  /\ SetState(commit[t], "FAILED")
  /\ UNCHANGED held

\* Mutation: a plan that is no longer waiting is neither committed nor answered.
CommitDoneIfWaiting(t) ==
  /\ CommitEnd(t)
  /\ plans[commit[t]].state = "AWAITING_RESOURCE_COMMIT"
  /\ ~Withdrawn(plans[commit[t]])
  /\ call[t].ok
  /\ SetState(commit[t], "COMMITTED")
  /\ UNCHANGED held

\* Second locked half, resources acquired: COMMITTED whatever the state is now.
CommitDone(t) ==
  /\ CommitEnd(t)
  /\ ~Withdrawn(plans[commit[t]])
  /\ call[t].ok
  /\ SetState(commit[t], "COMMITTED")
  /\ UNCHANGED held

\* REVALIDATE, from any state.
Revalidate(p) ==
  /\ Exists(p)
  /\ SetState(p, IF Revalidates(plans[p]) THEN "AWAITING_EXECUTION"
                 ELSE "REVALIDATION_REQUIRED")
  /\ UNCHANGED <<evidenceVars, brokerVars, nextPlan, currentByRequest,
                 cancelled, supersessions, requests, commit>>

\* EXECUTION_HANDOFF, from any state.  The EXECUTE frame for the executor is
\* output and is not part of the coordinator's state.
ExecutionHandoff(p) ==
  /\ Exists(p)
  /\ SetState(p, IF Revalidates(plans[p]) THEN "ACTIVE"
                 ELSE "REVALIDATION_REQUIRED")
  /\ UNCHANGED <<evidenceVars, brokerVars, nextPlan, currentByRequest,
                 cancelled, supersessions, requests, commit>>

\* EXECUTION_RESULT; a client other than a worker sends it with a null worker.
ExecutionResult(p, w, b, ok) ==
  /\ plans[p].state = "ACTIVE"
  /\ w # None => plans[p].worker = w /\ plans[p].boot = b
  /\ SetState(p, IF ok THEN "COMPLETED" ELSE "FAILED")
  /\ UNCHANGED <<evidenceVars, brokerVars, nextPlan, currentByRequest,
                 cancelled, supersessions, requests, commit>>

\* CANCEL of request r and plan p; nothing checks that p is a plan of r.
Cancel(r, p) ==
  /\ cancelled' = cancelled \cup {r}
  /\ IF plans[p].state \in {"ABSENT", "COMPLETED", "CANCELLED"}
     THEN UNCHANGED plans ELSE SetState(p, "CANCELLED")
  /\ held' = IF plans[p].state \in {"COMMITTED", "AWAITING_EXECUTION",
                                    "ACTIVE", "AWAITING_RESOURCE_COMMIT"}
             THEN Released(Claims(plans[p])) ELSE held
  /\ UNCHANGED <<evidenceVars, call, wrapped, nextPlan, currentByRequest,
                 supersessions, requests, commit>>

\* SUPERSEDE of plan p for request r: p itself, and then the request's current
\* plan if that is another one.
Supersede(r, p) ==
  LET demoted == IF plans[p].state \in {"ABSENT", "COMPLETED", "CANCELLED"}
                 THEN {} ELSE {p}
      old == {q \in PlanId : q = currentByRequest[r] /\ q # p}
  IN
  /\ plans' = [q \in PlanId |-> IF q \in demoted \cup old
                                THEN [plans[q] EXCEPT !.state = "SUPERSEDED"]
                                ELSE plans[q]]
  /\ held' = IF demoted = {} THEN held ELSE Released(Claims(plans[p]))
  /\ supersessions' = supersessions \cup {<<q, p>> : q \in old}
  /\ UNCHANGED <<evidenceVars, call, wrapped, nextPlan, currentByRequest,
                 cancelled, requests, commit>>

-----------------------------------------------------------------------------
EvidenceStep == EvidenceNext /\ UNCHANGED <<brokerVars, planVars>>

CommitStep(t) ==
  CommitAcquire(t) \/ CommitWithdrawn(t) \/ CommitRefused(t) \/ CommitDone(t)

ClientStep ==
  \/ \E r \in Request : SubmitFeasible(r)
  \/ \E r \in Request : SubmitInfeasible(r)
  \/ \E t \in Thread, p \in PlanId : CommitBegin(t, p)
  \/ \E p \in PlanId : Revalidate(p)
  \/ \E p \in PlanId : ExecutionHandoff(p)
  \/ \E p \in PlanId, w \in Worker \cup {None}, b \in Boot, ok \in BOOLEAN :
        ExecutionResult(p, w, b, ok)
  \/ \E r \in Request, p \in PlanId : Cancel(r, p)
  \/ \E r \in Request, p \in PlanId : Supersede(r, p)

Next == EvidenceStep \/ ClientStep \/ \E t \in Thread : CommitStep(t)

Spec == Init /\ [][Next]_vars

\* A connection thread inside handleCommit keeps running until it answers.
Fairness == \A t \in Thread : WF_vars(CommitStep(t))

FairSpec == Spec /\ Fairness

-----------------------------------------------------------------------------
\* Type correctness of the plan table.
PlansTypeOK ==
  /\ plans \in [PlanId -> PlanRecord]
  /\ nextPlan \in 1 .. (MaxPlans + 1)
  /\ currentByRequest \in [Request -> PlanId \cup {None}]
  /\ cancelled \subseteq Request
  /\ supersessions \subseteq PlanId \X PlanId
  /\ requests \in [Request -> 0 .. 2]
  /\ commit \in [Thread -> PlanId \cup {None}]

\* Type correctness of the coordinator.
TypeOK == EvidenceTypeOK /\ BrokerTypeOK /\ PlansTypeOK

\* "Required staging / resource claims (must be committed before ACTIVE)"
\* (model/plan.hpp): whatever the order of commits, cancels, revalidations and
\* handoffs, a plan that reaches execution needs no staging.  REVALIDATE and
\* EXECUTION_HANDOFF have no guard on the state, so it is the staging test of
\* revalidatePlan alone that keeps uncommitted claims out of execution.
Executable == {"AWAITING_EXECUTION", "ACTIVE", "COMPLETED"}
ExecutableNeedsNoStaging ==
  \A p \in PlanId : plans[p].state \in Executable => Claims(plans[p]) = {}

\* A plan is AWAITING_RESOURCE_COMMIT only while some thread is inside
\* handleCommit for it: no interleaving of commits with cancels, supersessions
\* and revalidations strands a plan in that state.
AwaitingCommitHasCommitter ==
  \A p \in PlanId : plans[p].state = "AWAITING_RESOURCE_COMMIT" =>
    \E t \in Thread : commit[t] = p

\* A thread is inside broker.acquire exactly while it commits a plan, and then
\* for that plan's claims: the copy taken before the unlock is still the plan's.
CommitCallMatches ==
  \A t \in Thread :
    /\ (call[t].pc = "idle") <=> (commit[t] = None)
    /\ commit[t] # None => /\ Exists(commit[t])
                           /\ call[t].rs = Claims(plans[commit[t]])

\* currentByRequest names the request's most recent plan.
CurrentIsNewest ==
  \A r \in Request, p \in PlanId :
    plans[p].req = r => currentByRequest[r] \in p .. MaxPlans
                        /\ plans[currentByRequest[r]].req = r

\* Within one life of the process the topology generation a plan was bound to
\* is never ahead of the snapshot's: revalidatePlan's "topology generation
\* regressed" can only fire after a restart.
BoundTopologyBehind ==
  \A p \in PlanId : plans[p].topology <= topologyGeneration

\* Everything a plan is handed off on comes from incarnations that are alive at
\* that moment: a plan becomes ACTIVE only when every endpoint of its primary
\* and fallback paths was published by a registered, unfenced boot.
HandoffOnLiveEvidence ==
  [][ \A p \in PlanId :
        (plans[p].state # "ACTIVE" /\ plans'[p].state = "ACTIVE") =>
          \A q \in plans[p].paths : \A e \in RouteEnds[q] :
            LET w == endpoints[e].worker IN
            /\ w \in Worker /\ workers[w].alive
            /\ endpoints[e].boot = workers[w].boot
            /\ <<w, workers[w].boot>> \notin fenced ]_vars

\* A new plan that binds evidence has an executor that is alive: the incarnation
\* that published its source endpoint is registered and not fenced.  A new plan
\* that binds none, the plan without stages of a collective with no member but
\* its root, has no executor at all: EXECUTION_HANDOFF sends nobody an EXECUTE
\* for it.
NewPlanHasLiveExecutor ==
  [][ \A p \in PlanId :
        (plans[p].state = "ABSENT" /\ plans'[p].state # "ABSENT") =>
          LET w == plans'[p].worker
              b == plans'[p].boot
          IN  IF \E l \in Link : plans'[p].links[l] # None
              THEN /\ w \in Worker /\ workers[w].alive /\ b = workers[w].boot
                   /\ <<w, b>> \notin fenced
              ELSE w = None /\ b = None ]_vars

\* A cancelled request never gets resources committed, even when the cancel
\* arrives while the broker call is running.
CancelledNeverCommits ==
  [][ \A p \in PlanId :
        (plans[p].state # "COMMITTED" /\ plans'[p].state = "COMMITTED") =>
          plans[p].req \notin cancelled ]_vars

\* A commit that has begun is answered.
CommitAnswered == \A t \in Thread : (commit[t] # None) ~> (commit[t] = None)

\* A plan waiting for its resources stops waiting.
AwaitingCommitEnds ==
  \A p \in PlanId : (plans[p].state = "AWAITING_RESOURCE_COMMIT")
                      ~> (plans[p].state # "AWAITING_RESOURCE_COMMIT")

-----------------------------------------------------------------------------
\* What the repository's documents say of plans, checked against the handlers.

\* "A newer request/plan supersedes older unresolved generations for the same
\* scope; old plans cannot commit staging, execute, publish success" (README): a
\* plan that is superseded, or no longer its request's current plan, becomes
\* neither COMMITTED nor ACTIVE nor COMPLETED.
OldPlansStayOut ==
  [][ \A p \in PlanId :
        (/\ Exists(p) /\ plans'[p].state # plans[p].state
         /\ plans'[p].state \in {"COMMITTED", "ACTIVE", "COMPLETED"}) =>
          /\ plans[p].state # "SUPERSEDED"
          /\ currentByRequest[plans[p].req] = p ]_vars

\* "Resource commitment is all-or-nothing" (README): a COMMITTED plan holds every
\* resource it claims.
CommittedHoldsClaims ==
  \A p \in PlanId : plans[p].state = "COMMITTED" =>
    \A r \in Claims(plans[p]) : held[r] >= Payload[plans[p].req]

=============================================================================
