--------------------------- MODULE RecoveryProofs ---------------------------
(***************************************************************************)
(* Proofs about Recovery for any number of lives, savers, threads, plans   *)
(* and routes.  The coordinator's invariant survives a restart because an  *)
(* image is a copy of a table that satisfied it: the store file and every  *)
(* image under way hold plans that were once on record.  Nothing is asked  *)
(* of when the image was taken, so a stale image is as good as a fresh     *)
(* one, and nothing of the ids, which SUBMIT_REQUEST uses again after a    *)
(* restart.                                                                *)
(***************************************************************************)
EXTENDS Recovery, CoordinatorProofs, WellFoundedInduction

\* What can be on record: a state that some handler assigns, the request and the
\* route of a plan, and no claims once it can be executed.
TablePlan ==
  { rec \in PlanRecord :
      /\ rec.state \in Assigned \cup {"ABSENT"}
      /\ rec.state # "ABSENT" => rec.req \in Request /\ rec.primary \in Route
      /\ rec.state = "ABSENT" => rec.req = None
      /\ rec.state \in Executable => Claims(rec) = {} }

\* What can be in a store file.
TableImage ==
  [ epoch : Nat, supersessions : SUBSET (PlanId \X PlanId),
    requests : [Request -> 0 .. 2], plans : [PlanId -> TablePlan] ]

\* The inductive invariant of the coordinator with its store.
RecoveryInv ==
  /\ CoordinatorInv
  /\ \A p \in PlanId : plans[p].state \in Assigned \cup {"ABSENT"}
  /\ epoch \in Nat /\ life \in Nat
  /\ store \in [status : {"missing", "torn", "complete"}, image : TableImage]
  /\ saving \in [Saver -> [pc : {"idle", "copied", "open"}, image : TableImage]]

-----------------------------------------------------------------------------
\* A non-empty set of naturals has a least element.
LEMMA LeastNat ==
  ASSUME NEW S \in SUBSET Nat, S # {}
  PROVE  \E m \in S : \A k \in S : m <= k
<1> DEFINE R == OpToRel(<, Nat)
<1>1. \A x, y \in Nat : x < y => <<x, y>> \in R
  BY DEF OpToRel
<1>2. IsWellFoundedOn(R, Nat)
  BY NatLessThanWellFounded
<1> HIDE DEF R
<1>3. PICK x \in S : \A y \in S : ~ (<<y, x>> \in R)
  BY <1>2, WFMin, Zenon
<1>4. \A y \in S : ~(y < x)
  BY <1>1, <1>3
<1>5. \A y \in S : x <= y
  BY <1>4
<1> QED BY <1>5

\* The last plan of a request is one of its plans.
LEMMA LastIsOne ==
  ASSUME NEW n \in Nat, NEW S \in SUBSET (1 .. n), S # {}
  PROVE  Max(S) \in S
<1> DEFINE T == {n - x : x \in S}
<1>0. \A x \in S : x \in Nat /\ x <= n /\ n - x \in Nat
  OBVIOUS
<1>1. T \in SUBSET Nat /\ T # {}
  BY <1>0
<1>2. PICK m \in T : \A k \in T : m <= k
  BY <1>1, LeastNat
<1>3. PICK x \in S : m = n - x
  OBVIOUS
<1>4. ASSUME NEW y \in S PROVE x >= y
  <2>1. m <= n - y
    BY <1>2
  <2> QED BY <1>0, <1>3, <2>1
<1> QED BY <1>4 DEF Max

-----------------------------------------------------------------------------
\* What SAVE copies is on record at that moment.
LEMMA ImageIsTable ==
  ASSUME RecoveryInv
  PROVE  Image \in TableImage
<1>1. ASSUME NEW p \in PlanId
      PROVE  [plans[p] EXCEPT !.worker = None, !.boot = None] \in TablePlan
  <2> DEFINE rec == [plans[p] EXCEPT !.worker = None, !.boot = None]
  <2>1. plans[p] \in PlanRecord
    BY DEF RecoveryInv, CoordinatorInv, PlanInv, PlansTypeOK
  <2>2. /\ rec \in PlanRecord /\ rec.state = plans[p].state
        /\ rec.req = plans[p].req /\ rec.primary = plans[p].primary
    BY <2>1 DEF PlanRecord
  <2> HIDE DEF rec
  <2>3. Claims(rec) = Claims(plans[p])
    BY <2>2 DEF Claims
  <2>4. /\ plans[p].state \in Assigned \cup {"ABSENT"}
        /\ plans[p].state # "ABSENT" => plans[p].req \in Request /\ plans[p].primary \in Route
        /\ plans[p].state = "ABSENT" => plans[p].req = None
        /\ plans[p].state \in Executable => Claims(plans[p]) = {}
    BY DEF RecoveryInv, CoordinatorInv, PlanInv, PlansWellFormed, Exists,
       ExecutableNeedsNoStaging
  <2>5. rec \in TablePlan
    BY <2>2, <2>3, <2>4 DEF TablePlan
  <2> QED BY <2>5 DEF rec
<1>2. /\ supersessions \in SUBSET (PlanId \X PlanId)
      /\ requests \in [Request -> 0 .. 2] /\ epoch \in Nat
  BY DEF RecoveryInv, CoordinatorInv, PlanInv, PlansTypeOK
<1> QED BY <1>1, <1>2 DEF Image, TableImage

\* Nothing on record is a table too.
LEMMA EmptyIsTable == EmptyImage \in TableImage
<1>1. NoPlan \in PlanRecord /\ NoPlan.state = "ABSENT" /\ NoPlan.req = None
  BY DEF NoPlan, PlanRecord
<1>2. NoPlan \in TablePlan
  BY <1>1 DEF TablePlan, Executable
<1> QED BY <1>2 DEF EmptyImage, TableImage

\* So the plans that a start reads are those of a table.
LEMMA LoadedIsTable ==
  ASSUME RecoveryInv
  PROVE  Loaded \in TableImage
<1>1. store.image \in TableImage
  BY DEF RecoveryInv
<1> QED BY <1>1, EmptyIsTable DEF Loaded

\* conservativeRecovery leaves a plan as it was, to be revalidated or closed.
LEMMA RecoveredPlan ==
  ASSUME NEW rec \in TablePlan
  PROVE  /\ Recovered(rec) \in TablePlan
         /\ Recovered(rec).req = rec.req
         /\ Recovered(rec).state = "ABSENT" <=> rec.state = "ABSENT"
         /\ Recovered(rec).state \in Closed \cup {"REVALIDATION_REQUIRED", "ABSENT"}
         /\ Recovered(rec).state = rec.state \/ CanTransition(rec.state, Recovered(rec).state)
<1> DEFINE Open == {"PLAN_READY", "AWAITING_RESOURCE_COMMIT", "COMMITTED",
                    "AWAITING_EXECUTION", "ACTIVE"}
           new == [rec EXCEPT !.state = "REVALIDATION_REQUIRED"]
<1>1. rec \in PlanRecord /\ rec.state \in Assigned \cup {"ABSENT"}
  BY DEF TablePlan
<1>2. CASE rec.state \in Open
  <2>1. Recovered(rec) = new
    BY <1>2 DEF Recovered
  <2>2. /\ new \in PlanRecord /\ new.state = "REVALIDATION_REQUIRED"
        /\ new.req = rec.req /\ new.primary = rec.primary
    BY <1>1 DEF PlanRecord, PlanState
  <2>3. new \in TablePlan
    BY <1>2, <2>2 DEF TablePlan, Assigned, Executable
  <2>4. CanTransition(rec.state, "REVALIDATION_REQUIRED")
    BY <1>2 DEF CanTransition, OwnSuccessors, Closed
  <2> QED BY <1>2, <2>1, <2>2, <2>3, <2>4
<1>3. CASE rec.state \notin Open
  <2>1. Recovered(rec) = rec
    BY <1>3 DEF Recovered
  <2>2. rec.state \in Closed \cup {"REVALIDATION_REQUIRED", "ABSENT"}
    BY <1>1, <1>3 DEF Assigned, Closed
  <2> QED BY <2>1, <2>2
<1> QED BY <1>2, <1>3

\* The tables after a start: whatever of the store can be used, and no evidence,
\* no holdings and no commit under way.
LEMMA RestartedInv ==
  ASSUME RecoveryInv, Restart
  PROVE  /\ CoordinatorInv'
         /\ \A p \in PlanId : plans'[p].state \in Assigned \cup {"ABSENT"}
<1> DEFINE old == Loaded
<1>1. /\ old \in TableImage /\ \A p \in PlanId : old.plans[p] \in TablePlan
  BY LoadedIsTable DEF TableImage
<1> HIDE DEF old
<1>2. ASSUME NEW p \in PlanId
      PROVE  /\ plans'[p] \in TablePlan
             /\ plans'[p].req = old.plans[p].req
             /\ plans'[p].state = "ABSENT" <=> old.plans[p].state = "ABSENT"
             /\ plans'[p].state \in Closed \cup {"REVALIDATION_REQUIRED", "ABSENT"}
  <2>1. plans'[p] = Recovered(old.plans[p])
    BY DEF Restart, old
  <2> QED BY <1>1, <2>1, RecoveredPlan
<1>3. EvidenceInv'
  <2>1. EvidenceInit'
    BY DEF Restart, EvidenceInit
  <2>2. EvidenceInit' => EvidenceInv'
    BY EvidenceInvInit, PTL
  <2> QED BY <2>1, <2>2
<1>4. BrokerTypeOK'
  BY DEF Restart, BrokerTypeOK, NothingHeld, AllIdle, Idle, Calls
<1>5. CurrentOnRecord' /\ currentByRequest' \in [Request -> PlanId \cup {None}]
  <2> DEFINE own(r) == {p \in PlanId : old.plans[p].req = r}
  <2>1. currentByRequest' = [r \in Request |-> IF own(r) = {} THEN None ELSE Max(own(r))]
    BY DEF Restart, old
  <2>2. ASSUME NEW r \in Request, own(r) # {}
        PROVE  Max(own(r)) \in own(r)
    <3>1. own(r) \in SUBSET (1 .. MaxPlans) /\ MaxPlans \in Nat
      BY CoordinatorAssumption DEF PlanId
    <3> HIDE DEF own
    <3> QED BY <2>2, <3>1, LastIsOne
  <2>3. ASSUME NEW r \in Request, NEW p \in own(r)
        PROVE  p \in PlanId /\ plans'[p].state # "ABSENT"
    BY <1>1, <1>2, CoordinatorAssumption DEF TablePlan
  <2>4. ASSUME NEW r \in Request
        PROVE  \/ currentByRequest'[r] = None
               \/ /\ currentByRequest'[r] \in PlanId
                  /\ plans'[currentByRequest'[r]].state # "ABSENT"
    <3> HIDE DEF own
    <3> QED BY <2>1, <2>2, <2>3
  <2>5. currentByRequest' \in [Request -> PlanId \cup {None}]
    <3> HIDE DEF own
    <3> QED BY <2>1, <2>2, <2>3
  <2> QED BY <2>4, <2>5 DEF CurrentOnRecord, Exists
<1>6. PlansTypeOK'
  <2>1. plans' \in [PlanId -> PlanRecord]
    <3>1. \A p \in PlanId : plans'[p] \in PlanRecord
      BY <1>2 DEF TablePlan
    <3>2. plans' = [p \in PlanId |-> Recovered(old.plans[p])]
      BY DEF Restart, old
    <3> QED BY <3>1, <3>2
  <2>2. /\ supersessions' \subseteq PlanId \X PlanId
        /\ requests' \in [Request -> 0 .. 2]
    BY <1>1 DEF Restart, old, TableImage
  <2>3. nextPlan' \in 1 .. (MaxPlans + 1)
    BY CoordinatorAssumption DEF Restart
  <2>4. cancelled' \subseteq Request /\ commit' \in [Thread -> PlanId \cup {None}]
    BY DEF Restart
  <2> QED BY <1>5, <2>1, <2>2, <2>3, <2>4 DEF PlansTypeOK
<1>7. PlansWellFormed'
  BY <1>2 DEF PlansWellFormed, Exists, TablePlan
<1>8. CommitsBelowNext' /\ AwaitingCommitHasCommitter'
  <2>1. \A p \in PlanId : plans'[p].state \notin {"PLAN_READY", "AWAITING_RESOURCE_COMMIT"}
    BY <1>2 DEF Closed
  <2>2. \A t \in Thread : commit'[t] = None
    BY DEF Restart
  <2> QED BY <2>1, <2>2 DEF CommitsBelowNext, AwaitingCommitHasCommitter
<1>9. ExecutableNeedsNoStaging'
  BY <1>2 DEF TablePlan, ExecutableNeedsNoStaging
<1>10. CommitCallMatches'
  BY DEF Restart, CommitCallMatches, AllIdle, Idle
<1>11. \A p \in PlanId : plans'[p].state \in Assigned \cup {"ABSENT"}
  BY <1>2 DEF TablePlan
<1> QED BY <1>3, <1>4, <1>5, <1>6, <1>7, <1>8, <1>9, <1>10, <1>11
        DEF CoordinatorInv, PlanInv

\* A fresh process without a store file.
LEMMA RecoveryInvInit == RecoveryInit => RecoveryInv
<1> SUFFICES ASSUME RecoveryInit PROVE RecoveryInv
  OBVIOUS
<1>1. CoordinatorInv
  BY CoordinatorInvInit DEF RecoveryInit
<1>2. \A p \in PlanId : plans[p].state = "ABSENT"
  BY DEF RecoveryInit, Init, PlansInit, NoPlan
<1> QED BY <1>1, <1>2, EmptyIsTable DEF RecoveryInit, RecoveryInv

\* Handlers, saves and restarts keep the invariant.
LEMMA RecoveryInvNext ==
  ASSUME RecoveryInv, [RecoveryNext]_recoveryVars
  PROVE  RecoveryInv'
<1> DEFINE S == [status : {"missing", "torn", "complete"}, image : TableImage]
           V == [pc : {"idle", "copied", "open"}, image : TableImage]
<1>0. store \in S /\ saving \in [Saver -> V] /\ epoch \in Nat /\ life \in Nat
  BY DEF RecoveryInv
<1>1. CASE [Next]_vars /\ UNCHANGED <<epoch, life, store, saving>>
  <2>1. CoordinatorInv'
    BY <1>1, CoordinatorInvNext DEF RecoveryInv
  <2>2. \A p \in PlanId : plans'[p].state \in Assigned \cup {"ABSENT"}
    BY <1>1, StateChange DEF RecoveryInv, Assigned
  <2> QED BY <1>0, <1>1, <2>1, <2>2 DEF RecoveryInv
<1>2. ASSUME UNCHANGED <<vars, epoch, life>>, store' \in S, saving' \in [Saver -> V]
      PROVE  RecoveryInv'
  <2>1. CoordinatorInv' /\ UNCHANGED plans
    BY <1>2, CoordinatorInvNext DEF RecoveryInv, vars, planVars
  <2> QED BY <1>0, <1>2, <2>1 DEF RecoveryInv
<1>3. ASSUME NEW t \in Saver, SaveCopy(t)
      PROVE  RecoveryInv'
  <2>1. [pc |-> "copied", image |-> Image] \in V
    BY ImageIsTable
  <2> QED BY <1>0, <1>2, <1>3, <2>1 DEF SaveCopy
<1>4. ASSUME NEW t \in Saver, SaveOpen(t)
      PROVE  RecoveryInv'
  <2>1. [saving[t] EXCEPT !.pc = "open"] \in V /\ [status |-> "torn", image |-> EmptyImage] \in S
    BY <1>0, EmptyIsTable
  <2> QED BY <1>0, <1>2, <1>4, <2>1 DEF SaveOpen
<1>5. ASSUME NEW t \in Saver, SaveWrite(t)
      PROVE  RecoveryInv'
  <2>1. /\ [pc |-> "idle", image |-> EmptyImage] \in V
        /\ [status |-> "torn", image |-> EmptyImage] \in S
        /\ [status |-> "complete", image |-> saving[t].image] \in S
    BY <1>0, EmptyIsTable
  <2> QED BY <1>0, <1>2, <1>5, <2>1 DEF SaveWrite
<1>6. CASE Restart
  <2>1. [pc |-> "idle", image |-> EmptyImage] \in V
    BY EmptyIsTable
  <2>2. saving' \in [Saver -> V] /\ store' \in S /\ life' \in Nat
    BY <1>0, <1>6, <2>1 DEF Restart
  <2>3. epoch' \in Nat
    BY <1>6, LoadedIsTable DEF Restart, TableImage
  <2> QED BY <1>6, <2>2, <2>3, RestartedInv DEF RecoveryInv
<1>7. CASE UNCHANGED recoveryVars
  BY <1>1, <1>7 DEF recoveryVars
<1> QED BY <1>1, <1>3, <1>4, <1>5, <1>6, <1>7 DEF RecoveryNext

-----------------------------------------------------------------------------
\* The tables, the store file and every image under way are sound in every life.
THEOREM RecoveryInvariant == RecoverySpec => []RecoveryInv
<1> QED BY RecoveryInvInit, RecoveryInvNext, PTL DEF RecoverySpec

\* Also a plan that was recovered, from however old a store file, never reaches
\* execution with staging claims.
THEOREM StagingStaysOutAcrossRestarts == RecoverySpec => []ExecutableNeedsNoStaging
<1>1. RecoveryInv => ExecutableNeedsNoStaging
  BY DEF RecoveryInv, CoordinatorInv, PlanInv
<1> QED BY RecoveryInvariant, <1>1, PTL

\* A plan that was being committed when the process died does not wait for a
\* thread of the earlier life.
THEOREM NoPlanStrandedAcrossRestarts == RecoverySpec => []AwaitingCommitHasCommitter
<1>1. RecoveryInv => AwaitingCommitHasCommitter
  BY DEF RecoveryInv, CoordinatorInv, PlanInv
<1> QED BY RecoveryInvariant, <1>1, PTL

\* What a start makes of a plan that was saved.
LEMMA RestartedPlan ==
  ASSUME RecoveryInv, Restart, NEW p \in PlanId
  PROVE  /\ plans'[p].state \in Closed \cup {"REVALIDATION_REQUIRED", "ABSENT"}
         /\ plans'[p].state # "ABSENT" =>
              LET saved == store.image.plans[p].state IN
              plans'[p].state = saved \/ CanTransition(saved, plans'[p].state)
<1>1. plans'[p] = Recovered(Loaded.plans[p])
  BY DEF Restart
<1>2. Loaded.plans[p] \in TablePlan
  BY LoadedIsTable DEF TableImage
<1>3. CASE Loaded = store.image
  BY <1>1, <1>2, <1>3, RecoveredPlan
<1>4. CASE Loaded = EmptyImage
  <2>1. Loaded.plans[p].state = "ABSENT"
    BY <1>4 DEF EmptyImage, NoPlan
  <2> QED BY <1>1, <1>2, <2>1, RecoveredPlan
<1> QED BY <1>3, <1>4 DEF Loaded

\* EXECUTION_HANDOFF of any plan, recovered or new, rests on evidence that live
\* incarnations published in this life: nothing else makes a plan ACTIVE.
THEOREM HandoffIsLiveAcrossRestarts == RecoverySpec => HandoffOnLiveEvidenceAcrossRestarts
<1> DEFINE Live(p) ==
      (plans[p].state # "ACTIVE" /\ plans'[p].state = "ACTIVE") =>
        \A q \in plans[p].paths : \A e \in RouteEnds[q] :
          LET w == endpoints[e].worker IN
          /\ w \in Worker /\ workers[w].alive
          /\ endpoints[e].boot = workers[w].boot
<1>1. ASSUME RecoveryInv, [RecoveryNext]_recoveryVars, NEW p \in PlanId
      PROVE  Live(p)
  <2>1. CASE [Next]_vars
    BY <1>1, <2>1, HandoffLive DEF RecoveryInv
  <2>2. CASE Restart
    BY <1>1, <2>2, RestartedPlan DEF Closed
  <2>3. [Next]_vars \/ Restart
    BY <1>1 DEF RecoveryNext, SaveCopy, SaveOpen, SaveWrite, recoveryVars
  <2> QED BY <2>1, <2>2, <2>3
<1>2. RecoveryInv /\ [RecoveryNext]_recoveryVars => [\A p \in PlanId : Live(p)]_recoveryVars
  BY <1>1
<1> QED BY RecoveryInvariant, <1>2, PTL DEF RecoverySpec, HandoffOnLiveEvidenceAcrossRestarts

\* A start moves a saved plan only along the table of lifecycle.cpp, and to a
\* state from which nothing is executed without a new revalidation.
THEOREM RestartIsConservative == RecoverySpec => RestartFollowsLifecycle
<1> DEFINE Follows(p) ==
      LET saved == store.image.plans[p].state
          now == plans'[p].state
      IN  (life' # life /\ now # "ABSENT") =>
            /\ now = saved \/ CanTransition(saved, now)
            /\ now \in Closed \cup {"REVALIDATION_REQUIRED"}
<1>1. ASSUME RecoveryInv, [RecoveryNext]_recoveryVars, NEW p \in PlanId
      PROVE  Follows(p)
  <2>1. CASE life' = life
    BY <2>1
  <2>2. CASE Restart
    BY <1>1, <2>2, RestartedPlan
  <2>3. life' = life \/ Restart
    BY <1>1 DEF RecoveryNext, SaveCopy, SaveOpen, SaveWrite, recoveryVars
  <2> QED BY <2>1, <2>2, <2>3
<1>2. RecoveryInv /\ [RecoveryNext]_recoveryVars => [\A p \in PlanId : Follows(p)]_recoveryVars
  BY <1>1
<1> QED BY RecoveryInvariant, <1>2, PTL DEF RecoverySpec, RestartFollowsLifecycle

=============================================================================
