------------------------------ MODULE Recovery ------------------------------
(***************************************************************************)
(* The coordinator with its store (src/persistence.cpp and the SAVE        *)
(* handler, saveStore and loadStoreIfAny of src/coordinator.cpp): a save   *)
(* copies the table under Impl::mtx and writes the file after the unlock;  *)
(* the process may die at any point and start again from the file.  What   *)
(* a store file says is abstracted to the record that serializeStore       *)
(* encodes; a file cut short or mixed from two writers fails parseStore's  *)
(* checksum or length tests and is the status "torn".                      *)
(***************************************************************************)
EXTENDS Coordinator, FiniteSetsExt

CONSTANTS
  Saver,       \* connection threads that handle SAVE
  MaxLives     \* bound: lives of the process

ASSUME RecoveryAssumption == MaxLives \in Nat

VARIABLES
  epoch,       \* Impl::epoch
  life,        \* how many times the process has been started
  store,       \* the store file
  saving       \* saving[t]: where t is in a save, and the image it will write

recoveryVars == <<vars, epoch, life, store, saving>>

\* StoreState: cancelled, the executor of a plan, the broker's holdings and all
\* evidence are not part of it.
Image ==
  [ epoch |-> epoch, supersessions |-> supersessions, requests |-> requests,
    plans |-> [p \in PlanId |-> [plans[p] EXCEPT !.worker = None, !.boot = None]] ]

EmptyImage ==
  [ epoch |-> 0, supersessions |-> {}, requests |-> [r \in Request |-> 0],
    plans |-> [p \in PlanId |-> NoPlan] ]

RecoveryInit ==
  /\ Init
  /\ epoch = 1
  /\ life = 1
  /\ store = [status |-> "missing", image |-> EmptyImage]
  /\ saving = [t \in Saver |-> [pc |-> "idle", image |-> EmptyImage]]

-----------------------------------------------------------------------------
\* SAVE and saveStore: the copy, under the lock.  In the last life that MaxLives
\* allows a save is left out: no later start would read it.
SaveCopy(t) ==
  /\ life < MaxLives
  /\ saving[t].pc = "idle"
  /\ saving' = [saving EXCEPT ![t] = [pc |-> "copied", image |-> Image]]
  /\ UNCHANGED <<vars, epoch, life, store>>

\* The ofstream is opened: the old contents are gone.
SaveOpen(t) ==
  /\ saving[t].pc = "copied"
  /\ saving' = [saving EXCEPT ![t].pc = "open"]
  /\ store' = [status |-> "torn", image |-> EmptyImage]
  /\ UNCHANGED <<vars, epoch, life>>

\* The bytes are written and the file is closed.  Two files open at once write
\* over each other: the shorter image may leave a tail of the longer one.
SaveWrite(t) ==
  /\ saving[t].pc = "open"
  /\ saving' = [saving EXCEPT ![t] = [pc |-> "idle", image |-> EmptyImage]]
  /\ \/ store' = [status |-> "complete", image |-> saving[t].image]
     \/ /\ store.status = "complete" \/ \E u \in Saver \ {t} : saving[u].pc = "open"
        /\ store' = [status |-> "torn", image |-> EmptyImage]
  /\ UNCHANGED <<vars, epoch, life>>

\* validateStore: the tests that a table written by the coordinator can fail.
ValidStore(image) ==
  /\ \A p \in PlanId :
       image.plans[p].state \in {"COMMITTED", "AWAITING_EXECUTION", "ACTIVE"}
         => Claims(image.plans[p]) # {}
  /\ \A r \in Request : image.requests[r] <= 1

\* Mutation: a plan whose commit was running is taken over as it was.
RecoveredWaiting(rec) ==
  IF rec.state \in {"PLAN_READY", "COMMITTED", "AWAITING_EXECUTION", "ACTIVE"}
  THEN [rec EXCEPT !.state = "REVALIDATION_REQUIRED"] ELSE rec

\* Mutation: a committed plan continues where it was.
RecoveredCommitted(rec) ==
  IF rec.state \in {"PLAN_READY", "AWAITING_RESOURCE_COMMIT", "AWAITING_EXECUTION", "ACTIVE"}
  THEN [rec EXCEPT !.state = "REVALIDATION_REQUIRED"]
  ELSE IF rec.state = "COMMITTED" THEN [rec EXCEPT !.state = "AWAITING_EXECUTION"] ELSE rec

\* Mutation: every plan on record is to be revalidated.
RecoveredAll(rec) ==
  IF rec.state = "ABSENT" THEN rec ELSE [rec EXCEPT !.state = "REVALIDATION_REQUIRED"]

\* conservativeRecovery.
Recovered(rec) ==
  IF rec.state \in {"PLAN_READY", "AWAITING_RESOURCE_COMMIT", "COMMITTED",
                    "AWAITING_EXECUTION", "ACTIVE"}
  THEN [rec EXCEPT !.state = "REVALIDATION_REQUIRED"] ELSE rec

\* What loadStoreIfAny starts from; a store it cannot use is ignored.
Loaded ==
  IF store.status = "complete" /\ ValidStore(store.image)
  THEN store.image ELSE EmptyImage

\* The process dies and is started again: constructor, then loadStoreIfAny.
\* Plans are restored in the order of their ids, so that the last one of a
\* request becomes its current plan.
Restart ==
  /\ life < MaxLives
  /\ life' = life + 1
  /\ epoch' = Loaded.epoch + 1
  /\ plans' = [p \in PlanId |-> Recovered(Loaded.plans[p])]
  /\ currentByRequest' = [r \in Request |->
       LET own == {p \in PlanId : Loaded.plans[p].req = r}
       IN  IF own = {} THEN None ELSE Max(own)]
  /\ supersessions' = Loaded.supersessions
  /\ requests' = Loaded.requests
  /\ nextPlan' = 1
  /\ cancelled' = {}
  /\ commit' = [t \in Thread |-> None]
  /\ held' = NothingHeld /\ call' = AllIdle /\ wrapped' = {}
  /\ workers' = NoWorkers /\ socketToWorker' = NoSockets
  /\ workerBoots' = NoBoots /\ fenced' = {}
  /\ endpoints' = NoEndpoints /\ links' = NoLinks
  /\ topologyGeneration' = 1 /\ capacityGeneration' = 1 /\ congestionGeneration' = 1
  /\ saving' = [t \in Saver |-> [pc |-> "idle", image |-> EmptyImage]]
  /\ UNCHANGED store

RecoveryNext ==
  \/ Next /\ UNCHANGED <<epoch, life, store, saving>>
  \/ \E t \in Saver : SaveCopy(t) \/ SaveOpen(t) \/ SaveWrite(t)
  \/ Restart

RecoverySpec == RecoveryInit /\ [][RecoveryNext]_recoveryVars

-----------------------------------------------------------------------------
\* A plan becomes ACTIVE only on endpoints that live incarnations published in
\* this life of the coordinator, also when the plan itself was recovered.
HandoffOnLiveEvidenceAcrossRestarts ==
  [][ \A p \in PlanId :
        (plans[p].state # "ACTIVE" /\ plans'[p].state = "ACTIVE") =>
          \A q \in plans[p].paths : \A e \in RouteEnds[q] :
            LET w == endpoints[e].worker IN
            /\ w \in Worker /\ workers[w].alive
            /\ endpoints[e].boot = workers[w].boot ]_recoveryVars

\* A restart takes a saved plan only where the lifecycle table lets it go, and
\* leaves none that could go on without a new revalidation: what was completed,
\* cancelled, failed or superseded when it was saved stays closed.
RestartFollowsLifecycle ==
  [][ \A p \in PlanId :
        LET saved == store.image.plans[p].state
            now == plans'[p].state
        IN  (life' # life /\ now # "ABSENT") =>
              /\ now = saved \/ CanTransition(saved, now)
              /\ now \in Closed \cup {"REVALIDATION_REQUIRED"} ]_recoveryVars

\* "a coordinator restart recovers durable history" (README): a store that was
\* written completely is used at the next start, in a new epoch.
SavedStoreIsUsed ==
  [][ (life' # life /\ store.status = "complete") =>
        epoch' = store.image.epoch + 1 ]_recoveryVars

\* The recovered history stays: a plan on record is not replaced by a plan of
\* another request.
RecordedPlanKept ==
  [][ \A p \in PlanId : (life' = life /\ Exists(p)) =>
        plans'[p].req = plans[p].req ]_recoveryVars

=============================================================================
