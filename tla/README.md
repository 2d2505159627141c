# A TLA+ model of Communication-Planner

This directory specifies Communication-Planner in TLA+: its coordinator, planner,
formats, server threads and workers. TLC checks the specifications on small
instances, and TLAPS proves most of the safety properties for every instance. Paths
below are relative to the repository; `PROJECT.json` maps each definition to its
source lines.

## The system

A *coordinator* process keeps evidence that *workers* publish about endpoints and
links, plans communication requests over that evidence, commits staging resources
through a broker, and hands plans off to the worker that executes them. Every
connection has a thread; `Impl::mtx` guards the tables.

| part | state | operations | what makes it hard |
|---|---|---|---|
| worker authority and snapshot (`coordinator.cpp`, `feasibility.cpp`) | `workers`, `socketToWorker`, `fenced`, `snap` | REGISTER, PUBLISH_*, fencing | workers die and return in any order with the end of their old connections; replays |
| resource broker (`adapters/broker.hpp`) | `held_` | `acquire`, `release` | called without a lock; compare and add are separate loops; `release` erases whole entries |
| plan table (`coordinator.cpp`) | `plans`, `currentByRequest`, `cancelled`, `supersessions`, `requests` | SUBMIT_REQUEST, COMMIT_REQUEST, REVALIDATE, EXECUTION_HANDOFF, EXECUTION_RESULT, CANCEL, SUPERSEDE | the commit unlocks around the broker call; handlers set states from any state |
| revalidation (`revalidation.cpp`) | none | `revalidatePlan`, `revalidatePath` | decides on generations that start again at 1 |
| lifecycle (`lifecycle.cpp`) | none | `canTransition` | the coordinator does not call it |
| persistence (`persistence.cpp`, SAVE) | the store file | save, load, validate, recover | file written after the unlock; death at any point; what is not saved |
| planner, cost, ranking (`planner.cpp`, `feasibility.cpp`, `cost.cpp`, `ranking.cpp`) | the depth-first search | enumerate, filter, rank | marks undone on every return; truncation before sorting; bounds counted in three places |
| multicast, collective | plan under construction | plan over several destinations | one failure among several searches |
| protocol (`protocol.cpp`), store format (`persistence.cpp`) | bytes | encode, decode | writer and reader list their fields separately |
| TCP (`transport/tcp.hpp`) | the stream | send, receive | a frame is two writes; two threads share a socket |
| server threads, shutdown | threads, handles | accept, serve, stop | handles are closed outside the lock and given out again; joins |
| CUDA worker (`cuda_worker_main.cu`) | its place in the program | register, publish, execute | an EXECUTE is sent after the unlock on a socket read before it |

Clients interact with all of it through messages only; the model lets any client send
any message at any time.

## Modules

| module | models | notes |
|---|---|---|
| `WorkerAuthority` | the abstract promise: one live boot per worker, evidence only from a live boot, no return for a revoked boot | no sockets, no evidence contents |
| `Evidence` | REGISTER, the four PUBLISH handlers, `fenceWorker` on a broken connection | implements `WorkerAuthority` |
| `Broker` | `MemoryResourceBroker` | an acquire is call, compare, add, return |
| `PlanLifecycle` | `PlanState`, `canTransition` | |
| `Coordinator` | the plan table, over `Evidence` and `Broker` | composes the two |
| `Recovery` | SAVE, `saveStore`, `loadStoreIfAny`, `validateStore`, `conservativeRecovery` | `Coordinator` that dies and restarts |
| `Delivery` | worker processes, connections and the delivery of EXECUTE and of results | composes `Coordinator` with the workers; a behaviour of it is one of `Coordinator` |
| `Server` | `acceptLoop`, `handleConnection`, SHUTDOWN, `stop`, `main` of the coordinator | messages are REGISTER, SHUTDOWN or other |
| `Topology`, `PathSearch` | the graph; `enumerateCandidatePaths`, one loop turn or return per step | |
| `Ranking` | `evaluateCandidateCost`, `rankFeasible` | operators |
| `Planner` | `planCommunication`, `buildMulticastPlan`, `buildCollectivePlan`, `validate`, `evaluateCandidateFeasibility` | uses `PathSearch` for every search |
| `Codec` | the classes `W`, `R`, `Writer`, `Reader` and the checksum | a format is a sequence of field descriptions |
| `Protocol` | `encodeMessage`, `decodeMessage`, `encodeFrame`, `decodeFrame` | one layout for the writer and one for the reader |
| `StoreFile` | `serializeStore`, `parseStore`, the writes of a save | likewise |
| `Wire` | `sendFrame`, `recvFrame` on one connection | |
| `MCEvidence`, `MCCoordinator`, `MCRecovery`, `MCDelivery`, `MCPlanner`, `MCFormats` | instances for TLC | `Server` needs none |
| `EvidenceBrokerProofs`, `CoordinatorProofs`, `PlanTableProofs`, `DeliveryProofs`, `RecoveryProofs`, `ServerProofs`, `PathSearchProofs`, `PlannerProofs` | theorems | each extends the module it is about |

Variables keep the names of the members they model. A handler that runs under
`Impl::mtx` is one action, and an answer that changes nothing is not an action.
`handleCommit` is `CommitBegin` (first locked half), the steps of
`Broker!acquire`, and one of `CommitWithdrawn`, `CommitRefused`, `CommitDone`
(second locked half).

Abstractions:

- In `Coordinator` a *route* is one way to serve a request, reduced to its links,
  endpoints, source and relays: one path, or for a multicast or a collective one path
  to every destination or member taken together. The route without links serves a
  collective whose only participant is its root, and is then the only candidate.
  `Participants` are the endpoints that a collective needs up, and `MaxFallbacks` is
  0 for requests that are not served by a single path. A link identifier determines
  its two ends. Planning is its outcome: any usable candidate may rank first.
  `Planner` has the rest.
- An endpoint is its generation, its publisher and `up` (reachable and ready); a
  link is its generation, health and hard congestion limit. Capacities and loads
  only enter costs and are left out.
- Endpoint evidence is compared with `snap.workerBoots` only: `snap.sourceBoots`
  is written and erased with it and no publisher sets `Endpoint::sourceBoot`.
- PUBLISH_CAPACITY and PUBLISH_CONGESTION carry no worker on the wire, so the
  handlers' authority tests do not apply and any connection may send them.
- The missing lock of the broker is a data race. The outcome modelled is the loss
  of overlapping additions; corruption of the map itself is not. `setCapacity` and
  `setFailNext` are never called by the coordinator. Sizes are whatever 64-bit value
  a client sends. `wrapped` is a history variable, in no member of the code: the
  resources for which a comparison has succeeded on a sum that wrapped.
- In `Recovery` a store file is missing, torn or complete. `StoreFile` justifies it:
  a file that is torn or mixed is refused, and a complete one reads back.
- In the formats a number, a flag, an enumerator or a character is one token, and the
  checksum keeps the shape of FNV-1a on 16 bits with a sum for the exclusive or.
- Costs are whole numbers: payloads count thousands of bytes, costs thousandths of a
  nanosecond, weights halves. Rounding, NaN and infinity are left out. NUMA, PCIe and
  NIC distance are one number per link; factors that are always 0 are left out.
- In `Planner` the tests of one link (health, congestion, transport, bandwidth,
  generations) are membership in `snap.dead` or `request.forbidden`, those of one
  endpoint membership in `snap.down`.
- In `Server` and `Delivery` the operating system may give any closed handle out
  again, and closing a handle ends a `recv` that waits on it, as Winsock does.
  `Delivery` has no commits, revalidations or supersessions, and its clients cancel
  only plans that they made; `Coordinator` has all of these.

Behaviours that the models have and that a reader may not expect:

- The late end of an old connection fences the worker's *new* registration
  (`Disconnect` uses the worker's current record).
- A second REGISTER empties the list of links, so links published before it survive
  fencing.
- `closeSock` takes the handle by reference and sets it to `INVALID_SOCKET`, so the
  `activeSockets.erase` after it removes nothing. The set never shrinks, and `stop`
  depends on that: with an erase that worked, a handle closed and given out again
  would drop out of the set while its new thread waits on it (`WaitingIsRecorded`).
- A collective whose only participant is its root is planned successfully with no
  stages. Its plan binds no endpoint or link and has no executor: revalidation
  compares only the snapshot's generations, EXECUTION_HANDOFF makes it ACTIVE, and
  nobody is sent an EXECUTE, so that only a client ends it.
- A request for nearly 2^64 bytes passes the comparison of a relay that holds
  something, because `held_ + size` wraps; the same request is refused while the relay
  holds nothing.
- A worker that publishes takes the next frame for its answer. An EXECUTE that
  arrives then is lost.
- A worker that cannot allocate, or gets less than four bytes, sends no result; the
  plan stays ACTIVE until a client cancels it. `worker_main.cpp` reads no EXECUTE at
  all.
- `encodeMessage` drops the worker of PUBLISH_CAPACITY and PUBLISH_CONGESTION, the
  bytes of EXECUTION_RESULT, the error of COMMIT_RESULT, most of a plan, the health
  generation and the NIC of an endpoint, and the sign of a NUMA distance.
- `decodeFrame` and `decodeMessage` ignore what follows the fields they read.

## Runs

Bounds are the constants of each `.cfg`; `MaxTopology` and `MaxDynamic` bound the
publications, `MaxPlans` the plans of one life and `MaxLives` the restarts (nothing is saved in
the last life, since no start reads it).

| run | instance | shows |
|---|---|---|
| `evidence` | 2 workers, 2 boots, 2 sockets | the authority tables agree; evidence of a fenced boot stays unusable and none is recorded; link changes advance the topology generation; `WorkerAuthority` is implemented. Two sockets let a worker reconnect before its old connection ends; two boots let a dead one be replayed |
| `commit` | 2 threads, 2 requests, 2 plans, direct and staged route, a relay that holds the smaller request, words of 4 bits | staged claims never reach execution; nobody strands a plan in AWAITING_RESOURCE_COMMIT; the claims copied before the unlock stay the plan's; `currentByRequest` names the newest plan; a cancelled request is never committed; the broker's unlocked compare and add overcommits by at most one more capacity for every other thread, until a sum wraps. With capacity 2 and a request of 2, two threads that both compare before either adds do overcommit; with one of 15, the sum of the two wraps |
| `progress` | 2 threads, 1 plan, 2 requests, one larger than a relay holds | every commit is answered; no plan waits for resources for ever |
| `recovery` | 2 lives, 1 saver, 1 thread | the safety properties across a death at any point, also in the middle of a save; a restart takes plans only where `canTransition` allows |
| `delivery` | 1 worker, 2 boots, 2 socket handles, 1 client, 2 process starts, 1 handoff, a request over a link and a collective of its root alone | a plan is executed only by the boot it was made for, also when its EXECUTE is sent on a handle that another process has by then; an EXECUTE that reaches the loop of its worker is answered, refused or lost with the process; plans are handed off on live evidence, and made with a live executor if they have stages and with none otherwise; every behaviour is one of `Coordinator` |
| `server` | 2 connections, 2 handles | `stop` closes every handle a thread waits on, ends, and leaves no thread or handle; no connection inherits a registration. The second connection may get the handle of the first |
| `planner` | 4 endpoints, 7 links with a cycle and parallel links, requests of every shape, two orders of the links, bounds that cut each loop | the search finds exactly the first candidates in its order; the plan is the one a reference definition picks from all loop-free paths; only a collective of its root alone is planned without stages; the call ends |
| `formats` | all 21 message types, enumerators past their range, texts at and past the limits, two writers; 4 store images, 2 savers, 2 saves | what the receiver hands on was sent, unaltered and in order, whatever the interleaving of the two writes of a frame, wherever the stream is cut or damaged; a saved store reads back; a torn or mixed file is refused; without clash, cut or damage all messages within the receiver's limits arrive |

`commit` and `progress` start from the state after one worker has published the
whole topology, and `delivery` from the start of its first process; the handlers
reach both. In `commit` the worker then stays as it is (`SteadySpec`): the evidence
steps are in `delivery` and `recovery`, and in every proof. The plan without stages is
in the instance of `delivery` only; in the others it multiplies the states. The
streams of `formats` are cut between two sends and not within one. `evidence` and the threads of `commit` use symmetry, which no action or
property breaks; the runs with liveness properties use none. Deadlock is not
checked: the bounds stop the systems, and `server`, `planner` and `formats` end.

Four runs state what a document says and find an execution of the code that differs:

| run | the document | the execution |
|---|---|---|
| `committed_claims` | "Resource commitment is all-or-nothing" | superseding a plan that acquired nothing erases the holdings of a committed one |
| `old_plans` | "old plans cannot commit staging, execute, publish success" | a resubmitted request's older plan is handed off |
| `store_used` | "a coordinator restart recovers durable history" | a store the coordinator wrote fails its own validation |
| `plan_kept` | the same | plan ids start again at 1 and replace a recovered plan |

Other differences between documents and code that the models reproduce and no run
states as a property:

- No handler consults `canTransition`: REVALIDATE takes PLAN_READY to
  AWAITING_EXECUTION, though `lifecycle.hpp` rejects illegal transitions.
  `RestartFollowsLifecycle` shows that restarts do follow the table.
- A worker that returns with a new boot and publishes the same generations makes the
  plan of its dead boot pass revalidation, and it is handed off.
  `ExecutedByItsExecutor` bounds the consequence: no other boot
  executes it.
- Capacity evidence of UNKNOWN provenance without headroom adds no contention cost,
  so it ranks before declared evidence of no headroom (`Ranking`).
- The store never fails with GENERATION_REGRESSION or IMPOSSIBLE_LIFECYCLE: nothing
  in `persistence.cpp` raises them.

## Fairness

All fairness is weak, and of program steps only: clients, peers, deaths and starts of
processes owe nothing.

- `progress`: the steps of a thread inside `handleCommit`. Nothing there waits for
  another thread except for `Impl::mtx`, which every handler releases. A client that
  does not read its answer can block a `send` made while the lock is held; the
  assumption excludes that.
- `delivery`: a worker process that has something to do, the connection thread with a
  frame to handle, and the thread that has unlocked and is about to send an EXECUTE.
- `server`: the accept thread, each connection thread, the loop of `main` that polls
  `isStopping`, and the steps of `stop`. A `recv` on an open handle with a silent peer
  is not enabled, so `StopEnds` rests on `stop` closing the handle.
- `planner`: the call is a sequential function that keeps running.
- `formats`: a thread inside `sendFrame` or `recvFrame` goes on when it can.

## Proofs

`EvidenceBrokerProofs` assumes `EvidenceAssumption`: `None` is not an identifier, and the
published flags are Booleans. The inductive invariant `EvidenceInv` is the type
invariant, `AuthorityTablesAgree`, `EvidenceStamped` (evidence on record names its
publisher) and `DeadIsFenced` (a record no longer alive was fenced with the boot it
holds). `AuthorityTablesAgree` needs the types to follow a socket to a record with a
boot; the stamp is what makes `endpointFresh` imply a live publisher; and
`DeadIsFenced` makes a second disconnection of a dead worker a stutter of
`WorkerAuthority`. From it follow `EvidenceTypeCorrect`, `TablesAgree`,
`FencedStaysStale`, `FencedPublishesNothing` (of endpoints published as up), `TopologyAdvances` and the refinement
`EvidenceImplementsAuthority`.

It also proves `BrokerTypeCorrect` of the broker, and `OvershootIsBounded` for finitely
many threads and sizes of any value. The bound is not inductive, since a state within
it may hold many threads that have already compared. `Room` says of a resource outside
`wrapped` that every thread about to add to it asks for no more than the capacity (its
comparison succeeded on a true sum), and that there is one among them whose request
still fits under the bound after a capacity for each of the others. Additions may wrap
or be lost: both only lower what is held. Once a resource is in `wrapped` nothing is
claimed of it, because the code then grants what does not fit.

`CoordinatorProofs` composes the two. Its inductive invariant `CoordinatorInv` is
`EvidenceInv`, the types, the three commit and staging invariants, and three facts
they rest on. `PlansWellFormed`: a plan on record names a request and a route.
`CommitsBelowNext`: a plan that can be or is being committed has an id below
`nextPlan`, so a new plan never replaces one that a thread is committing; this is all
that is asked of ids, and it holds after a restart too. `CurrentOnRecord`: SUPERSEDE,
which sets the state of the current plan unasked, never sets that of a plan that is
not there. Theorems: `TypeCorrect`, `StagingStaysOut`, `NoPlanStranded`,
`CopiedClaimsStay`, and `HandoffIsLive`. The last needs to know how a plan can get
into a state: the lemma `StateChange` says that EXECUTION_HANDOFF is the only way into
ACTIVE, and the second half of `handleCommit` the only way into COMMITTED.
`StagingStaysOut` rests on `ResourceCapacities = {}`, as no handler fills
`snap.resourceCapacities`: staged plans can be committed and never executed.

`PlanTableProofs` distinguishes the step that records a plan (`PlanRecorded`) from all
others, which change states only (`BindingsKept`). `BindingsNeverChange`: within one
life nothing else of a plan on record changes, because all ids in use are below
`nextPlan` (`IdsInvariant`, which a restart breaks: `plan_kept`).
`TopologyStaysAhead` rests on the topology generation never decreasing;
`CurrentStaysNewest` on `IdsInvariant`. `ExecutorIsLive` has two cases at the step that
creates a plan: a route with links is usable only if its source is fresh, and then
`AuthorityTablesAgree` gives a live publisher; the route without links has no fallback
beside it, so its plan binds no link and has no executor. `CancelWins` follows from the
test under the second lock of `handleCommit`. `OvershootStaysBounded` carries the
broker's bound through every coordinator step that calls `acquire` or `release`.

`DeliveryProofs` shows that `Delivery` implements `Coordinator`
(`DeliveryImplementsCoordinator`): every frame a connection thread handles is a
message `Coordinator` allows, or changes nothing, so `DeliveryKeepsLiveEvidence`
follows from the theorems above. It needs `ConnectionInv`, the types of what is under
way. `OnlyItsExecutorExecutes` adds `ExecuteInv`: an EXECUTE names a plan on record and
the boot that plan is bound to, while it waits to be sent, while it is under way on
whatever handle, and once it is executed. By `BindingsNeverChange` the plan it names
stays the same. `DeliveryAssumption` says that the worker's program consists of
publications that `Coordinator` allows.

`RecoveryProofs` takes `CoordinatorInv` across restarts. `RecoveryInv` adds that the
store file, and every image that a SAVE has copied and not yet written, is a
`TableImage`: a table of plans with a request, a route, a state that some handler
assigns, and no claims if the state is executable. Nothing is asked of when the image
was taken, so late and overlapping saves need no case of their own. A start that uses
a `TableImage`, or none, satisfies `CoordinatorInv` again: `conservativeRecovery`
leaves nothing in a state that a commit could be waiting in. Theorems:
`StagingStaysOutAcrossRestarts`, `NoPlanStrandedAcrossRestarts`,
`HandoffIsLiveAcrossRestarts`, `RestartIsConservative`.

`PathSearchProofs` is about every graph, every order of its links and all bounds. It
assumes `SearchAssumption` and what `Topology` says of links.

- `SearchIsSound`: each candidate is a loop-free path from source to destination with
  at most `maxPathDepth` links and `maxRelayCount` relays, and there are at most
  `maxCandidates`. `SearchInv` adds `Leaves` (what a loop has left to look at leaves
  the endpoint of its call) and `Stack`: the path so far is a walk, the marked
  endpoints are exactly those on it, and calls and links correspond. Soundness alone
  is not inductive: a stale mark or a stack out of step with the path would break the
  next candidate.
- `SearchLosesNothing`: at the end every wanted path is found or cut off. The
  invariant is `NothingLost`: during the search a wanted path is found, or *pending*
  (some active call has gone its way so far and has its next link still to look at),
  or cut off. A link that leads to a marked endpoint, or past the depth bound, takes
  no wanted path with it. When a call returns, the paths it had pending are none.
- `SearchIsDepthFirst`: with the links of an endpoint sorted as the code sorts them,
  what is pending is later than what is found, in the order `Earlier`. So the
  candidates come in that order, none twice, and a cut leaves out later paths only.

`PlannerProofs` connects this to the planner. `AdjacencyLists`: the lists that the
planner builds hold exactly the links of the snapshot, in order (an entry's place is
the number of entries ahead of it, and the places of distinct links are distinct and
without gaps). `CallRefinesSearch`: whatever the three planners do between searches,
each search is one of `PathSearch`, which also gives `PlannerSearchIsSound`.
`SearchIsExact`: when a search ends, the set of its candidates is the set that the
definition `Candidates` picks from all loop-free paths, with no candidate twice. Of the
paths within the bounds, those with fewer than `maxCandidates` earlier ones are
picked; a path that was found has only found paths before it, which are fewer than
`maxCandidates`, and one that was cut off has `maxCandidates` found ones before it.
The counting needs the set of loop-free paths to be finite (`LoopFreeIsShort`: such a
path enters no endpoint twice), hence `PlannerAssumption`: endpoints and links are
finitely many, as their ids are 64-bit words, and no link is twice in a snapshot, as
`upsertLink` replaces a link with the same id.

`ServerProofs` proves `ServerTypeCorrect`, `WaitingStaysRecorded`, `NothingInherited`
and `StopLeavesNothing` for any numbers of connections and handles, assuming that
`None` is neither. `ServerInv` says who uses a handle. `ThreadsHold` and
`AcceptorHolds`: a handle in use is on record, and denotes its user's connection
while the listener is open. `HandlesDiffer` and `HandlesUsed`: a handle has one user
at most, and one at least while it is open; so a handle given out again is nobody's.
`RegistrationsUsed`: before a shutdown only the thread that registered a handle uses
it, so a new owner finds it unregistered. `StopProgress` orders the steps of `stop`:
nothing is accepted once the listener is closed, which is why the handles in the set
at that time are all there will be.

Only model-checked:

- liveness (`CommitAnswered`, `AwaitingCommitEnds`, `ExecuteAnswered`, `StopEnds`,
  `PlannerTerminates`, `ClashCloses`, `EverythingArrives`), which is out of the
  prover's reach, as is ENABLED;
- `PlanMatchesReference` and `StagelessOnlyAlone`: they are about what filtering, costing
  and sorting the candidates leaves. These are `SelectSeq`, sums over paths and
  `SortSeq`, about which the prover can derive nothing without induction over data;
- the formats (`ReceivedAsSent`, `SavedReadsBack`, `NoMixtureIsRead`): `Codec` reads
  and writes nested fields with recursive operators.

## Not modelled, and why

- Which plan holds which bytes of a resource. `held_` counts per resource, `release`
  erases a whole entry and CANCEL releases in four states only, so the state of the
  code does not say; `Broker` keeps exactly that state.
- That cancelled requests are forgotten by a restart: modelled, and promised
  otherwise by no document.
- Floating point: rounding, NaN and infinity in costs.
- Exceptions, except where the planner throws (`Throw`) and as a death of the process
  in `Recovery`.
- A reply sent under `Impl::mtx` to a peer that does not read: see Fairness.
- The proof programs, examples, tools and `worker_main.cpp`: straight-line drivers of
  the operations above. The transfer inside the CUDA worker is its outcome.
