------------------------------ MODULE Evidence ------------------------------
(***************************************************************************)
(* The coordinator's evidence snapshot and the worker authority that       *)
(* guards it: REGISTER, the four PUBLISH handlers and the fencing done     *)
(* when a worker's connection breaks (src/coordinator.cpp).  Every handler *)
(* runs under Impl::mtx and is one action; a handler that only answers     *)
(* with an error changes nothing and is not an action.                     *)
(*                                                                         *)
(* A socket handle is reused by the operating system, so it has no state   *)
(* of its own here: socketToWorker says whether a worker registered on it. *)
(* snap.sourceBoots is written and erased together with workerBoots and no *)
(* publisher of the repository sets Endpoint::sourceBoot, so the second    *)
(* half of endpointFresh repeats the first.                                *)
(***************************************************************************)
EXTENDS Naturals, FiniteSets

CONSTANTS
  Worker, Boot, Socket, Endpoint, Link,   \* identifiers
  Generation,       \* generations a publisher puts on its endpoints and links
  EndpointUp,       \* published values of reachable /\ ready (subset of BOOLEAN)
  LinkHealthy,      \* published values of health.healthy (subset of BOOLEAN)
  LinkHard,         \* published values of congestion.hardLimitExceeded
  None,             \* a null id, or a field of something not there
  MaxTopology,      \* bound: no PUBLISH_LINK at or above this topology generation
  MaxDynamic        \* bound: no PUBLISH_CAPACITY/CONGESTION at or above this one

ASSUME EvidenceAssumption ==
  /\ None \notin Worker /\ None \notin Boot
  /\ None \notin Socket /\ None \notin Generation
  /\ EndpointUp \subseteq BOOLEAN /\ LinkHealthy \subseteq BOOLEAN
  /\ LinkHard \subseteq BOOLEAN
  /\ MaxTopology \in Nat /\ MaxDynamic \in Nat

VARIABLES
  workers,              \* Impl::workers
  socketToWorker,       \* Impl::socketToWorker
  workerBoots,          \* snap.workerBoots
  fenced,               \* Impl::fenced
  endpoints,            \* snap.endpoints, by id (gen = None: not there)
  links,                \* snap.links, by id (gen = None: not there)
  topologyGeneration, capacityGeneration, congestionGeneration

evidenceVars == <<workers, socketToWorker, workerBoots, fenced, endpoints,
                  links, topologyGeneration, capacityGeneration,
                  congestionGeneration>>

\* struct WorkerInfo; an unknown worker is one that is not alive and has no boot.
WorkerInfo ==
  [ boot : Boot \cup {None}, sock : Socket \cup {None},
    endpoints : SUBSET Endpoint, links : SUBSET Link, alive : BOOLEAN ]

EndpointEvidence ==
  [ gen : Generation \cup {None}, worker : Worker \cup {None},
    boot : Boot \cup {None}, up : BOOLEAN ]

LinkEvidence ==
  [ gen : Generation \cup {None}, boot : Boot \cup {None},
    healthy : BOOLEAN, hard : BOOLEAN ]

NoEndpoint == [gen |-> None, worker |-> None, boot |-> None, up |-> FALSE]
NoLink == [gen |-> None, boot |-> None, healthy |-> FALSE, hard |-> FALSE]

NoWorker == [boot |-> None, sock |-> None, endpoints |-> {}, links |-> {}, alive |-> FALSE]

\* The constructor's empty tables.
NoWorkers == [w \in Worker |-> NoWorker]
NoSockets == [s \in Socket |-> None]
NoBoots == [w \in Worker |-> None]
NoEndpoints == [e \in Endpoint |-> NoEndpoint]
NoLinks == [l \in Link |-> NoLink]

EvidenceInit ==
  /\ workers = NoWorkers /\ socketToWorker = NoSockets
  /\ workerBoots = NoBoots /\ fenced = {}
  /\ endpoints = NoEndpoints /\ links = NoLinks
  /\ topologyGeneration = 1 /\ capacityGeneration = 1 /\ congestionGeneration = 1

-----------------------------------------------------------------------------
\* Mutation: the boot of the message is not compared.
AuthorizedAnyBoot(w, b) == workers[w].alive

\* The authority test of the PUBLISH handlers.
Authorized(w, b) == workers[w].alive /\ workers[w].boot = b

\* Mutation: any registered incarnation of the publisher will do.
EndpointFreshAnyBoot(e) == workerBoots[endpoints[e].worker] # None

\* endpointFresh: the incarnation that published e is the registered one.
EndpointFresh(e) == endpoints[e].boot = workerBoots[endpoints[e].worker]

\* Mutation: the incarnation is not looked at.
EndpointUsableStale(e) == endpoints[e].gen # None /\ endpoints[e].up

EndpointUsable(e) ==
  endpoints[e].gen # None /\ EndpointFresh(e) /\ endpoints[e].up

LinkUsable(l) == links[l].gen # None /\ links[l].healthy /\ ~links[l].hard

-----------------------------------------------------------------------------
\* Mutation: a fenced boot may register again.
RegisterFenced(s, w, b) ==
  /\ workers' = [workers EXCEPT ![w] =
       [boot |-> b, sock |-> s, endpoints |-> {}, links |-> {}, alive |-> TRUE]]
  /\ socketToWorker' = [socketToWorker EXCEPT ![s] = w]
  /\ workerBoots' = [workerBoots EXCEPT ![w] = b]
  /\ UNCHANGED <<fenced, endpoints, links, topologyGeneration,
                 capacityGeneration, congestionGeneration>>

\* REGISTER from worker w with boot b on socket s.
Register(s, w, b) ==
  /\ <<w, b>> \notin fenced
  /\ workers' = [workers EXCEPT ![w] =
       [boot |-> b, sock |-> s, endpoints |-> {}, links |-> {}, alive |-> TRUE]]
  /\ socketToWorker' = [socketToWorker EXCEPT ![s] = w]
  /\ workerBoots' = [workerBoots EXCEPT ![w] = b]
  /\ UNCHANGED <<fenced, endpoints, links, topologyGeneration,
                 capacityGeneration, congestionGeneration>>

\* PUBLISH_ENDPOINT: the publisher's authority is stamped on the evidence.
PublishEndpoint(w, b, e, g, up) ==
  /\ Authorized(w, b)
  /\ endpoints' = [endpoints EXCEPT ![e] =
       [gen |-> g, worker |-> w, boot |-> b, up |-> up]]
  /\ workers' = [workers EXCEPT ![w].endpoints = @ \cup {e}]
  /\ UNCHANGED <<socketToWorker, workerBoots, fenced, links,
                 topologyGeneration, capacityGeneration, congestionGeneration>>

\* PUBLISH_LINK.
PublishLink(w, b, l, g, healthy, hard) ==
  /\ topologyGeneration < MaxTopology
  /\ Authorized(w, b)
  /\ links' = [links EXCEPT ![l] =
       [gen |-> g, boot |-> b, healthy |-> healthy, hard |-> hard]]
  /\ workers' = [workers EXCEPT ![w].links = @ \cup {l}]
  /\ topologyGeneration' = topologyGeneration + 1
  /\ UNCHANGED <<socketToWorker, workerBoots, fenced, endpoints,
                 capacityGeneration, congestionGeneration>>

\* PUBLISH_CAPACITY: encodeMessage drops the worker and boot of this message, so
\* the handler's authority test never applies.  The capacity itself only prices
\* the link.
PublishCapacity ==
  /\ capacityGeneration < MaxDynamic
  /\ capacityGeneration' = capacityGeneration + 1
  /\ UNCHANGED <<workers, socketToWorker, workerBoots, fenced, endpoints,
                 links, topologyGeneration, congestionGeneration>>

\* PUBLISH_CONGESTION: as above; the generation advances even when l is not there.
PublishCongestion(l, hard) ==
  /\ congestionGeneration < MaxDynamic
  /\ congestionGeneration' = congestionGeneration + 1
  /\ links' = IF links[l].gen = None THEN links
              ELSE [links EXCEPT ![l].hard = hard]
  /\ UNCHANGED <<workers, socketToWorker, workerBoots, fenced, endpoints,
                 topologyGeneration, capacityGeneration>>

\* What fenceWorker does to the record of w and to the evidence it lists.
FenceRecord(w) ==
  /\ workers' = [workers EXCEPT ![w].alive = FALSE]
  /\ endpoints' = [e \in Endpoint |->
       IF endpoints[e].gen # None /\ e \in workers[w].endpoints
       THEN [endpoints[e] EXCEPT !.up = FALSE] ELSE endpoints[e]]
  /\ links' = [l \in Link |->
       IF l \in workers[w].links THEN NoLink ELSE links[l]]

\* Mutation: snap.workerBoots keeps the dead boot.
FenceWorkerKeepsBoot(w) ==
  /\ fenced' = fenced \cup {<<w, workers[w].boot>>}
  /\ FenceRecord(w)
  /\ topologyGeneration' = topologyGeneration + 1
  /\ UNCHANGED workerBoots

\* Mutation: the topology generation does not advance.
FenceWorkerSilently(w) ==
  /\ workerBoots' = [workerBoots EXCEPT ![w] = None]
  /\ fenced' = fenced \cup {<<w, workers[w].boot>>}
  /\ FenceRecord(w)
  /\ UNCHANGED topologyGeneration

\* fenceWorker: the boot of w's current record becomes permanently stale.
FenceWorker(w) ==
  /\ workerBoots' = [workerBoots EXCEPT ![w] = None]
  /\ fenced' = fenced \cup {<<w, workers[w].boot>>}
  /\ FenceRecord(w)
  /\ topologyGeneration' = topologyGeneration + 1

\* recvFrame fails on a socket a worker registered on.
Disconnect(s) ==
  /\ socketToWorker[s] # None
  /\ FenceWorker(socketToWorker[s])
  /\ socketToWorker' = [socketToWorker EXCEPT ![s] = None]
  /\ UNCHANGED <<capacityGeneration, congestionGeneration>>

EvidenceNext ==
  \/ \E s \in Socket, w \in Worker, b \in Boot : Register(s, w, b)
  \/ \E w \in Worker, b \in Boot, e \in Endpoint, g \in Generation, up \in EndpointUp :
        PublishEndpoint(w, b, e, g, up)
  \/ \E w \in Worker, b \in Boot, l \in Link, g \in Generation,
        healthy \in LinkHealthy, hard \in LinkHard :
        PublishLink(w, b, l, g, healthy, hard)
  \/ PublishCapacity
  \/ \E l \in Link, hard \in LinkHard : PublishCongestion(l, hard)
  \/ \E s \in Socket : Disconnect(s)

EvidenceSpec == EvidenceInit /\ [][EvidenceNext]_evidenceVars

-----------------------------------------------------------------------------
\* Type correctness of the snapshot and of the worker tables.
EvidenceTypeOK ==
  /\ workers \in [Worker -> WorkerInfo]
  /\ socketToWorker \in [Socket -> Worker \cup {None}]
  /\ workerBoots \in [Worker -> Boot \cup {None}]
  /\ fenced \subseteq Worker \X Boot
  /\ endpoints \in [Endpoint -> EndpointEvidence]
  /\ links \in [Link -> LinkEvidence]
  /\ topologyGeneration \in Nat
  /\ capacityGeneration \in Nat
  /\ congestionGeneration \in Nat

\* The three tables that say who is alive agree: snap.workerBoots holds exactly
\* the boots of the live records of Impl::workers, a registered socket leads to
\* a worker that has a record, and Impl::fenced holds no live incarnation.
AuthorityTablesAgree ==
  \A w \in Worker :
    /\ workers[w].alive <=> workerBoots[w] # None
    /\ workers[w].alive => /\ workers[w].boot = workerBoots[w]
                           /\ <<w, workers[w].boot>> \notin fenced
    /\ (\E s \in Socket : socketToWorker[s] = w) => workers[w].boot # None

\* Evidence on record always carries the incarnation that published it.
EvidenceStamped ==
  \A e \in Endpoint : endpoints[e].gen # None =>
    endpoints[e].worker \in Worker /\ endpoints[e].boot \in Boot

\* Evidence of a fenced incarnation is never usable again, whatever later
\* registrations, publications and disconnections do (endpointFresh against
\* fenceWorker and REGISTER).
FencedEvidenceStale ==
  \A e \in Endpoint :
    EndpointUsable(e) => <<endpoints[e].worker, endpoints[e].boot>> \notin fenced

\* No step records an endpoint as up under a fenced incarnation: its replayed
\* publications are rejected.
FencedNeverPublishes ==
  [][ \A e \in Endpoint : (endpoints'[e] # endpoints[e] /\ endpoints'[e].up) =>
        <<endpoints'[e].worker, endpoints'[e].boot>> \notin fenced ]_evidenceVars

\* Whenever a link appears, disappears or is republished with another
\* generation, the topology generation advances, so that two snapshots with the
\* same topology generation have the same links at the same generations.
TopologyCoversLinks ==
  [][ (\E l \in Link : links'[l].gen # links[l].gen)
        => topologyGeneration' > topologyGeneration ]_evidenceVars

\* The snapshot implements the abstract promise about incarnations.
Authority == INSTANCE WorkerAuthority WITH
  live <- workerBoots, revoked <- fenced,
  origin <- [e \in Endpoint |-> <<endpoints[e].worker, endpoints[e].boot>>]

\* EvidenceSpec implements WorkerAuthority.
ImplementsAuthority == Authority!AuthoritySpec

=============================================================================
