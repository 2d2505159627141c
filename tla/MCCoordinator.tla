--------------------------- MODULE MCCoordinator ---------------------------
(***************************************************************************)
(* Small instances of Coordinator.  The topology is the one of             *)
(* apps/worker_main.cpp: a direct link from the source to the destination, *)
(* and a staged way over one relay.                                        *)
(***************************************************************************)
EXTENDS Coordinator, TLC

CONSTANTS src, dst, relay, direct, hop1, hop2,
          directRoute, stagedRoute, soloRoute,
          t1, t2,
          large,     \* the request with the largest payload
          lone       \* a collective whose only participant is its root

\* The connection threads are interchangeable.
Symmetry == Permutations({t1, t2})

RouteTo(f) == [q \in Route |-> f[q]]

MCRouteLinks == RouteTo(directRoute :> {direct} @@ stagedRoute :> {hop1, hop2} @@ soloRoute :> {})
MCRouteEnds == RouteTo(directRoute :> {src, dst} @@ stagedRoute :> {src, relay, dst} @@ soloRoute :> {})
MCRouteSource == [q \in Route |-> src]
MCRelays == [q \in Route |-> IF q = stagedRoute THEN {relay} ELSE {}]
MCCandidates == [r \in Request |-> IF r = lone THEN {soloRoute} ELSE Route \ {soloRoute}]
MCParticipants == [r \in Request |-> IF r = lone THEN {src} ELSE {}]
MCFallbacks == [r \in Request |-> IF r = lone THEN 0 ELSE 1]

MCPayload ==
  CHOOSE f \in [Request -> Sizes] :
    \A r \in Request, n \in Sizes : IF r = large THEN f[r] >= n ELSE f[r] <= n

\* The state after one worker has registered and published the whole topology:
\* the starting point of the runs that are about plans and not about workers.
PublishedInit ==
  /\ BrokerInit /\ PlansInit
  /\ fenced = {}
  /\ \E w \in Worker, b \in Boot, g \in Generation, s \in Socket :
       /\ workers = [v \in Worker |->
            [ boot |-> IF v = w THEN b ELSE None, sock |-> IF v = w THEN s ELSE None,
              endpoints |-> IF v = w THEN Endpoint ELSE {},
              links |-> IF v = w THEN Link ELSE {}, alive |-> v = w ]]
       /\ socketToWorker = [z \in Socket |-> IF z = s THEN w ELSE None]
       /\ workerBoots = [v \in Worker |-> IF v = w THEN b ELSE None]
       /\ endpoints = [e \in Endpoint |->
            [gen |-> g, worker |-> w, boot |-> b, up |-> TRUE]]
       /\ links = [l \in Link |->
            [gen |-> g, boot |-> b, healthy |-> TRUE, hard |-> FALSE]]
  /\ topologyGeneration = 1 + Cardinality(Link)
  /\ capacityGeneration = 1
  /\ congestionGeneration = 1

PublishedSpec == PublishedInit /\ [][Next]_vars

\* The worker stays connected and its evidence is left alone.
SteadySpec ==
  PublishedInit /\ [][ClientStep \/ \E t \in Thread : CommitStep(t)]_vars

PublishedFairSpec == PublishedSpec /\ Fairness
=============================================================================
