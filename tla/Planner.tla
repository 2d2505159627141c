------------------------------- MODULE Planner -------------------------------
(***************************************************************************)
(* planCommunication (src/planner.cpp) with its multicast and collective   *)
(* forms (src/multicast.cpp, src/collective.cpp): one call, from the       *)
(* request and the snapshot to the outcome.  The search is PathSearch, the *)
(* costs and the order of candidates are Ranking.  A snapshot is its links *)
(* in the order they were inserted, the links that fail a filter of their  *)
(* own (dead) and the endpoints that are absent, stale or not ready (down).*)
(***************************************************************************)
EXTENDS PathSearch, Ranking

CONSTANTS
  Request,        \* the requests a caller may pass
  Snapshot        \* the snapshots a caller may pass

Shape == {"POINT_TO_POINT", "STAGED", "MULTICAST", "COLLECTIVE", "UNKNOWN"}

\* Identifiers are words, so finitely many; upsertLink keeps a link only once.
ASSUME PlannerAssumption ==
  /\ IsFiniteSet(Endpoint) /\ IsFiniteSet(Link)
  /\ Request \subseteq
       [ shape : Shape, allowMulticast : BOOLEAN, wellFormed : BOOLEAN,
         policyCurrent : BOOLEAN, source : Endpoint, destinations : Seq(Endpoint),
         participants : Seq(Endpoint), collectiveCount : Nat,
         maxHops : Nat \ {0}, maxStages : Nat \ {0}, forbidden : SUBSET Link,
         allowStaging : BOOLEAN, allowHostStaging : BOOLEAN,
         allowStorageStaging : BOOLEAN, allowRelay : BOOLEAN ]
  /\ Snapshot \subseteq
       [links : Seq(Link), dead : SUBSET Link, down : SUBSET Endpoint]
  /\ \A s \in Snapshot : \A i, j \in 1 .. Len(s.links) : s.links[i] = s.links[j] => i = j

VARIABLES
  request, snap,  \* the arguments
  pc,             \* where planCommunication stands
  todo,           \* the destinations or members that have no path yet
  plan,           \* the plan built so far
  ids             \* how many plan ids were spent

plannerVars == <<request, snap, pc, todo, plan, ids>>
vars == <<inputVars, searchVars, plannerVars>>

NoPlan == [id |-> 0, shape |-> "POINT_TO_POINT", paths |-> <<>>, feasible |-> FALSE]

-----------------------------------------------------------------------------
(* The request. *)

EffectiveShape ==
  IF request.shape = "MULTICAST" \/ request.allowMulticast THEN "MULTICAST"
  ELSE request.shape

\* validate; wellFormed stands for the tests of single fields.
Valid ==
  /\ request.wellFormed
  /\ request.shape = "COLLECTIVE" =>
       request.collectiveCount > 0 /\ request.participants # <<>>
  /\ EffectiveShape = "MULTICAST" => Len(request.destinations) >= 2
  /\ EffectiveShape \in {"POINT_TO_POINT", "STAGED"} => Len(request.destinations) = 1

\* The endpoint every search of the call starts from.
Root == IF EffectiveShape = "COLLECTIVE" THEN Head(request.participants) ELSE request.source

-----------------------------------------------------------------------------
(* Candidates. *)

\* The endpoints a path touches.
EndpointsOf(p) == {From[p[i]] : i \in DOMAIN p} \cup {To[p[i]] : i \in DOMAIN p}

StagingAllowed(p) ==
  Len(p) > 1 =>
    /\ request.allowStaging \/ request.allowHostStaging
    /\ request.allowRelay
    /\ StagedIn(p, "storage") => request.allowStorageStaging
    /\ StagedIn(p, "memory") => request.allowHostStaging

\* evaluateCandidateFeasibility.
FeasiblePath(p) ==
  /\ p # <<>>
  /\ Len(p) <= Min({bounds.maxPathDepth, request.maxStages, request.maxHops})
  /\ StagingAllowed(p)
  /\ Range(p) \cap (snap.dead \cup request.forbidden) = {}
  /\ EndpointsOf(p) \cap snap.down = {}
  /\ request.policyCurrent

\* The map adj of the search: the links that leave e, each at the place that the
\* links ahead of it give it.
Adjacency(links) ==
  [e \in Endpoint |->
     LET own == {i \in 1 .. Len(links) : From[links[i]] = e}
         place(i) == 1 + Cardinality({j \in own : Ahead(links[j], links[i])})
     IN [k \in 1 .. Cardinality(own) |-> links[CHOOSE i \in own : place(i) = k]]]

\* What enumerateCandidatePaths returns: shorter first, then by link.
Sorted(paths) ==
  SortSeq(paths, LAMBDA p, q : LexLess(<<Len(p)>> \o p, <<Len(q)>> \o q))

\* The feasible candidates of the search that has just ended, best first.
Ranked == RankFeasible(SelectSeq(Sorted(out), FeasiblePath))

-----------------------------------------------------------------------------
(* The steps of a call. *)

\* requireValid throws, and so does destinations.at(0) for a request of UNKNOWN
\* shape that names no destination.
Throw ==
  /\ pc = "called"
  /\ ~Valid \/ (EffectiveShape = "UNKNOWN" /\ request.destinations = <<>>)
  /\ pc' = "thrown"
  /\ UNCHANGED <<inputVars, searchVars, request, snap, todo, plan, ids>>

PlanPoint ==
  /\ pc = "called" /\ Valid
  /\ EffectiveShape \notin {"MULTICAST", "COLLECTIVE"} /\ request.destinations # <<>>
  /\ todo' = <<request.destinations[1]>>
  /\ pc' = "planning"
  /\ UNCHANGED <<inputVars, searchVars, request, snap, plan, ids>>

\* Multicast and collective plans take their id before anything is searched.
NewPlan(shape) == [id |-> ids + 1, shape |-> shape, paths |-> <<>>, feasible |-> TRUE]

PlanMulticast ==
  /\ pc = "called" /\ Valid /\ EffectiveShape = "MULTICAST"
  /\ plan' = NewPlan("MULTICAST") /\ ids' = ids + 1
  /\ todo' = request.destinations
  /\ pc' = "planning"
  /\ UNCHANGED <<inputVars, searchVars, request, snap>>

\* "Participant completeness is a hard constraint."
ParticipantsReady ==
  /\ request.collectiveCount = Len(request.participants)
  /\ request.collectiveCount <= bounds.maxCollectiveParticipants
  /\ Range(request.participants) \cap snap.down = {}

PlanCollective ==
  /\ pc = "called" /\ Valid /\ EffectiveShape = "COLLECTIVE"
  /\ ids' = ids + 1
  /\ IF ParticipantsReady
     THEN /\ plan' = NewPlan("COLLECTIVE")
          /\ todo' = request.participants
          /\ pc' = "planning"
     ELSE /\ plan' = [NewPlan("COLLECTIVE") EXCEPT !.feasible = FALSE]
          /\ pc' = "done"
          /\ UNCHANGED todo
  /\ UNCHANGED <<inputVars, searchVars, request, snap>>

\* No path is planned from the root of a collective to itself.
AtRoot == EffectiveShape = "COLLECTIVE" /\ Head(todo) = Root

SkipRoot ==
  /\ pc = "planning" /\ todo # <<>> /\ AtRoot
  /\ todo' = Tail(todo)
  /\ UNCHANGED <<inputVars, searchVars, request, snap, pc, plan, ids>>

\* Mutation: the endpoints marked by the search before stay marked.
StartSearchMarked ==
  /\ pc = "planning" /\ todo # <<>> /\ ~AtRoot /\ rest = <<>>
  /\ source' = Root /\ dst' = Head(todo)
  /\ hops' = <<>> /\ visited' = visited \cup {Root, dst} /\ out' = <<>>
  /\ rest' = <<Entered(Root, <<>>, <<>>)>>
  /\ pc' = "searching"
  /\ UNCHANGED <<inputVars, request, snap, todo, plan, ids>>

\* The next destination or member is searched for.
StartSearch ==
  /\ pc = "planning" /\ todo # <<>> /\ ~AtRoot
  /\ Begin(Root, Head(todo))
  /\ pc' = "searching"
  /\ UNCHANGED <<request, snap, todo, plan, ids>>

Search ==
  /\ pc = "searching"
  /\ SearchStep
  /\ UNCHANGED plannerVars

\* A search has ended; sorted, filtered and ranked, it is this call's.
Searched(shape) == pc = "searching" /\ rest = <<>> /\ EffectiveShape = shape

\* The primary path and the fallbacks, or no plan at all.
ChoosePoint ==
  /\ pc = "searching" /\ rest = <<>> /\ EffectiveShape \notin {"MULTICAST", "COLLECTIVE"}
  /\ IF Ranked = <<>> THEN UNCHANGED <<plan, ids>>
     ELSE /\ ids' = ids + 1
          /\ plan' = [NewPlan("POINT_TO_POINT") EXCEPT
                        !.paths = SubSeq(Ranked, 1, Min({1 + bounds.maxFallbacks, Len(Ranked)}))]
  /\ todo' = <<>> /\ pc' = "done"
  /\ UNCHANGED <<inputVars, searchVars, request, snap>>

\* Mutation: the last destination decides whether the plan is feasible.
ChooseMulticastLast ==
  /\ Searched("MULTICAST")
  /\ plan' = IF Ranked = <<>> THEN [plan EXCEPT !.feasible = FALSE]
             ELSE [plan EXCEPT !.paths = Append(@, Ranked[1]), !.feasible = TRUE]
  /\ todo' = Tail(todo) /\ pc' = "planning"
  /\ UNCHANGED <<inputVars, searchVars, request, snap, ids>>

\* Mutation: a destination without a path is left out.
ChooseMulticastSkips ==
  /\ Searched("MULTICAST")
  /\ plan' = IF Ranked = <<>> THEN plan ELSE [plan EXCEPT !.paths = Append(@, Ranked[1])]
  /\ todo' = Tail(todo) /\ pc' = "planning"
  /\ UNCHANGED <<inputVars, searchVars, request, snap, ids>>

\* A destination without a path makes the plan infeasible; the others are still
\* planned.
ChooseMulticast ==
  /\ Searched("MULTICAST")
  /\ plan' = IF Ranked = <<>> THEN [plan EXCEPT !.feasible = FALSE]
             ELSE [plan EXCEPT !.paths = Append(@, Ranked[1])]
  /\ todo' = Tail(todo) /\ pc' = "planning"
  /\ UNCHANGED <<inputVars, searchVars, request, snap, ids>>

\* A member without a path ends the call.
ChooseCollective ==
  /\ Searched("COLLECTIVE")
  /\ IF Ranked = <<>>
     THEN plan' = [plan EXCEPT !.feasible = FALSE] /\ pc' = "done" /\ UNCHANGED todo
     ELSE /\ plan' = [plan EXCEPT !.paths = Append(@, Ranked[1])]
          /\ todo' = Tail(todo) /\ pc' = "planning"
  /\ UNCHANGED <<inputVars, searchVars, request, snap, ids>>

\* Every destination or member was planned.
Finish ==
  /\ pc = "planning" /\ todo = <<>>
  /\ pc' = "done"
  /\ UNCHANGED <<inputVars, searchVars, request, snap, todo, plan, ids>>

PlannerInit ==
  /\ request \in Request /\ snap \in Snapshot /\ bounds \in Bound
  /\ adj = Adjacency(snap.links)
  /\ pc = "called" /\ todo = <<>> /\ plan = NoPlan /\ ids = 0
  /\ source = request.source /\ dst = request.source
  /\ hops = <<>> /\ visited = {source} /\ rest = <<>> /\ out = <<>>

PlannerNext ==
  \/ Throw \/ PlanPoint \/ PlanMulticast \/ PlanCollective
  \/ SkipRoot \/ StartSearch \/ Search
  \/ ChoosePoint \/ ChooseMulticast \/ ChooseCollective \/ Finish

\* The call is a sequential function: once made, it keeps running.
PlannerSpec == PlannerInit /\ [][PlannerNext]_vars /\ WF_vars(PlannerNext)

-----------------------------------------------------------------------------
(* Properties. *)

\* Every loop-free path between two endpoints, found without a search.
Paths ==
  [s \in Endpoint |-> [d \in Endpoint |->
     {p \in UNION {[1 .. n -> Link] : n \in 1 .. Cardinality(Endpoint) - 1} :
        LoopFree(p, s, d)}]]

\* The candidates of a search, by their definition: of the loop-free paths over
\* the links of the snapshot, within the bounds, the first maxCandidates in
\* depth-first order.  Only the set of links counts.
Candidates(s, d) ==
  LET all == {p \in Paths[s][d] :
                /\ Range(p) \subseteq Range(snap.links)
                /\ Len(p) <= bounds.maxPathDepth /\ Len(p) <= bounds.maxRelayCount + 1}
  IN {p \in all : Cardinality({q \in all : Earlier(q, p)}) < bounds.maxCandidates}

\* A search that has ended holds exactly those, each once, whatever the order in
\* which the links were inserted: neither the skipping of visited endpoints nor
\* the early returns lose or repeat a candidate.
SearchExact ==
  pc = "searching" /\ rest = <<>> =>
    Range(out) = Candidates(source, dst) /\ Len(out) = Cardinality(Range(out))

\* The best path from the root to d: feasible, and no feasible one has a lesser key.
IsBest(p, d) ==
  LET feasible == {q \in Candidates(Root, d) : FeasiblePath(q)} IN
  p \in feasible /\ \A q \in feasible : q = p \/ LexLess(Key(p), Key(q))

Servable(d) == \E p \in Candidates(Root, d) : FeasiblePath(p)

\* The outcome is what the request asks for: a point-to-point plan exists exactly
\* if some candidate is feasible and its paths are the best ones in order; a
\* multicast or collective plan succeeds exactly if every destination, or every
\* member once the participants are ready, can be served, and has the best path
\* for each in order.  It depends on the set of links, not on their order.
PlanMatchesReference ==
  pc = "done" =>
    CASE EffectiveShape = "MULTICAST" ->
           /\ plan.feasible <=> \A d \in Range(request.destinations) : Servable(d)
           /\ LET served == SelectSeq(request.destinations, Servable) IN
              /\ Len(plan.paths) = Len(served)
              /\ \A i \in DOMAIN served : IsBest(plan.paths[i], served[i])
      [] EffectiveShape = "COLLECTIVE" ->
           LET members == SelectSeq(request.participants, LAMBDA e : e # Root) IN
           /\ plan.feasible <=>
                ParticipantsReady /\ \A d \in Range(members) : Servable(d)
           /\ plan.feasible =>
                /\ Len(plan.paths) = Len(members)
                /\ \A i \in DOMAIN members : IsBest(plan.paths[i], members[i])
      [] OTHER ->
           LET feasible == {p \in Candidates(Root, request.destinations[1]) : FeasiblePath(p)} IN
           /\ plan.feasible <=> feasible # {}
           /\ Len(plan.paths) = Min({Cardinality(feasible), 1 + bounds.maxFallbacks}) \/ feasible = {}
           /\ \A i \in DOMAIN plan.paths :
                /\ plan.paths[i] \in feasible
                /\ Cardinality({q \in feasible : LexLess(Key(q), Key(plan.paths[i]))}) = i - 1

\* SUBMIT_REQUEST takes the executor of a plan from the source of its first stage
\* and must do without one when there are no stages.  A plan that succeeds has no
\* stage exactly if it is a collective that names nobody but its root; any other,
\* be it a request from an endpoint to itself or a multicast that only some
\* destinations can be served of, either fails or starts at a root that is up.
StagelessOnlyAlone ==
  pc = "done" /\ plan.feasible =>
    IF EffectiveShape = "COLLECTIVE" /\ Range(request.participants) = {Root}
    THEN plan.paths = <<>>
    ELSE plan.paths # <<>> /\ From[plan.paths[1][1]] = Root /\ Root \notin snap.down

\* A call is a series of searches, and nothing it does between two of them disturbs
\* the next: what is proved of PathSearch holds of the planner's searches.
CallIsSearches == SearchSpec

\* A call returns or throws, whatever cycles the graph has.
PlannerTerminates == <>(pc \in {"done", "thrown"})
=============================================================================
