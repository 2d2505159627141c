---------------------------- MODULE PlannerProofs ----------------------------
(***************************************************************************)
(* The planner's searches are those of PathSearch, over lists that hold    *)
(* the links of the snapshot in order; so, for every graph, every request  *)
(* and all bounds, a search returns exactly the candidates that their      *)
(* definition names.                                                       *)
(***************************************************************************)
EXTENDS Planner, PathSearchProofs, FiniteSetTheorems

\* The comparison of the lists is a strict total order.
LEMMA AheadOrders ==
  ASSUME NEW k \in Link, NEW l \in Link, NEW m \in Link
  PROVE  /\ ~Ahead(l, l)
         /\ ~(Ahead(k, l) /\ Ahead(l, k))
         /\ Ahead(k, l) /\ Ahead(l, m) => Ahead(k, m)
         /\ k = l \/ Ahead(k, l) \/ Ahead(l, k)
<1>1. /\ k \in Nat /\ l \in Nat /\ m \in Nat
      /\ To[k] \in Nat /\ To[l] \in Nat /\ To[m] \in Nat
  BY RankingAssumption, TopologyAssumption
<1> QED BY <1>1 DEF Ahead

\* The positions of the links that leave e, and the place of the i-th link among
\* them.
Own(links, e) == {i \in 1 .. Len(links) : From[links[i]] = e}
Before(links, e, i) == {j \in Own(links, e) : Ahead(links[j], links[i])}
Place(links, e, i) == 1 + Cardinality(Before(links, e, i))

LEMMA AdjacencyAt ==
  ASSUME NEW links, NEW e \in Endpoint
  PROVE  Adjacency(links)[e] =
           [k \in 1 .. Cardinality(Own(links, e)) |->
              links[CHOOSE i \in Own(links, e) : Place(links, e, i) = k]]
BY DEF Adjacency, Own, Before, Place

\* Different links have different places, in their order, up to the number of links.
LEMMA PlacesFollow ==
  ASSUME NEW links \in Seq(Link), NEW e \in Endpoint,
         \A i, j \in 1 .. Len(links) : links[i] = links[j] => i = j
  PROVE  /\ IsFiniteSet(Own(links, e)) /\ Cardinality(Own(links, e)) \in Nat
         /\ \A i \in Own(links, e) :
              /\ links[i] \in Link /\ From[links[i]] = e
              /\ Place(links, e, i) \in 1 .. Cardinality(Own(links, e))
         /\ \A i, j \in Own(links, e) :
              Ahead(links[i], links[j]) <=> Place(links, e, i) < Place(links, e, j)
         /\ \A i, j \in Own(links, e) : Place(links, e, i) = Place(links, e, j) => i = j
<1> DEFINE own == Own(links, e)
           before(i) == Before(links, e, i)
<1>1. /\ IsFiniteSet(own) /\ Cardinality(own) \in Nat
      /\ \A i \in own : i \in 1 .. Len(links) /\ links[i] \in Link /\ From[links[i]] = e
  <2>1. own \subseteq 1 .. Len(links) /\ Len(links) \in Nat
    BY LenProperties DEF Own
  <2>2. IsFiniteSet(1 .. Len(links))
    BY <2>1, FS_Interval
  <2>3. \A i \in own : links[i] \in Link /\ From[links[i]] = e
    BY <2>1, ElementOfSeq DEF Own
  <2> QED BY <2>1, <2>2, <2>3, FS_Subset, FS_CardinalityType
<1>2. ASSUME NEW i \in own
      PROVE  /\ before(i) \subseteq own /\ i \notin before(i)
             /\ IsFiniteSet(before(i)) /\ Cardinality(before(i)) \in Nat
             /\ Cardinality(before(i)) < Cardinality(own)
  <2>1. before(i) \subseteq own /\ i \notin before(i)
    BY <1>1, AheadOrders DEF Before
  <2> QED BY <1>1, <2>1, FS_Subset, FS_CardinalityType
<1>3. ASSUME NEW i \in own, NEW j \in own, Ahead(links[i], links[j])
      PROVE  Cardinality(before(i)) < Cardinality(before(j))
  <2>1. before(i) \subseteq before(j)
    BY <1>1, <1>3, AheadOrders DEF Before
  <2>2. i \in before(j) /\ i \notin before(i)
    BY <1>2, <1>3 DEF Before
  <2> QED BY <1>2, <2>1, <2>2, FS_Subset
<1>4. ASSUME NEW i \in own, NEW j \in own
      PROVE  i = j \/ Ahead(links[i], links[j]) \/ Ahead(links[j], links[i])
  BY <1>1, AheadOrders
<1>5. ASSUME NEW i \in own
      PROVE  /\ Place(links, e, i) = 1 + Cardinality(before(i))
             /\ Place(links, e, i) \in 1 .. Cardinality(own)
  BY <1>1, <1>2 DEF Place
<1> HIDE DEF own, before
<1>6. ASSUME NEW i \in own, NEW j \in own
      PROVE  /\ Ahead(links[i], links[j]) <=> Place(links, e, i) < Place(links, e, j)
             /\ Place(links, e, i) = Place(links, e, j) => i = j
  <2>1. Cardinality(before(i)) \in Nat /\ Cardinality(before(j)) \in Nat
    BY <1>2
  <2>2. /\ Ahead(links[i], links[j]) => Place(links, e, i) < Place(links, e, j)
        /\ Ahead(links[j], links[i]) => Place(links, e, j) < Place(links, e, i)
    BY <1>3, <1>5, <2>1
  <2> QED BY <1>4, <1>5, <2>1, <2>2
<1> QED BY <1>1, <1>5, <1>6 DEF own

\* Every place is taken.
LEMMA PlacesFilled ==
  ASSUME NEW links \in Seq(Link), NEW e \in Endpoint,
         \A i, j \in 1 .. Len(links) : links[i] = links[j] => i = j,
         NEW k \in 1 .. Cardinality(Own(links, e))
  PROVE  \E i \in Own(links, e) : Place(links, e, i) = k
<1> DEFINE own == Own(links, e)
           n == Cardinality(own)
           f == [i \in own |-> Place(links, e, i)]
<1>1. IsFiniteSet(own) /\ n \in Nat
  BY PlacesFollow
<1>2. f \in Injection(own, 1 .. n)
  BY PlacesFollow DEF Injection, IsInjective
<1>3. IsFiniteSet(1 .. n) /\ Cardinality(1 .. n) = n
  BY <1>1, FS_Interval
<1> DEFINE range == {f[i] : i \in own}
<1>4. range \subseteq 1 .. n
  BY <1>2 DEF Injection
<1>5. f \in Bijection(own, range)
  BY <1>2 DEF Bijection, Injection, Surjection, IsInjective
<1>6. IsFiniteSet(range) /\ Cardinality(range) = n
  BY <1>1, <1>5, FS_Bijection DEF ExistsBijection
<1>7. range = 1 .. n
  BY <1>3, <1>4, <1>6, FS_Subset
<1> QED BY <1>7

\* What the sort in enumerateCandidatePaths leaves: the links of the snapshot that
\* leave e, in order.
LEMMA AdjacencyLists ==
  ASSUME NEW links \in Seq(Link), NEW e \in Endpoint,
         \A i, j \in 1 .. Len(links) : links[i] = links[j] => i = j
  PROVE  /\ Adjacency(links)[e] \in Seq(Link)
         /\ \A k \in 1 .. Len(Adjacency(links)[e]) : From[Adjacency(links)[e][k]] = e
         /\ InOrder(Adjacency(links)[e])
         /\ \A l \in Link :
              (\E k \in 1 .. Len(Adjacency(links)[e]) : Adjacency(links)[e][k] = l)
                <=> (From[l] = e /\ \E i \in 1 .. Len(links) : links[i] = l)
<1> DEFINE own == Own(links, e)
           n == Cardinality(own)
           at(k) == CHOOSE i \in own : Place(links, e, i) = k
           list == Adjacency(links)[e]
<1>1. n \in Nat /\ list = [k \in 1 .. n |-> links[at(k)]]
  BY PlacesFollow, AdjacencyAt
<1>2. ASSUME NEW k \in 1 .. n
      PROVE  at(k) \in own /\ Place(links, e, at(k)) = k
  BY PlacesFilled
<1>3. /\ \A i \in own : links[i] \in Link /\ From[links[i]] = e /\ Place(links, e, i) \in 1 .. n
      /\ \A i, j \in own :
           Ahead(links[i], links[j]) <=> Place(links, e, i) < Place(links, e, j)
      /\ \A i, j \in own : Place(links, e, i) = Place(links, e, j) => i = j
  BY PlacesFollow
<1>4. own = {i \in 1 .. Len(links) : From[links[i]] = e}
  BY DEF Own
<1> HIDE DEF own, n, at, list
<1>5. \A k \in 1 .. n : list[k] = links[at(k)] /\ links[at(k)] \in Link
  BY <1>1, <1>2, <1>3
<1>6. list \in Seq(Link) /\ Len(list) = n
  BY <1>1, <1>5
<1>7. \A k \in 1 .. Len(list) : From[list[k]] = e
  BY <1>2, <1>3, <1>5, <1>6
<1>8. InOrder(list)
  BY <1>2, <1>3, <1>5, <1>6 DEF InOrder
<1>9. ASSUME NEW l \in Link
      PROVE  (\E k \in 1 .. Len(list) : list[k] = l)
                <=> (From[l] = e /\ \E i \in 1 .. Len(links) : links[i] = l)
  <2>1. ASSUME NEW k \in 1 .. Len(list), list[k] = l
        PROVE  From[l] = e /\ \E i \in 1 .. Len(links) : links[i] = l
    BY <1>2, <1>4, <1>5, <1>6, <2>1
  <2>2. ASSUME From[l] = e, NEW i \in 1 .. Len(links), links[i] = l
        PROVE  \E k \in 1 .. Len(list) : list[k] = l
    <3>1. i \in own
      BY <1>4, <2>2
    <3>2. Place(links, e, i) \in 1 .. n
      BY <1>3, <3>1
    <3>3. PICK k \in 1 .. n : k = Place(links, e, i)
      BY <3>2
    <3>4. at(k) = i
      BY <1>2, <1>3, <3>1, <3>3
    <3> QED BY <1>5, <1>6, <2>2, <3>4
  <2> QED BY <2>1, <2>2
<1> QED BY <1>6, <1>7, <1>8, <1>9 DEF list

-----------------------------------------------------------------------------
\* A call that was not rejected has an endpoint to start from and endpoints to
\* search for.
PlannerInv ==
  /\ request \in Request /\ snap \in Snapshot
  /\ adj = Adjacency(snap.links)
  /\ todo \in Seq(Endpoint)
  /\ pc \in {"planning", "searching"} => Valid
  /\ pc = "searching" => todo # <<>>

LEMMA RequestTypes ==
  ASSUME request \in Request
  PROVE  /\ request.source \in Endpoint
         /\ request.destinations \in Seq(Endpoint) /\ request.participants \in Seq(Endpoint)
         /\ Valid => Root \in Endpoint
<1>1. /\ request.source \in Endpoint
      /\ request.destinations \in Seq(Endpoint) /\ request.participants \in Seq(Endpoint)
  BY PlannerAssumption
<1>2. ASSUME Valid PROVE Root \in Endpoint
  <2>1. CASE EffectiveShape = "COLLECTIVE"
    <3>1. request.participants # <<>>
      BY <1>2, <2>1 DEF Valid, EffectiveShape
    <3>2. Head(request.participants) \in Endpoint
      BY <1>1, <3>1, HeadTailProperties
    <3> QED BY <2>1, <3>2 DEF Root
  <2>2. CASE EffectiveShape # "COLLECTIVE"
    BY <1>1, <2>2 DEF Root
  <2> QED BY <2>1, <2>2
<1> QED BY <1>1, <1>2

LEMMA SnapshotLinks ==
  ASSUME snap \in Snapshot
  PROVE  /\ snap.links \in Seq(Link)
         /\ \A i, j \in 1 .. Len(snap.links) : snap.links[i] = snap.links[j] => i = j
BY PlannerAssumption

LEMMA PlannerInvInit ==
  ASSUME PlannerInit
  PROVE  PlannerInv
BY DEF PlannerInit, PlannerInv

LEMMA PlannerInvNext ==
  ASSUME PlannerInv, [PlannerNext]_vars
  PROVE  PlannerInv'
<1>1. /\ request' = request /\ snap' = snap /\ adj' = adj
  BY DEF PlannerNext, vars, plannerVars, Throw, PlanPoint, PlanMulticast, PlanCollective,
         SkipRoot, StartSearch, Begin, Search, SearchStep, SkipVisited, Reach, Descend, Return,
         ChoosePoint, ChooseMulticast, ChooseCollective, Finish, inputVars
<1>2. Valid' <=> Valid
  BY <1>1 DEF Valid, EffectiveShape
<1>3. /\ request \in Request /\ snap \in Snapshot /\ adj = Adjacency(snap.links)
      /\ todo \in Seq(Endpoint)
      /\ pc \in {"planning", "searching"} => Valid
      /\ pc = "searching" => todo # <<>>
  BY DEF PlannerInv
<1>4. todo # <<>> => Tail(todo) \in Seq(Endpoint)
  BY <1>3, HeadTailProperties
<1>5. /\ todo' \in Seq(Endpoint)
      /\ pc' \in {"planning", "searching"} => Valid
      /\ pc' = "searching" => todo' # <<>>
  <2>1. CASE Throw
    BY <1>3, <2>1 DEF Throw
  <2>2. CASE PlanPoint
    <3>1. request.destinations # <<>> => request.destinations[1] \in Endpoint
      BY <1>3, RequestTypes, EmptySeq, LenProperties, ElementOfSeq
    <3> QED BY <2>2, <3>1 DEF PlanPoint
  <2>3. CASE PlanMulticast
    BY <1>3, <2>3, RequestTypes DEF PlanMulticast
  <2>4. CASE PlanCollective
    BY <1>3, <2>4, RequestTypes DEF PlanCollective
  <2>5. CASE SkipRoot
    BY <1>3, <1>4, <2>5 DEF SkipRoot
  <2>6. CASE StartSearch
    BY <1>3, <2>6 DEF StartSearch
  <2>7. CASE Search
    BY <1>3, <2>7 DEF Search, plannerVars
  <2>8. CASE ChoosePoint
    BY <2>8 DEF ChoosePoint
  <2>9. CASE ChooseMulticast
    BY <1>3, <1>4, <2>9 DEF ChooseMulticast, Searched
  <2>10. CASE ChooseCollective
    BY <1>3, <1>4, <2>10 DEF ChooseCollective, Searched
  <2>11. CASE Finish
    BY <1>3, <2>11 DEF Finish
  <2>12. CASE UNCHANGED vars
    BY <1>3, <2>12 DEF vars, plannerVars
  <2> QED BY <2>1, <2>2, <2>3, <2>4, <2>5, <2>6, <2>7, <2>8, <2>9, <2>10, <2>11, <2>12
             DEF PlannerNext
<1>6. adj' = Adjacency(snap'.links)
  BY <1>1, <1>3
<1> QED BY <1>1, <1>2, <1>3, <1>5, <1>6 DEF PlannerInv

\* The call starts as a search does, and each of its steps is one of a search or
\* leaves the search alone.
LEMMA CallStarts ==
  ASSUME PlannerInit
  PROVE  SearchInit
<1>1. /\ request \in Request /\ snap \in Snapshot /\ adj = Adjacency(snap.links)
      /\ source = request.source /\ dst = request.source
  BY DEF PlannerInit
<1>2. /\ snap.links \in Seq(Link)
      /\ \A i, j \in 1 .. Len(snap.links) : snap.links[i] = snap.links[j] => i = j
  BY <1>1, SnapshotLinks
<1>3. \A e \in Endpoint : adj[e] \in Seq(Link) /\ \A k \in 1 .. Len(adj[e]) : From[adj[e][k]] = e
  BY <1>1, <1>2, AdjacencyLists
<1>4. adj \in [Endpoint -> Seq(Link)]
  <2>1. adj = [e \in Endpoint |-> adj[e]]
    BY <1>1 DEF Adjacency
  <2> QED BY <1>3, <2>1
<1>5. \A e \in Endpoint : \A i \in DOMAIN adj[e] : From[adj[e][i]] = e
  BY <1>3, LenProperties
<1> QED BY <1>1, <1>4, <1>5, RequestTypes DEF PlannerInit, SearchInit

LEMMA CallSteps ==
  ASSUME PlannerInv, [PlannerNext]_vars
  PROVE  [SearchNext]_<<inputVars, searchVars>>
<1>1. CASE StartSearch
  <2>1. Root \in Endpoint
    BY <1>1, RequestTypes DEF StartSearch, PlannerInv
  <2>2. Head(todo) \in Endpoint
    BY <1>1, HeadTailProperties DEF StartSearch, PlannerInv
  <2> QED BY <1>1, <2>1, <2>2 DEF StartSearch, SearchNext
<1>2. CASE Search
  BY <1>2 DEF Search, SearchNext
<1>3. CASE ~StartSearch /\ ~Search
  BY <1>3 DEF PlannerNext, vars, Throw, PlanPoint, PlanMulticast, PlanCollective, SkipRoot,
              ChoosePoint, ChooseMulticast, ChooseCollective, Finish
<1> QED BY <1>1, <1>2, <1>3

\* planCommunication, buildMulticastPlan and buildCollectivePlan run
\* enumerateCandidatePaths over and over on the same lists, and what they do between
\* two searches does not disturb the next.
THEOREM CallRefinesSearch == PlannerSpec => CallIsSearches
<1>1. PlannerInit => PlannerInv /\ SearchInit
  BY PlannerInvInit, CallStarts
<1>2. PlannerInv /\ [PlannerNext]_vars => PlannerInv'
  BY PlannerInvNext
<1>3. PlannerInv /\ [PlannerNext]_vars => [SearchNext]_<<inputVars, searchVars>>
  BY CallSteps
<1> QED BY <1>1, <1>2, <1>3, PTL DEF PlannerSpec, CallIsSearches, SearchSpec

\* What holds of any search holds of the planner's: its candidates are loop-free
\* paths within the bounds.
THEOREM PlannerSearchIsSound == PlannerSpec => []SearchSound
<1>1. PlannerSpec => SearchSpec
  BY CallRefinesSearch DEF CallIsSearches
<1> QED BY <1>1, SearchIsSound, PTL

-----------------------------------------------------------------------------
\* The depth-first order is a strict order of the paths.
LEMMA EarlierOrders ==
  ASSUME NEW p \in Seq(Link), NEW q \in Seq(Link)
  PROVE  ~Earlier(p, p) /\ ~(Earlier(p, q) /\ Earlier(q, p))
<1>1. /\ \A i \in 1 .. Len(p) : p[i] \in Link
      /\ \A i \in 1 .. Len(q) : q[i] \in Link
      /\ Len(p) \in Nat /\ Len(q) \in Nat
  BY ElementOfSeq, LenProperties
<1>2. ~Earlier(p, p)
  BY <1>1, AheadOrders DEF Earlier
<1>3. ASSUME Earlier(p, q), Earlier(q, p) PROVE FALSE
  <2>1. PICK i \in 1 .. Len(p) :
          i <= Len(q) /\ Ahead(p[i], q[i]) /\ \A k \in 1 .. i - 1 : p[k] = q[k]
    BY <1>3 DEF Earlier
  <2>2. PICK j \in 1 .. Len(q) :
          j <= Len(p) /\ Ahead(q[j], p[j]) /\ \A k \in 1 .. j - 1 : q[k] = p[k]
    BY <1>3 DEF Earlier
  <2>3. /\ i \in 1 .. Len(q) /\ j \in 1 .. Len(p)
        /\ p[i] \in Link /\ q[i] \in Link /\ p[j] \in Link /\ q[j] \in Link
    BY <1>1, <2>1, <2>2
  <2>4. CASE i < j
    <3>1. i \in 1 .. j - 1
      BY <1>1, <2>4
    <3>2. q[i] = p[i]
      BY <2>2, <3>1
    <3> QED BY <2>1, <2>3, <3>2, AheadOrders
  <2>5. CASE j < i
    <3>1. j \in 1 .. i - 1
      BY <1>1, <2>5
    <3>2. p[j] = q[j]
      BY <2>1, <3>1
    <3> QED BY <2>2, <2>3, <3>2, AheadOrders
  <2>6. CASE i = j
    BY <2>1, <2>2, <2>3, <2>6, AheadOrders
  <2> QED BY <1>1, <2>4, <2>5, <2>6
<1> QED BY <1>2, <1>3

\* Functions from an interval to a finite set are finitely many.
LEMMA FiniteFunctions ==
  ASSUME NEW S, IsFiniteSet(S), NEW n \in Nat
  PROVE  IsFiniteSet([1 .. n -> S])
<1> DEFINE graph == [f \in [1 .. n -> S] |-> {<<i, f[i]>> : i \in 1 .. n}]
           T == SUBSET ((1 .. n) \X S)
<1>1. IsFiniteSet(1 .. n)
  BY FS_Interval
<1>2. IsFiniteSet((1 .. n) \X S)
  BY <1>1, FS_Product
<1>3. IsFiniteSet(T)
  BY <1>2, FS_SUBSET
<1>4. \A f \in [1 .. n -> S] : graph[f] \in T
  OBVIOUS
<1>5. ASSUME NEW f \in [1 .. n -> S], NEW g \in [1 .. n -> S], graph[f] = graph[g]
      PROVE  f = g
  <2>1. ASSUME NEW i \in 1 .. n PROVE f[i] = g[i]
    <3>1. <<i, f[i]>> \in {<<k, g[k]>> : k \in 1 .. n}
      BY <1>5
    <3> QED BY <3>1
  <2> QED BY <2>1
<1>6. graph \in Injection([1 .. n -> S], T)
  <2>1. graph \in [[1 .. n -> S] -> T]
    BY <1>4
  <2> HIDE DEF graph, T
  <2> QED BY <1>5, <2>1 DEF Injection, IsInjective
<1> HIDE DEF graph, T
<1> QED BY <1>3, <1>6, FS_Injection

\* A loop-free path has fewer links than there are endpoints.
LEMMA LoopFreeIsShort ==
  ASSUME NEW s \in Endpoint, NEW d, NEW p, LoopFree(p, s, d)
  PROVE  Len(p) \in 1 .. Cardinality(Endpoint) - 1
<1> DEFINE passed == [i \in 1 .. Len(p) |-> To[p[i]]]
<1>1. /\ p \in Seq(Link) /\ Len(p) \in Nat \ {0} /\ DOMAIN p = 1 .. Len(p)
      /\ \A i \in 1 .. Len(p) : p[i] \in Link
  BY LenProperties, EmptySeq, ElementOfSeq DEF LoopFree
<1>2. /\ \A i \in 1 .. Len(p) : To[p[i]] \in Endpoint \ {s}
      /\ \A i, j \in 1 .. Len(p) : To[p[i]] = To[p[j]] => i = j
  BY <1>1, TopologyAssumption DEF LoopFree
<1>3. passed \in Injection(1 .. Len(p), Endpoint \ {s})
  BY <1>2 DEF Injection, IsInjective
<1>4. /\ IsFiniteSet(Endpoint \ {s}) /\ Cardinality(Endpoint \ {s}) = Cardinality(Endpoint) - 1
      /\ Cardinality(Endpoint) \in Nat
  BY PlannerAssumption, FS_RemoveElement, FS_CardinalityType
<1>5. Cardinality(1 .. Len(p)) = Len(p)
  BY <1>1, FS_Interval
<1>6. Cardinality(1 .. Len(p)) <= Cardinality(Endpoint \ {s})
  BY <1>3, <1>4, FS_Injection
<1> QED BY <1>1, <1>4, <1>5, <1>6

\* So Paths has all of them, and they are finitely many.
LEMMA PathsAreLoopFree ==
  ASSUME NEW s \in Endpoint, NEW d \in Endpoint
  PROVE  /\ \A p : p \in Paths[s][d] <=> LoopFree(p, s, d)
         /\ IsFiniteSet(Paths[s][d])
<1> DEFINE N == Cardinality(Endpoint) - 1
           fun == [n \in 1 .. N |-> [1 .. n -> Link]]
           Fun == {[1 .. n -> Link] : n \in 1 .. N}
<1>1. Paths[s][d] = {p \in UNION Fun : LoopFree(p, s, d)}
  BY DEF Paths
<1>2. N \in Int
  BY PlannerAssumption, FS_CardinalityType
<1>3. ASSUME NEW p, LoopFree(p, s, d)
      PROVE  p \in UNION Fun
  <2>1. Len(p) \in 1 .. N
    BY <1>3, LoopFreeIsShort
  <2>2. p \in [1 .. Len(p) -> Link]
    BY <1>3, LenProperties DEF LoopFree
  <2> QED BY <2>1, <2>2
<1>4. IsFiniteSet(UNION Fun)
  <2>1. fun \in Surjection(1 .. N, Fun)
    BY DEF Surjection
  <2>2. IsFiniteSet(1 .. N)
    BY <1>2, FS_Interval
  <2>3. \A n \in 1 .. N : n \in Nat
    BY <1>2
  <2>4. \A T \in Fun : IsFiniteSet(T)
    BY <2>3, FiniteFunctions, PlannerAssumption
  <2> HIDE DEF N, fun, Fun
  <2>5. IsFiniteSet(Fun)
    BY <2>1, <2>2, FS_Surjection
  <2> QED BY <2>4, <2>5, FS_UNION
<1> HIDE DEF Fun
<1>5. Paths[s][d] \subseteq UNION Fun
  BY <1>1
<1> QED BY <1>1, <1>3, <1>4, <1>5, FS_Subset

-----------------------------------------------------------------------------
\* A search that has ended has found or cut off all that it was for.
Ended ==
  pc = "searching" /\ rest = <<>> =>
    \A p \in Seq(Link) : Wanted(p) => Found(p) \/ CutOff(p)

LEMMA EndedNext ==
  ASSUME PlannerInv, SearchOrderInv, Ended, [PlannerNext]_vars
  PROVE  Ended'
<1> SUFFICES ASSUME pc' = "searching", rest' = <<>>, NEW p \in Seq(Link), Wanted(p)'
             PROVE  Found(p)' \/ CutOff(p)'
  BY DEF Ended
<1>1. CASE StartSearch
  BY <1>1 DEF StartSearch, Begin
<1>2. CASE Search
  <2>1. SearchStep
    BY <1>2 DEF Search
  <2>2. UNCHANGED <<inputVars, source, dst>> /\ rest # <<>>
    BY <2>1 DEF SearchStep, SkipVisited, Reach, Descend, Return, Looping
  <2>3. Wanted(p)
    BY <2>2, WantedKept
  <2>4. [SearchNext]_<<inputVars, searchVars>>
    BY <2>1 DEF SearchNext
  <2> QED BY <2>2, <2>3, <2>4, EndIsComplete DEF SearchOrderInv
<1>3. CASE UNCHANGED vars
  <2>1. /\ UNCHANGED <<inputVars, source, dst>> /\ bounds' = bounds /\ adj' = adj
        /\ out' = out /\ rest' = rest /\ pc' = pc
    BY <1>3 DEF vars, inputVars, searchVars, plannerVars
  <2>2. Found(p) \/ CutOff(p)
    BY <2>1, WantedKept DEF Ended
  <2>3. (\A f : Found(f)' <=> Found(f)) /\ (ListedInOrder' <=> ListedInOrder)
    BY <2>1 DEF Found, ListedInOrder, InOrder
  <2> QED BY <2>1, <2>2, <2>3 DEF CutOff
<1>4. CASE ~StartSearch /\ ~Search /\ PlannerNext
  BY <1>4 DEF PlannerNext, Throw, PlanPoint, PlanMulticast, PlanCollective, SkipRoot,
              ChoosePoint, ChooseMulticast, ChooseCollective, Finish
<1> QED BY <1>1, <1>2, <1>3, <1>4

\* The links that were listed are those of the snapshot, and in order.
LEMMA ListedIsSnapshot ==
  ASSUME PlannerInv
  PROVE  /\ ListedInOrder
         /\ \A l \in Link : Listed(l) <=> l \in Range(snap.links)
<1>1. /\ snap.links \in Seq(Link) /\ adj = Adjacency(snap.links)
      /\ \A i, j \in 1 .. Len(snap.links) : snap.links[i] = snap.links[j] => i = j
  BY SnapshotLinks DEF PlannerInv
<1>2. ListedInOrder
  BY <1>1, AdjacencyLists DEF ListedInOrder
<1>3. ASSUME NEW l \in Link
      PROVE  Listed(l) <=> l \in Range(snap.links)
  <2>1. From[l] \in Endpoint
    BY TopologyAssumption
  <2>2. (\E k \in 1 .. Len(adj[From[l]]) : adj[From[l]][k] = l)
          <=> \E i \in 1 .. Len(snap.links) : snap.links[i] = l
    <3>1. \A m \in Link :
            (\E k \in 1 .. Len(Adjacency(snap.links)[From[l]]) :
               Adjacency(snap.links)[From[l]][k] = m)
              <=> (From[m] = From[l] /\ \E i \in 1 .. Len(snap.links) : snap.links[i] = m)
      BY ONLY <1>1, <2>1, AdjacencyLists
    <3> QED BY ONLY <1>1, <3>1, l \in Link
  <2>3. DOMAIN snap.links = 1 .. Len(snap.links)
    BY <1>1, LenProperties
  <2> QED BY <2>2, <2>3 DEF Listed, Range
<1> QED BY <1>2, <1>3

\* The reference: what is wanted of the search.
All(s, d) ==
  {p \in Paths[s][d] :
     /\ Range(p) \subseteq Range(snap.links)
     /\ Len(p) <= bounds.maxPathDepth /\ Len(p) <= bounds.maxRelayCount + 1}

LEMMA AllIsWanted ==
  ASSUME PlannerInv, SearchInv
  PROVE  /\ IsFiniteSet(All(source, dst))
         /\ \A p : p \in All(source, dst) <=> p \in Seq(Link) /\ Wanted(p)
<1>1. source \in Endpoint /\ dst \in Endpoint
  BY DEF SearchInv, SearchTypes
<1>2. IsFiniteSet(All(source, dst))
  <2>1. All(source, dst) \subseteq Paths[source][dst]
    BY DEF All
  <2> QED BY <1>1, <2>1, PathsAreLoopFree, FS_Subset
<1>3. ASSUME NEW p
      PROVE  p \in All(source, dst) <=> p \in Seq(Link) /\ Wanted(p)
  <2>1. p \in Paths[source][dst] <=> LoopFree(p, source, dst)
    BY <1>1, PathsAreLoopFree
  <2>2. LoopFree(p, source, dst) => p \in Seq(Link)
    BY DEF LoopFree
  <2>3. ASSUME p \in Seq(Link)
        PROVE  Range(p) \subseteq Range(snap.links) <=> \A i \in 1 .. Len(p) : Listed(p[i])
    <3>1. DOMAIN p = 1 .. Len(p) /\ \A i \in 1 .. Len(p) : p[i] \in Link
      BY <2>3, LenProperties, ElementOfSeq
    <3>2. Range(p) = {p[i] : i \in 1 .. Len(p)}
      BY <3>1 DEF Range
    <3>3. \A i \in 1 .. Len(p) : Listed(p[i]) <=> p[i] \in Range(snap.links)
      BY <3>1, ListedIsSnapshot
    <3> QED BY <3>2, <3>3
  <2> QED BY <2>1, <2>2, <2>3 DEF All, Wanted
<1> QED BY <1>2, <1>3

LEMMA CandidatesOfAll ==
  Candidates(source, dst) =
    {p \in All(source, dst) :
       Cardinality({q \in All(source, dst) : Earlier(q, p)}) < bounds.maxCandidates}
BY DEF Candidates, All

LEMMA IntervalCounts ==
  ASSUME NEW n \in Nat
  PROVE  IsFiniteSet(1 .. n) /\ Cardinality(1 .. n) = n
BY FS_Interval

\* The candidates of a search are as many as the list is long.
LEMMA FoundOnce ==
  ASSUME PlannerInv, SearchOrderInv
  PROVE  /\ \A p : Found(p) <=> p \in Range(out)
         /\ IsFiniteSet(Range(out)) /\ Cardinality(Range(out)) = Len(out)
         /\ Len(out) \in Nat
<1>1. /\ out \in Seq(Seq(Link)) /\ DOMAIN out = 1 .. Len(out) /\ Len(out) \in Nat
      /\ \A i \in 1 .. Len(out) : out[i] \in Seq(Link)
  BY LenProperties, ElementOfSeq DEF SearchOrderInv, SearchInv, SearchTypes
<1>2. Range(out) = {out[i] : i \in 1 .. Len(out)}
  BY <1>1 DEF Range
<1>3. \A i, j \in 1 .. Len(out) : i < j => Earlier(out[i], out[j])
  BY ListedIsSnapshot DEF SearchOrderInv, DepthFirst
<1>4. ASSUME NEW i \in 1 .. Len(out), NEW j \in 1 .. Len(out), out[i] = out[j]
      PROVE  i = j
  <2>1. ~Earlier(out[i], out[j]) /\ ~Earlier(out[j], out[i])
    BY <1>1, <1>4, EarlierOrders
  <2> QED BY <1>1, <1>3, <2>1
<1> DEFINE at == [i \in 1 .. Len(out) |-> out[i]]
<1>5. at \in Bijection(1 .. Len(out), Range(out))
  BY <1>2, <1>4 DEF Bijection, Injection, Surjection, IsInjective
<1>6. IsFiniteSet(1 .. Len(out)) /\ Cardinality(1 .. Len(out)) = Len(out)
  BY <1>1, IntervalCounts
<1>7. IsFiniteSet(Range(out)) /\ Cardinality(Range(out)) = Len(out)
  BY <1>5, <1>6, FS_Bijection DEF ExistsBijection
<1> QED BY <1>1, <1>2, <1>7 DEF Found

\* What is found is wanted.
LEMMA FoundIsWanted ==
  ASSUME PlannerInv, SearchOrderInv, NEW p, Found(p)
  PROVE  p \in All(source, dst)
<1>1. PICK i \in 1 .. Len(out) : out[i] = p
  BY DEF Found
<1>2. DOMAIN out = 1 .. Len(out) /\ out[i] \in Seq(Link)
  BY LenProperties, ElementOfSeq DEF SearchOrderInv, SearchInv, SearchTypes
<1>3. /\ LoopFree(out[i], source, dst)
      /\ Len(out[i]) <= bounds.maxPathDepth /\ Len(out[i]) <= bounds.maxRelayCount + 1
  BY <1>2 DEF SearchOrderInv, SearchInv, SearchSound
<1>4. \A k \in 1 .. Len(out[i]) : Listed(out[i][k])
  BY DEF SearchOrderInv, OnlyListed
<1>5. Wanted(p)
  BY <1>1, <1>3, <1>4 DEF Wanted
<1> QED BY <1>1, <1>2, <1>5, AllIsWanted DEF SearchOrderInv

\* Of the paths that are wanted, those found are the ones with fewer than
\* maxCandidates before them.
LEMMA EndIsExact ==
  ASSUME PlannerInv, SearchOrderInv, Ended
  PROVE  SearchExact
<1> SUFFICES ASSUME pc = "searching", rest = <<>>
             PROVE  Range(out) = Candidates(source, dst) /\ Len(out) = Cardinality(Range(out))
  BY DEF SearchExact
<1> DEFINE all == All(source, dst)
           found == Range(out)
           max == bounds.maxCandidates
           before(p) == {q \in all : Earlier(q, p)}
<1>1. /\ \A p : Found(p) <=> p \in found
      /\ IsFiniteSet(found) /\ Cardinality(found) = Len(out) /\ Len(out) \in Nat
  BY FoundOnce
<1>2. IsFiniteSet(all) /\ \A p : p \in all <=> p \in Seq(Link) /\ Wanted(p)
  BY AllIsWanted DEF SearchOrderInv
<1>3. found \subseteq all
  BY <1>1, FoundIsWanted
<1>4. max \in Nat /\ Len(out) <= max
  BY BoundsNat DEF SearchOrderInv, SearchInv, SearchTypes, SearchSound
<1>5. \A p \in all : p \in found \/ CutOff(p)
  BY <1>1, <1>2 DEF Ended
<1>6. \A p : CutOff(p) => Len(out) >= max /\ \A f \in found : Earlier(f, p)
  BY <1>1, <1>2, <1>3, ListedIsSnapshot DEF CutOff
<1>7. Candidates(source, dst) = {p \in all : Cardinality(before(p)) < max}
  BY CandidatesOfAll
<1> HIDE DEF all, found, max
<1>8. ASSUME NEW p \in found
      PROVE  Cardinality(before(p)) < max
  <2>1. before(p) \subseteq found \ {p}
    <3> SUFFICES ASSUME NEW q \in all, Earlier(q, p)
                 PROVE  q \in found /\ q # p
      OBVIOUS
    <3>1. p \in Seq(Link) /\ q \in Seq(Link)
      BY <1>2, <1>3
    <3>2. ~Earlier(p, q) /\ q # p
      BY <3>1, EarlierOrders
    <3> QED BY <1>5, <1>6, <3>2
  <2>2. IsFiniteSet(found \ {p}) /\ Cardinality(found \ {p}) = Len(out) - 1
    BY <1>1, FS_RemoveElement
  <2>3. IsFiniteSet(before(p)) /\ Cardinality(before(p)) <= Len(out) - 1
    BY <2>1, <2>2, FS_Subset
  <2>4. Cardinality(before(p)) \in Nat
    BY <2>3, FS_CardinalityType
  <2> QED BY <1>1, <1>4, <2>3, <2>4
<1>9. ASSUME NEW p \in all, p \notin found
      PROVE  ~(Cardinality(before(p)) < max)
  <2>1. Len(out) >= max /\ found \subseteq before(p)
    BY <1>3, <1>5, <1>6, <1>9
  <2>2. IsFiniteSet(before(p))
    BY <1>2, FS_Subset
  <2>3. Cardinality(found) <= Cardinality(before(p)) /\ Cardinality(before(p)) \in Nat
    BY <2>1, <2>2, FS_Subset, FS_CardinalityType
  <2> QED BY <1>1, <1>4, <2>1, <2>3
<1>10. found = {p \in all : Cardinality(before(p)) < max}
  BY <1>3, <1>8, <1>9
<1> QED BY <1>1, <1>7, <1>10 DEF found

\* A search of planCommunication, buildMulticastPlan or buildCollectivePlan returns,
\* whatever the graph, the order in which its links were inserted and the bounds,
\* exactly the candidates of the definition, each once: the first maxCandidates, in
\* depth-first order, of the loop-free paths within the depth and relay bounds.
THEOREM SearchIsExact == PlannerSpec => []SearchExact
<1>1. PlannerInit => PlannerInv /\ Ended
  BY PlannerInvInit DEF PlannerInit, Ended
<1>2. PlannerInv /\ [PlannerNext]_vars => PlannerInv'
  BY PlannerInvNext
<1>3. PlannerSpec => []SearchOrderInv
  <2>1. PlannerSpec => SearchSpec
    BY CallRefinesSearch DEF CallIsSearches
  <2> QED BY <2>1, SearchOrderInvariant, PTL
<1>4. PlannerInv /\ SearchOrderInv /\ Ended /\ [PlannerNext]_vars => Ended'
  BY EndedNext
<1>5. PlannerInv /\ SearchOrderInv /\ Ended => SearchExact
  BY EndIsExact
<1> QED BY <1>1, <1>2, <1>3, <1>4, <1>5, PTL DEF PlannerSpec
=============================================================================
