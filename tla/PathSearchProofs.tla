-------------------------- MODULE PathSearchProofs --------------------------
(***************************************************************************)
(* For every graph, every order of its links and all bounds, a candidate   *)
(* of the search is a loop-free path within the bounds.                    *)
(***************************************************************************)
EXTENDS PathSearch, SequenceTheorems, TLAPS

\* The endpoint of the i-th active call of dfs.
Node(i) == IF i = 1 THEN source ELSE To[hops[i - 1]]

\* p leaves s, every link starts where the one before it ends, and no endpoint is
\* passed twice.
Walk(p, s) ==
  \A i \in 1 .. Len(p) :
    /\ To[p[i]] # s
    /\ From[p[i]] = IF i = 1 THEN s ELSE To[p[i - 1]]
    /\ \A j \in 1 .. Len(p) : To[p[i]] = To[p[j]] => i = j

SearchTypes ==
  /\ bounds \in Bound
  /\ adj \in [Endpoint -> Seq(Link)]
  /\ source \in Endpoint /\ dst \in Endpoint
  /\ hops \in Seq(Link) /\ rest \in Seq(Seq(Link)) /\ out \in Seq(Seq(Link))

\* The lists of the loop hold the links that leave the endpoint of the call.
Leaves ==
  /\ \A e \in Endpoint : \A k \in 1 .. Len(adj[e]) : From[adj[e][k]] = e
  /\ \A i \in 1 .. Len(rest) : \A k \in 1 .. Len(rest[i]) : From[rest[i][k]] = Node(i)

\* What is marked is what lies on the path, there is one call more than the path
\* has links, and a call below the depth bound has nothing to look at.
Stack ==
  /\ Walk(hops, source)
  /\ visited = {source} \cup {To[hops[i]] : i \in 1 .. Len(hops)}
  /\ IF rest = <<>> THEN hops = <<>> ELSE Len(rest) = Len(hops) + 1
  /\ \A i \in 1 .. Len(rest) : rest[i] # <<>> => i <= bounds.maxPathDepth

\* The inductive invariant.
SearchInv == SearchTypes /\ Leaves /\ Stack /\ SearchSound

\* The bounds are natural numbers.
LEMMA BoundsNat ==
  ASSUME bounds \in Bound
  PROVE  /\ bounds.maxCandidates \in Nat /\ bounds.maxPathDepth \in Nat
         /\ bounds.maxRelayCount \in Nat
BY SearchAssumption

\* A walk with one more link, to an endpoint it has not passed, is a walk: what
\* the test of visited in the loop of dfs is for.
LEMMA WalkExtends ==
  ASSUME NEW p \in Seq(Link), NEW s \in Endpoint, NEW l \in Link,
         Walk(p, s),
         From[l] = IF p = <<>> THEN s ELSE To[p[Len(p)]],
         To[l] # s, \A i \in 1 .. Len(p) : To[l] # To[p[i]]
  PROVE  Walk(Append(p, l), s)
<1> DEFINE q == Append(p, l)
<1>1. /\ q \in Seq(Link) /\ Len(q) = Len(p) + 1 /\ Len(p) \in Nat
      /\ \A i \in 1 .. Len(p) : q[i] = p[i]
      /\ q[Len(p) + 1] = l
  BY AppendProperties, LenProperties
<1>2. p = <<>> <=> Len(p) = 0
  BY EmptySeq
<1> SUFFICES ASSUME NEW i \in 1 .. Len(q)
             PROVE  /\ To[q[i]] # s
                    /\ From[q[i]] = IF i = 1 THEN s ELSE To[q[i - 1]]
                    /\ \A j \in 1 .. Len(q) : To[q[i]] = To[q[j]] => i = j
  BY DEF Walk
<1> HIDE DEF q
<1>3. CASE i \in 1 .. Len(p)
  <2>1. i = 1 \/ i - 1 \in 1 .. Len(p)
    BY <1>1, <1>3
  <2>2. \A j \in 1 .. Len(q) : j = Len(p) + 1 \/ j \in 1 .. Len(p)
    BY <1>1
  <2>3. /\ To[p[i]] # s /\ From[p[i]] = IF i = 1 THEN s ELSE To[p[i - 1]]
        /\ \A j \in 1 .. Len(p) : To[p[i]] = To[p[j]] => i = j
    BY <1>3 DEF Walk
  <2>4. q[i] = p[i] /\ (i # 1 => q[i - 1] = p[i - 1])
    BY <1>1, <1>3, <2>1
  <2> QED BY <1>1, <1>3, <2>2, <2>3, <2>4
<1>4. CASE i = Len(p) + 1
  <2>1. i = 1 \/ (i - 1 = Len(p) /\ i - 1 \in 1 .. Len(p))
    BY <1>1, <1>4
  <2>2. \A j \in 1 .. Len(q) : j = i \/ j \in 1 .. Len(p)
    BY <1>1, <1>4
  <2> QED BY <1>1, <1>2, <1>4, <2>1, <2>2
<1> QED BY <1>1, <1>3, <1>4

\* A walk that has a link and ends at d is a loop-free path.
LEMMA WalkIsLoopFree ==
  ASSUME NEW p \in Seq(Link), NEW s, NEW d,
         Walk(p, s), p # <<>>, To[p[Len(p)]] = d
  PROVE  LoopFree(p, s, d)
<1>1. Len(p) \in Nat \ {0} /\ DOMAIN p = 1 .. Len(p)
  BY EmptySeq, LenProperties
<1>2. From[p[1]] = s
  BY <1>1 DEF Walk
<1> QED BY <1>1, <1>2 DEF Walk, LoopFree

\* The link the loop looks at, and the stack once it has been taken.
LEMMA LoopingFacts ==
  ASSUME SearchInv, Looping
  PROVE  /\ Head(Top) \in Link
         /\ From[Head(Top)] = IF hops = <<>> THEN source ELSE To[hops[Len(hops)]]
         /\ Len(hops) \in Nat /\ Len(hops) < bounds.maxPathDepth
         /\ Len(rest) = Len(hops) + 1
         /\ Advanced \in Seq(Seq(Link)) /\ Len(Advanced) = Len(rest)
         /\ \A i \in 1 .. Len(Advanced) :
              /\ Advanced[i] # <<>> => i <= bounds.maxPathDepth
              /\ \A k \in 1 .. Len(Advanced[i]) : From[Advanced[i][k]] = Node(i)
<1>1. rest \in Seq(Seq(Link)) /\ hops \in Seq(Link) /\ rest # <<>> /\ Top # <<>>
  BY DEF SearchInv, SearchTypes, Looping
<1>2. /\ Len(rest) = Len(hops) + 1 /\ Len(hops) \in Nat
      /\ Len(rest) \in 1 .. Len(rest)
  BY <1>1, LenProperties DEF SearchInv, Stack
<1>3. Top \in Seq(Link)
  BY <1>1, <1>2, ElementOfSeq DEF Top
<1>4. /\ Head(Top) \in Link /\ Tail(Top) \in Seq(Link)
      /\ Len(Tail(Top)) = Len(Top) - 1 /\ Len(Top) \in Nat
      /\ \A k \in 1 .. Len(Tail(Top)) : Tail(Top)[k] = Top[k + 1]
      /\ Len(Top) >= 1 /\ Head(Top) = Top[1]
  BY <1>1, <1>3, HeadTailProperties, LenProperties, EmptySeq
<1>5. Len(hops) < bounds.maxPathDepth
  BY <1>1, <1>2, BoundsNat DEF SearchInv, SearchTypes, Stack, Top
<1>6. \A k \in 1 .. Len(Top) : From[Top[k]] = Node(Len(rest))
  BY <1>2 DEF SearchInv, Leaves, Top
<1>7. From[Head(Top)] = IF hops = <<>> THEN source ELSE To[hops[Len(hops)]]
  <2>1. hops = <<>> <=> Len(hops) = 0
    BY <1>1, EmptySeq
  <2>2. From[Head(Top)] = Node(Len(rest))
    BY <1>4, <1>6
  <2> QED BY <1>2, <2>1, <2>2 DEF Node
<1>8. /\ Advanced \in Seq(Seq(Link)) /\ Len(Advanced) = Len(rest)
      /\ \A i \in 1 .. Len(rest) :
           Advanced[i] = IF i = Len(rest) THEN Tail(Top) ELSE rest[i]
  BY <1>1, <1>2, <1>4, ExceptSeq DEF Advanced, Top
<1>9. ASSUME NEW i \in 1 .. Len(Advanced)
      PROVE  /\ Advanced[i] # <<>> => i <= bounds.maxPathDepth
             /\ \A k \in 1 .. Len(Advanced[i]) : From[Advanced[i][k]] = Node(i)
  <2>1. CASE i = Len(rest)
    <3>1. Advanced[i] = Tail(Top)
      BY <1>8, <2>1
    <3>2. \A k \in 1 .. Len(Tail(Top)) : From[Tail(Top)[k]] = Node(i)
      BY <1>4, <1>6, <2>1
    <3>3. i <= bounds.maxPathDepth
      BY <1>2, <1>5, <2>1, BoundsNat DEF SearchInv, SearchTypes
    <3> QED BY <3>1, <3>2, <3>3
  <2>2. CASE i # Len(rest)
    BY <1>8, <2>2 DEF SearchInv, Stack, Leaves
  <2> QED BY <2>1, <2>2
<1> QED BY <1>2, <1>4, <1>5, <1>7, <1>8, <1>9

\* What a call of dfs looks at, with n links on the path, leaves its endpoint, and
\* is nothing at the depth bound.
LEMMA EnteredFacts ==
  ASSUME SearchInv, NEW e \in Endpoint, NEW n \in Nat, NEW list,
         list = <<>> \/ (list = adj[e] /\ n < bounds.maxPathDepth)
  PROVE  /\ list \in Seq(Link)
         /\ \A k \in 1 .. Len(list) : From[list[k]] = e
         /\ list # <<>> => n + 1 <= bounds.maxPathDepth
<1>1. adj[e] \in Seq(Link) /\ \A k \in 1 .. Len(adj[e]) : From[adj[e][k]] = e
  BY DEF SearchInv, SearchTypes, Leaves
<1>2. <<>> \in Seq(Link) /\ Len(<<>>) = 0
  OBVIOUS
<1>3. bounds.maxPathDepth \in Nat
  BY BoundsNat DEF SearchInv, SearchTypes
<1>4. CASE list = <<>>
  BY <1>2, <1>4
<1>5. CASE list = adj[e] /\ n < bounds.maxPathDepth
  BY <1>1, <1>3, <1>5
<1> QED BY <1>4, <1>5

-----------------------------------------------------------------------------
\* What a new search finds: an empty path and the links of its source.
LEMMA BeginPreserves ==
  ASSUME SearchInv, NEW s \in Endpoint, NEW d \in Endpoint, Begin(s, d)
  PROVE  SearchInv'
<1> DEFINE first == Entered(s, <<>>, <<>>)
<1>1. /\ first \in Seq(Link) /\ \A k \in 1 .. Len(first) : From[first[k]] = s
      /\ first # <<>> => 1 <= bounds.maxPathDepth
  <2>1. first = <<>> \/ (first = adj[s] /\ 0 < bounds.maxPathDepth)
    BY BoundsNat DEF Entered, SearchInv, SearchTypes
  <2> HIDE DEF first
  <2> QED BY <2>1, EnteredFacts
<1>2. /\ bounds' = bounds /\ adj' = adj /\ source' = s /\ dst' = d
      /\ hops' = <<>> /\ visited' = {s} /\ out' = <<>> /\ rest' = <<first>>
  BY DEF Begin, inputVars
<1> HIDE DEF first
<1>3. /\ rest' \in Seq(Seq(Link)) /\ Len(rest') = 1 /\ rest'[1] = first
      /\ Len(hops') = 0 /\ rest' # <<>>
  BY <1>1, <1>2
<1>4. SearchTypes'
  BY <1>2, <1>3 DEF SearchInv, SearchTypes
<1>5. Leaves'
  BY <1>1, <1>2, <1>3 DEF SearchInv, Leaves, Node
<1>6. Stack'
  BY <1>1, <1>2, <1>3 DEF Stack, Walk
<1>7. SearchSound'
  BY <1>2, BoundsNat DEF SearchInv, SearchTypes, SearchSound
<1> QED BY <1>4, <1>5, <1>6, <1>7 DEF SearchInv

\* A step that takes the next link and leaves the path alone.
LEMMA AdvanceKeeps ==
  ASSUME SearchInv, Looping, rest' = Advanced, out' \in Seq(Seq(Link)),
         UNCHANGED <<inputVars, source, dst, hops, visited>>
  PROVE  SearchTypes' /\ Leaves' /\ Stack'
<1>1. /\ Advanced \in Seq(Seq(Link)) /\ Len(Advanced) = Len(rest) /\ Len(rest) = Len(hops) + 1
      /\ Len(hops) \in Nat
      /\ \A i \in 1 .. Len(Advanced) :
           /\ Advanced[i] # <<>> => i <= bounds.maxPathDepth
           /\ \A k \in 1 .. Len(Advanced[i]) : From[Advanced[i][k]] = Node(i)
  BY LoopingFacts
<1>2. bounds' = bounds /\ adj' = adj /\ source' = source /\ dst' = dst /\ hops' = hops
      /\ visited' = visited
  BY DEF inputVars
<1>3. rest' # <<>>
  BY <1>1, EmptySeq
<1>4. SearchTypes'
  BY <1>1, <1>2 DEF SearchInv, SearchTypes
<1>5. \A i : Node(i)' = Node(i)
  BY <1>2 DEF Node
<1>6. Leaves'
  BY <1>1, <1>2, <1>5 DEF SearchInv, Leaves
<1>7. Stack'
  BY <1>1, <1>2, <1>3 DEF SearchInv, Stack, Walk
<1> QED BY <1>4, <1>6, <1>7

LEMMA SkipVisitedPreserves ==
  ASSUME SearchInv, SkipVisited
  PROVE  SearchInv'
<1>1. SearchTypes' /\ Leaves' /\ Stack'
  BY AdvanceKeeps DEF SkipVisited, SearchInv, SearchTypes
<1>2. SearchSound'
  BY DEF SkipVisited, inputVars, SearchInv, SearchSound
<1> QED BY <1>1, <1>2 DEF SearchInv

\* A link to an endpoint that is not marked extends the path of the call.
LEMMA FreshLinkExtends ==
  ASSUME SearchInv, Looping, To[Head(Top)] \notin visited
  PROVE  /\ Append(hops, Head(Top)) \in Seq(Link)
         /\ Walk(Append(hops, Head(Top)), source)
         /\ Len(Append(hops, Head(Top))) = Len(hops) + 1
         /\ \A i \in 1 .. Len(hops) : Append(hops, Head(Top))[i] = hops[i]
         /\ Append(hops, Head(Top))[Len(hops) + 1] = Head(Top)
         /\ Append(hops, Head(Top)) # <<>>
<1>1. /\ Head(Top) \in Link
      /\ From[Head(Top)] = IF hops = <<>> THEN source ELSE To[hops[Len(hops)]]
  BY LoopingFacts
<1>2. hops \in Seq(Link) /\ source \in Endpoint /\ Walk(hops, source)
  BY DEF SearchInv, SearchTypes, Stack
<1>3. To[Head(Top)] # source /\ \A i \in 1 .. Len(hops) : To[Head(Top)] # To[hops[i]]
  BY DEF SearchInv, Stack
<1>4. Walk(Append(hops, Head(Top)), source)
  BY <1>1, <1>2, <1>3, WalkExtends
<1> QED BY <1>1, <1>2, <1>4, AppendProperties

LEMMA ReachPreserves ==
  ASSUME SearchInv, Reach
  PROVE  SearchInv'
<1> DEFINE p == Append(hops, Head(Top))
<1>1. Looping /\ To[Head(Top)] \notin visited /\ To[Head(Top)] = dst
  BY DEF Reach
<1>2. /\ p \in Seq(Link) /\ Walk(p, source) /\ Len(p) = Len(hops) + 1 /\ p # <<>>
      /\ p[Len(hops) + 1] = Head(Top)
  BY <1>1, FreshLinkExtends
<1>3. out \in Seq(Seq(Link)) /\ bounds \in Bound
  BY DEF SearchInv, SearchTypes
<1>4. /\ bounds' = bounds /\ source' = source /\ dst' = dst
      /\ out' = IF Len(hops) <= bounds.maxRelayCount THEN Append(out, p) ELSE out
  BY DEF Reach, inputVars
<1> HIDE DEF p
<1>5. Len(out) \in Nat /\ DOMAIN out = 1 .. Len(out)
  BY <1>3, LenProperties
<1>6. SearchTypes' /\ Leaves' /\ Stack'
  <2>1. out' \in Seq(Seq(Link))
    BY <1>2, <1>3, <1>4, AppendProperties
  <2> QED BY <2>1, AdvanceKeeps DEF Reach
<1>7. CASE out' = out
  BY <1>4, <1>6, <1>7 DEF SearchInv, SearchSound
<1>8. CASE out' = Append(out, p) /\ Len(hops) <= bounds.maxRelayCount
  <2>1. /\ Len(out') = Len(out) + 1 /\ DOMAIN out' = 1 .. Len(out')
        /\ \A i \in 1 .. Len(out) : out'[i] = out[i]
        /\ out'[Len(out) + 1] = p
    BY <1>2, <1>3, <1>8, AppendProperties, LenProperties
  <2>2. LoopFree(p, source, dst)
    BY <1>1, <1>2, WalkIsLoopFree
  <2>3. Len(p) <= bounds.maxPathDepth /\ Len(p) <= bounds.maxRelayCount + 1
    BY <1>1, <1>2, <1>3, <1>8, LoopingFacts, BoundsNat
  <2>4. Len(out') <= bounds.maxCandidates
    BY <1>1, <1>3, <1>5, <2>1, BoundsNat DEF Looping
  <2>5. \A i \in DOMAIN out' : i = Len(out) + 1 \/ i \in DOMAIN out
    BY <1>5, <2>1
  <2>6. ASSUME NEW i \in DOMAIN out'
        PROVE  /\ LoopFree(out'[i], source, dst)
               /\ Len(out'[i]) <= bounds.maxPathDepth
               /\ Len(out'[i]) <= bounds.maxRelayCount + 1
    BY <1>5, <2>1, <2>2, <2>3, <2>5 DEF SearchInv, SearchSound
  <2>7. SearchSound'
    BY <1>4, <2>4, <2>6 DEF SearchSound, LoopFree
  <2> QED BY <1>6, <2>7 DEF SearchInv
<1> QED BY <1>4, <1>7, <1>8

LEMMA DescendPreserves ==
  ASSUME SearchInv, Descend
  PROVE  SearchInv'
<1> DEFINE l == Head(Top)
           next == Entered(To[l], Append(hops, l), out)
<1>1. Looping /\ To[l] \notin visited
  BY DEF Descend
<1>2. /\ bounds' = bounds /\ adj' = adj /\ source' = source /\ dst' = dst /\ out' = out
      /\ hops' = Append(hops, l) /\ visited' = visited \cup {To[l]}
      /\ rest' = Append(Advanced, next)
  BY DEF Descend, inputVars
<1>3. l \in Link /\ To[l] \in Endpoint
  BY <1>1, LoopingFacts, TopologyAssumption
<1>4. /\ hops' \in Seq(Link) /\ Walk(hops', source) /\ Len(hops') = Len(hops) + 1
      /\ \A i \in 1 .. Len(hops) : hops'[i] = hops[i]
      /\ hops'[Len(hops) + 1] = l
  BY <1>1, <1>2, FreshLinkExtends
<1>5. /\ next \in Seq(Link) /\ \A k \in 1 .. Len(next) : From[next[k]] = To[l]
      /\ next # <<>> => Len(hops') + 1 <= bounds.maxPathDepth
  <2>1. next = <<>> \/ (next = adj[To[l]] /\ Len(hops') < bounds.maxPathDepth)
    BY <1>2, <1>4, BoundsNat, LenProperties DEF Entered, SearchInv, SearchTypes
  <2>2. Len(hops') \in Nat
    BY <1>4, LenProperties
  <2> HIDE DEF next
  <2> QED BY <1>3, <2>1, <2>2, EnteredFacts
<1> HIDE DEF l, next
<1>6. /\ Advanced \in Seq(Seq(Link)) /\ Len(Advanced) = Len(rest) /\ Len(rest) = Len(hops) + 1
      /\ Len(hops) \in Nat
      /\ \A i \in 1 .. Len(Advanced) :
           /\ Advanced[i] # <<>> => i <= bounds.maxPathDepth
           /\ \A k \in 1 .. Len(Advanced[i]) : From[Advanced[i][k]] = Node(i)
  BY <1>1, LoopingFacts
<1>7. /\ rest' \in Seq(Seq(Link)) /\ rest' # <<>> /\ Len(rest') = Len(rest) + 1
      /\ \A i \in 1 .. Len(rest) : rest'[i] = Advanced[i]
      /\ rest'[Len(rest) + 1] = next
  <2>1. /\ Append(Advanced, next) \in Seq(Seq(Link)) /\ Append(Advanced, next) # <<>>
        /\ Len(Append(Advanced, next)) = Len(Advanced) + 1
        /\ \A i \in 1 .. Len(Advanced) : Append(Advanced, next)[i] = Advanced[i]
        /\ Append(Advanced, next)[Len(Advanced) + 1] = next
    <3>1. next \in Seq(Link) /\ Advanced \in Seq(Seq(Link))
      BY <1>5, <1>6
    <3> HIDE DEF Advanced
    <3> QED BY <3>1, AppendProperties
  <2> QED BY <1>2, <1>6, <2>1
<1>8. SearchTypes'
  BY <1>2, <1>4, <1>7 DEF SearchInv, SearchTypes
<1>9. Leaves'
  <2>1. \A i : i = Len(rest) + 1 => Node(i)' = To[l]
    BY <1>4, <1>6 DEF Node
  <2>2. \A i \in 1 .. Len(rest) : Node(i)' = Node(i)
    BY <1>2, <1>4, <1>6 DEF Node
  <2>3. ASSUME NEW i \in 1 .. Len(rest')
        PROVE  \A k \in 1 .. Len(rest'[i]) : From[rest'[i][k]] = Node(i)'
    <3>1. CASE i \in 1 .. Len(rest)
      BY <1>6, <1>7, <2>2, <3>1
    <3>2. CASE i = Len(rest) + 1
      BY <1>5, <1>7, <2>1, <3>2
    <3> QED BY <1>6, <1>7, <3>1, <3>2
  <2> QED BY <1>2, <2>3 DEF SearchInv, Leaves
<1>10. Stack'
  <2>1. visited' = {source} \cup {To[hops'[i]] : i \in 1 .. Len(hops')}
    <3>1. visited = {source} \cup {To[hops[i]] : i \in 1 .. Len(hops)}
      BY DEF SearchInv, Stack
    <3>2. {To[hops'[i]] : i \in 1 .. Len(hops')} =
            {To[hops[i]] : i \in 1 .. Len(hops)} \cup {To[l]}
      <4>1. 1 .. Len(hops') = 1 .. Len(hops) \cup {Len(hops) + 1}
        BY <1>4, <1>6
      <4> QED BY <1>4, <4>1
    <3> QED BY <1>2, <3>1, <3>2
  <2>2. ASSUME NEW i \in 1 .. Len(rest'), rest'[i] # <<>>
        PROVE  i <= bounds.maxPathDepth
    <3>1. CASE i \in 1 .. Len(rest)
      BY <1>6, <1>7, <2>2, <3>1
    <3>2. CASE i = Len(rest) + 1
      BY <1>4, <1>5, <1>6, <1>7, <2>2, <3>2
    <3> QED BY <1>6, <1>7, <3>1, <3>2
  <2>3. Len(rest') = Len(hops') + 1
    BY <1>4, <1>6, <1>7
  <2> QED BY <1>2, <1>4, <1>7, <2>1, <2>2, <2>3 DEF Stack, Walk
<1>11. SearchSound'
  BY <1>2 DEF SearchInv, SearchSound, LoopFree
<1> QED BY <1>8, <1>9, <1>10, <1>11 DEF SearchInv

\* A sequence without its last element.
LEMMA FrontFacts ==
  ASSUME NEW S, NEW s \in Seq(S), s # <<>>
  PROVE  /\ SubSeq(s, 1, Len(s) - 1) \in Seq(S)
         /\ Len(SubSeq(s, 1, Len(s) - 1)) = Len(s) - 1
         /\ \A i \in 1 .. Len(s) - 1 : SubSeq(s, 1, Len(s) - 1)[i] = s[i]
<1>1. Len(s) \in Nat \ {0} /\ \A i \in 1 .. Len(s) - 1 : s[i] \in S
  BY LenProperties, ElementOfSeq, EmptySeq
<1> DEFINE m == Len(s) - 1
<1>2. m \in Nat
  BY <1>1
<1> HIDE DEF m
<1>3. /\ SubSeq(s, 1, m) \in Seq(S)
      /\ Len(SubSeq(s, 1, m)) = IF 1 <= m THEN m - 1 + 1 ELSE 0
      /\ \A i \in 1 .. m - 1 + 1 : SubSeq(s, 1, m)[i] = s[1 + i - 1]
  <2>1. 1 \in Int /\ m \in Int /\ \A i \in 1 .. m : s[i] \in S
    BY <1>1, <1>2 DEF m
  <2> QED BY <2>1, SubSeqProperties
<1>4. Len(SubSeq(s, 1, m)) = m /\ \A i \in 1 .. m : SubSeq(s, 1, m)[i] = s[i]
  BY <1>2, <1>3
<1> QED BY <1>3, <1>4 DEF m

\* The caller unmarks the endpoint the call was for: what stays marked is the rest
\* of the path, since no endpoint is on it twice.
LEMMA ReturnPreserves ==
  ASSUME SearchInv, Return
  PROVE  SearchInv'
<1>1. /\ bounds' = bounds /\ adj' = adj /\ source' = source /\ dst' = dst /\ out' = out
      /\ rest' = SubSeq(rest, 1, Len(rest) - 1)
      /\ hops' = IF hops = <<>> THEN hops ELSE SubSeq(hops, 1, Len(hops) - 1)
      /\ visited' = IF hops = <<>> THEN visited ELSE visited \ {Cur}
  BY DEF Return, inputVars
<1>2. rest \in Seq(Seq(Link)) /\ hops \in Seq(Link) /\ rest # <<>>
  BY DEF SearchInv, SearchTypes, Return
<1>3. /\ rest' \in Seq(Seq(Link)) /\ Len(rest') = Len(rest) - 1
      /\ \A i \in 1 .. Len(rest) - 1 : rest'[i] = rest[i]
  BY <1>1, <1>2, FrontFacts
<1>4. Len(rest) = Len(hops) + 1 /\ Len(hops) \in Nat /\ (hops = <<>> <=> Len(hops) = 0)
  BY <1>2, LenProperties, EmptySeq DEF SearchInv, Stack
<1>5. SearchSound'
  BY <1>1 DEF SearchInv, SearchSound, LoopFree
<1>6. \A i \in 1 .. Len(rest') : rest'[i] # <<>> => i <= bounds'.maxPathDepth
  BY <1>1, <1>3, <1>4 DEF SearchInv, Stack
<1>7. CASE hops = <<>>
  <2>1. hops' = hops /\ visited' = visited /\ Len(rest') = 0 /\ rest' = <<>>
    BY <1>1, <1>3, <1>4, <1>7, EmptySeq
  <2>2. SearchTypes'
    BY <1>1, <1>3, <2>1 DEF SearchInv, SearchTypes
  <2>3. Leaves'
    BY <1>1, <2>1 DEF SearchInv, Leaves
  <2>4. Stack'
    BY <1>1, <1>6, <1>7, <2>1 DEF SearchInv, Stack, Walk
  <2> QED BY <1>5, <2>2, <2>3, <2>4 DEF SearchInv
<1>8. CASE hops # <<>>
  <2>1. /\ hops' \in Seq(Link) /\ Len(hops') = Len(hops) - 1
        /\ \A i \in 1 .. Len(hops) - 1 : hops'[i] = hops[i]
    BY <1>1, <1>2, <1>8, FrontFacts
  <2>2. SearchTypes'
    BY <1>1, <1>3, <2>1 DEF SearchInv, SearchTypes
  <2>3. Leaves'
    <3>1. \A i \in 1 .. Len(rest) - 1 : Node(i)' = Node(i)
      BY <1>1, <1>4, <2>1 DEF Node
    <3> QED BY <1>1, <1>3, <1>4, <3>1 DEF SearchInv, Leaves
  <2>4. Walk(hops', source)
    <3>1. \A i \in 1 .. Len(hops') : i \in 1 .. Len(hops) /\ (i = 1 \/ i - 1 \in 1 .. Len(hops'))
      BY <1>4, <2>1
    <3>2. Walk(hops, source)
      BY DEF SearchInv, Stack
    <3>3. \A i \in 1 .. Len(hops') : hops'[i] = hops[i]
      BY <1>4, <2>1
    <3> SUFFICES ASSUME NEW i \in 1 .. Len(hops')
                 PROVE  /\ To[hops'[i]] # source
                        /\ From[hops'[i]] = IF i = 1 THEN source ELSE To[hops'[i - 1]]
                        /\ \A j \in 1 .. Len(hops') : To[hops'[i]] = To[hops'[j]] => i = j
      BY DEF Walk
    <3>4. /\ To[hops[i]] # source
          /\ From[hops[i]] = IF i = 1 THEN source ELSE To[hops[i - 1]]
          /\ \A j \in 1 .. Len(hops') : To[hops[i]] = To[hops[j]] => i = j
      BY <3>1, <3>2 DEF Walk
    <3> QED BY <3>1, <3>3, <3>4
  <2>5. visited' = {source} \cup {To[hops'[i]] : i \in 1 .. Len(hops')}
    <3>1. Cur = To[hops[Len(hops)]] /\ Len(hops) \in 1 .. Len(hops)
      BY <1>4, <1>8 DEF Cur
    <3>2. 1 .. Len(hops) = 1 .. Len(hops') \cup {Len(hops)} /\ Len(hops) \notin 1 .. Len(hops')
      BY <1>4, <1>8, <2>1
    <3>3. /\ Cur # source
          /\ \A i \in 1 .. Len(hops') : To[hops[i]] # Cur
      BY <3>1, <3>2 DEF SearchInv, Stack, Walk
    <3>4. {To[hops[i]] : i \in 1 .. Len(hops)} = {To[hops'[i]] : i \in 1 .. Len(hops')} \cup {Cur}
      BY <2>1, <3>1, <3>2
    <3>5. \A i \in 1 .. Len(hops') : To[hops'[i]] # Cur
      BY <2>1, <3>3
    <3>6. visited = {source} \cup {To[hops[i]] : i \in 1 .. Len(hops)}
      BY DEF SearchInv, Stack
    <3>7. visited' = visited \ {Cur}
      BY <1>1, <1>8
    <3> QED BY <3>3, <3>4, <3>5, <3>6, <3>7
  <2>6. Len(rest') = Len(hops') + 1 /\ rest' # <<>>
    BY <1>3, <1>4, <1>8, <2>1, EmptySeq
  <2>7. Stack'
    BY <1>1, <1>6, <2>4, <2>5, <2>6 DEF Stack, Walk
  <2> QED BY <1>5, <2>2, <2>3, <2>7 DEF SearchInv
<1> QED BY <1>7, <1>8

-----------------------------------------------------------------------------
LEMMA SearchInvInit ==
  ASSUME SearchInit
  PROVE  SearchInv
<1>1. hops = <<>> /\ rest = <<>> /\ out = <<>> /\ visited = {source}
  BY DEF SearchInit
<1>2. SearchTypes
  BY <1>1 DEF SearchInit, SearchTypes
<1>3. \A e \in Endpoint : DOMAIN adj[e] = 1 .. Len(adj[e])
  BY <1>2, LenProperties DEF SearchTypes
<1>4. Leaves
  BY <1>1, <1>3 DEF SearchInit, Leaves
<1>5. Stack
  BY <1>1 DEF Stack, Walk
<1>6. SearchSound
  BY <1>1, <1>2, BoundsNat DEF SearchSound, SearchTypes
<1> QED BY <1>2, <1>4, <1>5, <1>6 DEF SearchInv

LEMMA SearchInvNext ==
  ASSUME SearchInv, [SearchNext]_<<inputVars, searchVars>>
  PROVE  SearchInv'
<1>1. CASE SearchStep
  BY <1>1, SkipVisitedPreserves, ReachPreserves, DescendPreserves, ReturnPreserves
     DEF SearchStep
<1>2. ASSUME NEW s \in Endpoint, NEW d \in Endpoint, Begin(s, d) PROVE SearchInv'
  BY <1>2, BeginPreserves
<1>3. CASE UNCHANGED <<inputVars, searchVars>>
  BY <1>3 DEF inputVars, searchVars, SearchInv, SearchTypes, Leaves, Node, Stack, Walk,
              SearchSound, LoopFree
<1> QED BY <1>1, <1>2, <1>3 DEF SearchNext

\* Whatever graph, order of links and bounds enumerateCandidatePaths is given, what
\* it returns are loop-free paths between its arguments within the depth and the
\* relay bound, and no more of them than maxCandidates.
THEOREM SearchIsSound == SearchSpec => []SearchSound
<1>1. SearchInit => SearchInv
  BY SearchInvInit
<1>2. SearchInv /\ [SearchNext]_<<inputVars, searchVars>> => SearchInv'
  BY SearchInvNext
<1>3. SearchInv => SearchSound
  BY DEF SearchInv
<1> QED BY <1>1, <1>2, <1>3, PTL DEF SearchSpec

-----------------------------------------------------------------------------
\* A link that enumerateCandidatePaths was given.
Listed(l) == \E k \in 1 .. Len(adj[From[l]]) : adj[From[l]][k] = l

\* The paths a search is for.
Wanted(p) ==
  /\ LoopFree(p, source, dst)
  /\ \A i \in 1 .. Len(p) : Listed(p[i])
  /\ Len(p) <= bounds.maxPathDepth /\ Len(p) <= bounds.maxRelayCount + 1

Found(p) == \E i \in 1 .. Len(out) : out[i] = p

\* The i-th active call has p still to come: p goes the way of the call, and its
\* next link is one the loop has not looked at.
PendingAt(p, i) ==
  /\ i <= Len(p)
  /\ \A j \in 1 .. i - 1 : p[j] = hops[j]
  /\ \E k \in 1 .. Len(rest[i]) : rest[i][k] = p[i]
Pending(p) == \E i \in 1 .. Len(rest) : PendingAt(p, i)

InOrder(list) == \A j, k \in 1 .. Len(list) : j < k => Ahead(list[j], list[k])
ListedInOrder == \A e \in Endpoint : InOrder(adj[e])

\* p was given up: there are enough candidates, all of them earlier.
CutOff(p) ==
  /\ Len(out) >= bounds.maxCandidates
  /\ ListedInOrder => \A f \in Seq(Link) : Found(f) => Earlier(f, p)

\* The inductive invariants.  What is wanted is found, still to come, or cut off.
NothingLost ==
  rest # <<>> =>
    \A p \in Seq(Link) : Wanted(p) => Found(p) \/ Pending(p) \/ CutOff(p)

\* What is still to come is later than what was found, since every call takes its
\* links in order.
DepthFirst ==
  /\ \A i \in 1 .. Len(rest) : InOrder(rest[i])
  /\ \A i \in 1 .. Len(hops) : \A k \in 1 .. Len(rest[i]) : Ahead(hops[i], rest[i][k])
  /\ \A f, p \in Seq(Link) : Found(f) /\ Pending(p) => Earlier(f, p)
  /\ \A i, j \in 1 .. Len(out) : i < j => Earlier(out[i], out[j])

\* What a step of the search keeps of its arguments.
LEMMA WantedKept ==
  ASSUME UNCHANGED <<inputVars, source, dst>>, NEW p
  PROVE  Wanted(p)' <=> Wanted(p)
  BY DEF inputVars, Wanted, Listed, LoopFree

\* The stack once the next link has been taken: the innermost loop has lost its
\* first link.
LEMMA AdvancedList ==
  ASSUME SearchInv, Looping
  PROVE  /\ Len(rest) \in 1 .. Len(rest) /\ Len(rest) = Len(hops) + 1 /\ Len(hops) \in Nat
         /\ Len(Advanced) = Len(rest)
         /\ \A i \in 1 .. Len(rest) : i # Len(rest) => Advanced[i] = rest[i]
         /\ Len(Top) \in Nat \ {0} /\ Top[1] = Head(Top)
         /\ Len(Advanced[Len(rest)]) = Len(Top) - 1
         /\ \A k \in 1 .. Len(Top) - 1 : Advanced[Len(rest)][k] = Top[k + 1]
<1>1. rest \in Seq(Seq(Link)) /\ hops \in Seq(Link) /\ rest # <<>> /\ Top # <<>>
  BY DEF SearchInv, SearchTypes, Looping
<1>2. /\ Len(rest) = Len(hops) + 1 /\ Len(hops) \in Nat
      /\ Len(rest) \in 1 .. Len(rest)
  BY <1>1, LenProperties DEF SearchInv, Stack
<1>3. Top \in Seq(Link)
  BY <1>1, <1>2, ElementOfSeq DEF Top
<1>4. /\ Tail(Top) \in Seq(Link)
      /\ Len(Tail(Top)) = Len(Top) - 1 /\ Len(Top) \in Nat \ {0}
      /\ \A k \in 1 .. Len(Tail(Top)) : Tail(Top)[k] = Top[k + 1]
      /\ Head(Top) = Top[1]
  BY <1>1, <1>3, HeadTailProperties, LenProperties, EmptySeq
<1>5. /\ Len(Advanced) = Len(rest)
      /\ \A i \in 1 .. Len(rest) :
           Advanced[i] = IF i = Len(rest) THEN Tail(Top) ELSE rest[i]
  BY <1>1, <1>2, <1>4, ExceptSeq DEF Advanced, Top
<1> QED BY <1>2, <1>4, <1>5

\* p goes the way of the innermost call and on with the link its loop takes next.
Taken(p) ==
  /\ Len(rest) <= Len(p) /\ p[Len(rest)] = Head(Top)
  /\ \A j \in 1 .. Len(hops) : p[j] = hops[j]

\* Of what is to come, a turn of the loop takes what goes on with its link.
LEMMA AdvanceTakes ==
  ASSUME SearchInv, Looping, NEW p,
         \A i \in 1 .. Len(rest) : rest'[i] = Advanced[i],
         \A j \in 1 .. Len(hops) : hops'[j] = hops[j]
  PROVE  /\ \A i \in 1 .. Len(rest) : /\ PendingAt(p, i)' => PendingAt(p, i)
                                      /\ PendingAt(p, i) => PendingAt(p, i)' \/ Taken(p)
         /\ Taken(p) => Pending(p)
<1> DEFINE n == Len(rest)
<1>0. /\ n \in 1 .. n /\ n = Len(hops) + 1 /\ Len(hops) \in Nat
      /\ \A i \in 1 .. n : i # n => rest'[i] = rest[i]
      /\ Len(Top) \in Nat \ {0} /\ Top[1] = Head(Top) /\ Top = rest[n]
      /\ Len(rest'[n]) = Len(Top) - 1
      /\ \A k \in 1 .. Len(Top) - 1 : rest'[n][k] = Top[k + 1]
  BY AdvancedList DEF Top
<1> HIDE DEF n
<1>1. ASSUME NEW i \in 1 .. n, PendingAt(p, i)'
      PROVE  PendingAt(p, i)
  <2>1. /\ i <= Len(p) /\ \A j \in 1 .. i - 1 : p[j] = hops'[j]
        /\ \E k \in 1 .. Len(rest'[i]) : rest'[i][k] = p[i]
    BY <1>1 DEF PendingAt
  <2>2. \A j \in 1 .. i - 1 : j \in 1 .. Len(hops)
    BY <1>0
  <2>3. CASE i # n
    BY <1>0, <2>1, <2>2, <2>3 DEF PendingAt
  <2>4. CASE i = n
    <3>1. PICK k \in 1 .. Len(Top) - 1 : Top[k + 1] = p[n]
      BY <1>0, <2>1, <2>4
    <3>2. k + 1 \in 1 .. Len(rest[n]) /\ rest[n][k + 1] = p[n]
      BY <1>0, <3>1
    <3> QED BY <2>1, <2>2, <2>4, <3>2 DEF PendingAt
  <2> QED BY <2>3, <2>4
<1>2. ASSUME NEW i \in 1 .. n, PendingAt(p, i)
      PROVE  PendingAt(p, i)' \/ Taken(p)
  <2>1. /\ i <= Len(p) /\ \A j \in 1 .. i - 1 : p[j] = hops[j]
        /\ \E k \in 1 .. Len(rest[i]) : rest[i][k] = p[i]
    BY <1>2 DEF PendingAt
  <2>2. \A j \in 1 .. i - 1 : p[j] = hops'[j]
    BY <1>0, <2>1
  <2>3. CASE i # n
    BY <1>0, <2>1, <2>2, <2>3 DEF PendingAt
  <2>4. CASE i = n
    <3>1. PICK k \in 1 .. Len(Top) : Top[k] = p[n]
      BY <1>0, <2>1, <2>4
    <3>2. CASE k = 1
      <4>1. \A j \in 1 .. Len(hops) : j \in 1 .. i - 1
        BY <1>0, <2>4
      <4> QED BY <1>0, <2>1, <2>4, <3>1, <3>2, <4>1 DEF Taken, n
    <3>3. CASE k # 1
      <4>1. k - 1 \in 1 .. Len(rest'[n]) /\ rest'[n][k - 1] = Top[k]
        BY <1>0, <3>1, <3>3
      <4> QED BY <2>1, <2>2, <2>4, <3>1, <4>1 DEF PendingAt
    <3> QED BY <3>2, <3>3
  <2> QED BY <2>3, <2>4
<1>3. ASSUME Taken(p)
      PROVE  Pending(p)
  <2>1. 1 \in 1 .. Len(rest[n]) /\ rest[n][1] = Head(Top)
    BY <1>0
  <2>2. PendingAt(p, n)
    BY <1>0, <1>3, <2>1 DEF PendingAt, Taken, n
  <2> QED BY <1>0, <2>2 DEF Pending, n
<1> QED BY <1>1, <1>2, <1>3 DEF n

\* A path that is taken goes to an endpoint not yet visited, and ends there exactly
\* if that is the destination.
LEMMA TakenPath ==
  ASSUME SearchInv, Looping, NEW p \in Seq(Link), LoopFree(p, source, dst), Taken(p)
  PROVE  /\ To[Head(Top)] \notin visited
         /\ To[Head(Top)] = dst => p = Append(hops, Head(Top)) /\ Len(p) = Len(hops) + 1
         /\ To[Head(Top)] # dst => Len(rest) + 1 \in 1 .. Len(p)
<1> DEFINE n == Len(rest)
<1>1. /\ n = Len(hops) + 1 /\ Len(hops) \in Nat /\ Len(p) \in Nat
      /\ n \in 1 .. Len(p) /\ DOMAIN p = 1 .. Len(p)
  BY AdvancedList, LenProperties DEF Taken
<1>2. /\ p[n] = Head(Top) /\ \A j \in 1 .. Len(hops) : p[j] = hops[j]
  BY DEF Taken
<1>3. /\ To[p[Len(p)]] = dst /\ \A i \in 1 .. Len(p) : To[p[i]] # source
      /\ \A i, j \in 1 .. Len(p) : To[p[i]] = To[p[j]] => i = j
  BY <1>1 DEF LoopFree
<1> HIDE DEF n
<1>4. ASSUME NEW j \in 1 .. Len(hops)
      PROVE  To[Head(Top)] # To[hops[j]]
  <2>1. j \in 1 .. Len(p) /\ j # n
    BY <1>1
  <2> QED BY <1>1, <1>2, <1>3, <2>1
<1>5. To[Head(Top)] \notin visited
  BY <1>1, <1>2, <1>3, <1>4 DEF SearchInv, Stack
<1>6. ASSUME To[Head(Top)] = dst
      PROVE  p = Append(hops, Head(Top)) /\ Len(p) = Len(hops) + 1
  <2> DEFINE q == Append(hops, Head(Top))
  <2>1. n = Len(p)
    <3>1. Len(p) \in 1 .. Len(p)
      BY <1>1
    <3>2. To[p[n]] = To[p[Len(p)]]
      BY <1>2, <1>3, <1>6
    <3> QED BY <1>1, <1>3, <3>1, <3>2
  <2>2. /\ q \in Seq(Link) /\ Len(q) = Len(hops) + 1
        /\ \A i \in 1 .. Len(hops) : q[i] = hops[i]
        /\ q[Len(hops) + 1] = Head(Top)
    BY <1>5, FreshLinkExtends
  <2>3. Len(q) = Len(p)
    BY <1>1, <2>1, <2>2
  <2>4. \A i \in 1 .. Len(p) : p[i] = q[i]
    BY <1>1, <1>2, <2>1, <2>2
  <2> HIDE DEF q
  <2>5. p = q
    BY <2>2, <2>3, <2>4, SeqEqual
  <2> QED BY <1>1, <2>1, <2>5 DEF q
<1>7. ASSUME To[Head(Top)] # dst
      PROVE  n + 1 \in 1 .. Len(p)
  BY <1>1, <1>2, <1>3, <1>7
<1> QED BY <1>5, <1>6, <1>7 DEF n

-----------------------------------------------------------------------------
\* What is taken is dropped only if it does not go on to a new endpoint.
LEMMA SkipLosesNothing ==
  ASSUME SearchInv, SkipVisited, NEW p \in Seq(Link), Wanted(p), Found(p) \/ Pending(p)
  PROVE  Found(p)' \/ Pending(p)'
<1>1. /\ Looping /\ To[Head(Top)] \in visited /\ rest' = Advanced
      /\ hops' = hops /\ out' = out
  BY DEF SkipVisited
<1>2. CASE Found(p)
  BY <1>1, <1>2 DEF Found
<1>3. CASE Pending(p)
  <2>1. PICK i \in 1 .. Len(rest) : PendingAt(p, i)
    BY <1>3 DEF Pending
  <2>2. ~Taken(p)
    BY <1>1, TakenPath DEF Wanted
  <2>3. PendingAt(p, i)'
    BY <1>1, <2>1, <2>2, AdvanceTakes
  <2>4. Len(rest') = Len(rest)
    BY <1>1, AdvancedList
  <2> QED BY <2>3, <2>4 DEF Pending
<1> QED BY <1>2, <1>3

\* A link to the destination completes the path it takes.
LEMMA ReachLosesNothing ==
  ASSUME SearchInv, Reach, NEW p \in Seq(Link), Wanted(p), Found(p) \/ Pending(p)
  PROVE  Found(p)' \/ Pending(p)'
<1> DEFINE q == Append(hops, Head(Top))
<1>1. /\ Looping /\ To[Head(Top)] = dst /\ To[Head(Top)] \notin visited
      /\ rest' = Advanced /\ hops' = hops
      /\ out' = IF Len(hops) <= bounds.maxRelayCount THEN Append(out, q) ELSE out
  BY DEF Reach
<1>2. q \in Seq(Link) /\ out \in Seq(Seq(Link)) /\ Len(hops) \in Nat
  BY <1>1, FreshLinkExtends, AdvancedList DEF SearchInv, SearchTypes
<1> HIDE DEF q
<1>3. /\ Len(Append(out, q)) = Len(out) + 1 /\ Len(out) \in Nat
      /\ \A i \in 1 .. Len(out) : Append(out, q)[i] = out[i]
      /\ Append(out, q)[Len(out) + 1] = q
  BY <1>2, AppendProperties, LenProperties
<1>4. CASE Found(p)
  <2>1. PICK i \in 1 .. Len(out) : out[i] = p
    BY <1>4 DEF Found
  <2>2. i \in 1 .. Len(out') /\ out'[i] = p
    BY <1>1, <1>3, <2>1
  <2> QED BY <2>2 DEF Found
<1>5. CASE Pending(p)
  <2>1. PICK i \in 1 .. Len(rest) : PendingAt(p, i)
    BY <1>5 DEF Pending
  <2>2. PendingAt(p, i)' \/ Taken(p)
    BY <1>1, <2>1, AdvanceTakes
  <2>3. CASE PendingAt(p, i)'
    <3>1. Len(rest') = Len(rest)
      BY <1>1, AdvancedList
    <3> QED BY <2>3, <3>1 DEF Pending
  <2>4. CASE Taken(p)
    <3>1. p = q /\ Len(p) = Len(hops) + 1
      BY <1>1, <2>4, TakenPath DEF Wanted, q
    <3>2. Len(hops) <= bounds.maxRelayCount
      BY <1>2, <3>1, BoundsNat DEF Wanted, SearchInv, SearchTypes
    <3>3. Len(out) + 1 \in 1 .. Len(out') /\ out'[Len(out) + 1] = p
      BY <1>1, <1>3, <3>1, <3>2
    <3> QED BY <3>3 DEF Found
  <2> QED BY <2>2, <2>3, <2>4
<1> QED BY <1>4, <1>5

\* The call for an endpoint starts with every link that a path can go on with.
LEMMA DescendOpens ==
  ASSUME SearchInv, Descend
  PROVE  /\ Len(rest) \in 1 .. Len(rest) /\ Len(rest) = Len(hops) + 1 /\ Len(hops) \in Nat
         /\ Len(hops') = Len(rest) /\ \A j \in 1 .. Len(hops) : hops'[j] = hops[j]
         /\ hops'[Len(rest)] = Head(Top) /\ To[Head(Top)] \in Endpoint
         /\ Len(rest') = Len(rest) + 1 /\ \A i \in 1 .. Len(rest) : rest'[i] = Advanced[i]
         /\ rest'[Len(rest) + 1] = Entered(To[Head(Top)], Append(hops, Head(Top)), out)
<1> DEFINE l == Head(Top)
           n == Len(rest)
           next == Entered(To[l], Append(hops, l), out)
<1>1. /\ Looping /\ To[l] \notin visited
      /\ rest' = Append(Advanced, next) /\ hops' = Append(hops, l)
  BY DEF Descend
<1>2. /\ n \in 1 .. n /\ n = Len(hops) + 1 /\ Len(hops) \in Nat /\ Len(Advanced) = n
  BY <1>1, AdvancedList
<1>3. /\ Len(hops') = n /\ \A j \in 1 .. Len(hops) : hops'[j] = hops[j]
      /\ hops'[n] = l
  BY <1>1, <1>2, FreshLinkExtends
<1>4. To[l] \in Endpoint
  BY <1>1, LoopingFacts, TopologyAssumption
<1>5. next \in Seq(Link) /\ Advanced \in Seq(Seq(Link))
  <2>1. adj[To[l]] \in Seq(Link) /\ <<>> \in Seq(Link)
    BY <1>4 DEF SearchInv, SearchTypes
  <2>2. next = <<>> \/ next = adj[To[l]]
    BY DEF Entered
  <2> HIDE DEF next
  <2> QED BY <1>1, <2>1, <2>2, LoopingFacts
<1>6. /\ Len(rest') = n + 1 /\ \A i \in 1 .. n : rest'[i] = Advanced[i]
      /\ rest'[n + 1] = next
  <2> HIDE DEF next, Advanced
  <2>1. /\ Len(Append(Advanced, next)) = Len(Advanced) + 1
        /\ \A i \in 1 .. Len(Advanced) : Append(Advanced, next)[i] = Advanced[i]
        /\ Append(Advanced, next)[Len(Advanced) + 1] = next
    BY <1>5, AppendProperties
  <2> HIDE DEF l, n
  <2> QED BY <1>1, <1>2, <2>1
<1> QED BY <1>2, <1>3, <1>4, <1>6

\* What was to come through the link that is taken is to come in the new call.
LEMMA DescendLosesNothing ==
  ASSUME SearchInv, Descend, NEW p \in Seq(Link), Wanted(p), Found(p) \/ Pending(p)
  PROVE  Found(p)' \/ Pending(p)'
<1> DEFINE l == Head(Top)
           n == Len(rest)
           next == Entered(To[l], Append(hops, l), out)
<1>1. /\ Looping /\ To[l] # dst /\ To[l] \notin visited /\ Len(out) < bounds.maxCandidates
      /\ rest' = Append(Advanced, next) /\ hops' = Append(hops, l) /\ out' = out
  BY DEF Descend, Looping
<1>2. /\ n \in 1 .. n /\ n = Len(hops) + 1 /\ Len(hops) \in Nat
  BY DescendOpens
<1>3. /\ Len(hops') = n /\ \A j \in 1 .. Len(hops) : hops'[j] = hops[j]
      /\ hops'[n] = l
  BY DescendOpens
<1>4. /\ Len(rest') = n + 1 /\ \A i \in 1 .. n : rest'[i] = Advanced[i]
      /\ rest'[n + 1] = next
  BY DescendOpens
<1> HIDE DEF n
<1>5. CASE Found(p)
  BY <1>1, <1>5 DEF Found
<1>6. CASE Pending(p)
  <2>1. PICK i \in 1 .. n : PendingAt(p, i)
    BY <1>6 DEF Pending, n
  <2>2. PendingAt(p, i)' \/ Taken(p)
    BY <1>1, <1>3, <1>4, <2>1, AdvanceTakes DEF n
  <2>3. CASE PendingAt(p, i)'
    <3>1. i \in 1 .. Len(rest')
      BY <1>2, <1>4
    <3> QED BY <2>3, <3>1 DEF Pending
  <2>4. CASE Taken(p)
    <3>1. n + 1 \in 1 .. Len(p) /\ Len(p) \in Nat
      BY <1>1, <2>4, TakenPath, LenProperties DEF Wanted, n
    <3>2. p[n] = l /\ \A j \in 1 .. Len(hops) : p[j] = hops[j]
      BY <2>4 DEF Taken, n
    <3>3. From[p[n + 1]] = To[l]
      <4>1. DOMAIN p = 1 .. Len(p) /\ n + 1 > 1 /\ (n + 1) - 1 = n
        BY <1>2, LenProperties
      <4> QED BY <3>1, <3>2, <4>1 DEF Wanted, LoopFree
    <3>4. PICK k \in 1 .. Len(adj[To[l]]) : adj[To[l]][k] = p[n + 1]
      BY <3>1, <3>3 DEF Wanted, Listed
    <3>5. next = adj[To[l]]
      <4>1. n < bounds.maxPathDepth /\ ~(Len(out) >= bounds.maxCandidates)
        <5>1. Len(out) \in Nat /\ bounds.maxPathDepth \in Nat /\ bounds.maxCandidates \in Nat
          BY BoundsNat, LenProperties DEF SearchInv, SearchTypes
        <5>2. Len(p) <= bounds.maxPathDepth
          BY DEF Wanted
        <5> QED BY <1>1, <1>2, <3>1, <5>1, <5>2
      <4>2. Len(Append(hops, l)) = n /\ bounds.maxPathDepth \in Nat
        BY <1>1, <1>2, FreshLinkExtends, BoundsNat DEF SearchInv, SearchTypes
      <4>3. ~(Len(Append(hops, l)) >= bounds.maxPathDepth)
        BY <1>2, <4>1, <4>2
      <4> QED BY <4>1, <4>3 DEF Entered
    <3>6. \A j \in 1 .. n : p[j] = hops'[j]
      BY <1>2, <1>3, <3>2
    <3>7. PICK m \in 1 .. Len(rest') : m = n + 1
      BY <1>2, <1>4
    <3>8. m <= Len(p) /\ m - 1 = n
      BY <1>2, <3>1, <3>7
    <3>9. \E j \in 1 .. Len(rest'[m]) : rest'[m][j] = p[m]
      BY <1>4, <3>4, <3>5, <3>7
    <3>10. PendingAt(p, m)'
      BY <3>6, <3>8, <3>9 DEF PendingAt
    <3> QED BY <3>10 DEF Pending
  <2> QED BY <2>2, <2>3, <2>4
<1> QED BY <1>5, <1>6

\* The calls that stay active have as much to come as before.
LEMMA ReturnKeeps ==
  ASSUME SearchInv, Return, NEW p
  PROVE  /\ Len(rest) \in Nat \ {0} /\ Len(rest') = Len(rest) - 1
         /\ \A i \in 1 .. Len(rest) - 1 : rest'[i] = rest[i]
         /\ Len(hops) \in Nat /\ Len(rest) = Len(hops) + 1
         /\ \A i \in 1 .. Len(hops) - 1 : hops'[i] = hops[i]
         /\ Len(hops') = IF Len(hops) = 0 THEN 0 ELSE Len(hops) - 1
         /\ \A i \in 1 .. Len(rest) - 1 : PendingAt(p, i)' <=> PendingAt(p, i)
<1>1. /\ rest \in Seq(Seq(Link)) /\ hops \in Seq(Link) /\ rest # <<>>
      /\ rest' = SubSeq(rest, 1, Len(rest) - 1)
      /\ hops' = IF hops = <<>> THEN hops ELSE SubSeq(hops, 1, Len(hops) - 1)
  BY DEF SearchInv, SearchTypes, Return
<1>2. /\ Len(rest') = Len(rest) - 1
      /\ \A i \in 1 .. Len(rest) - 1 : rest'[i] = rest[i]
  BY <1>1, FrontFacts
<1>3. /\ Len(rest) \in Nat \ {0} /\ Len(rest) = Len(hops) + 1 /\ Len(hops) \in Nat
      /\ hops = <<>> <=> Len(hops) = 0
  BY <1>1, LenProperties, EmptySeq DEF SearchInv, Stack
<1>4. /\ Len(hops') = IF Len(hops) = 0 THEN 0 ELSE Len(hops) - 1
      /\ \A i \in 1 .. Len(hops) - 1 : hops'[i] = hops[i]
  <2>1. CASE hops = <<>>
    BY <1>1, <1>3, <2>1
  <2>2. CASE hops # <<>>
    BY <1>1, <1>3, <2>2, FrontFacts
  <2> QED BY <2>1, <2>2
<1>5. ASSUME NEW i \in 1 .. Len(rest) - 1
      PROVE  PendingAt(p, i)' <=> PendingAt(p, i)
  <2>1. \A j \in 1 .. i - 1 : hops'[j] = hops[j]
    BY <1>3, <1>4
  <2>2. rest'[i] = rest[i]
    BY <1>2
  <2> QED BY <2>1, <2>2 DEF PendingAt
<1> QED BY <1>2, <1>3, <1>4, <1>5

\* A call that has looked at all its links has nothing more to come; one that
\* returns early gives up what is later than all that was found.
LEMMA ReturnLosesNothing ==
  ASSUME SearchInv, ListedInOrder => DepthFirst, Return,
         NEW p \in Seq(Link), Found(p) \/ Pending(p) \/ CutOff(p)
  PROVE  Found(p)' \/ Pending(p)' \/ CutOff(p)'
<1>1. /\ out' = out /\ bounds' = bounds /\ adj' = adj
      /\ Top = <<>> \/ Len(out) >= bounds.maxCandidates
  BY DEF Return, inputVars
<1>2. (\A f : Found(f)' <=> Found(f)) /\ (ListedInOrder' <=> ListedInOrder)
  BY <1>1 DEF Found, ListedInOrder, InOrder
<1>3. CASE Found(p)
  BY <1>2, <1>3
<1>4. CASE CutOff(p)
  BY <1>1, <1>2, <1>4 DEF CutOff
<1>5. CASE Pending(p) /\ Len(out) >= bounds.maxCandidates
  <2>1. ListedInOrder => \A f \in Seq(Link) : Found(f) => Earlier(f, p)
    BY <1>5 DEF DepthFirst
  <2>2. CutOff(p)
    BY <1>5, <2>1 DEF CutOff
  <2> QED BY <1>1, <1>2, <2>2 DEF CutOff
<1>6. CASE Pending(p) /\ Top = <<>>
  <2>1. PICK i \in 1 .. Len(rest) : PendingAt(p, i)
    BY <1>6 DEF Pending
  <2>2. i # Len(rest)
    BY <1>6, <2>1 DEF PendingAt, Top
  <2>3. i \in 1 .. Len(rest) - 1 /\ i \in 1 .. Len(rest')
    BY <2>2, ReturnKeeps
  <2>4. PendingAt(p, i)'
    BY <2>1, <2>3, ReturnKeeps
  <2> QED BY <2>3, <2>4 DEF Pending
<1> QED BY <1>1, <1>3, <1>4, <1>5, <1>6

\* A search starts with everything to come.
LEMMA BeginLosesNothing ==
  ASSUME SearchInv, NEW s \in Endpoint, NEW d \in Endpoint, Begin(s, d),
         0 < bounds.maxCandidates, NEW p \in Seq(Link), Wanted(p)'
  PROVE  Pending(p)'
<1>1. /\ bounds' = bounds /\ adj' = adj /\ source' = s /\ dst' = d
      /\ rest' = <<Entered(s, <<>>, <<>>)>>
  BY DEF Begin, inputVars
<1>2. /\ Len(p) \in Nat \ {0} /\ DOMAIN p = 1 .. Len(p)
      /\ From[p[1]] = s /\ Len(p) <= bounds.maxPathDepth
  BY <1>1, LenProperties, EmptySeq DEF Wanted, LoopFree
<1>3. PICK k \in 1 .. Len(adj[s]) : adj[s][k] = p[1]
  <2>1. 1 \in 1 .. Len(p)
    BY <1>2
  <2> QED BY <1>1, <1>2, <2>1 DEF Wanted, Listed
<1>4. Entered(s, <<>>, <<>>) = adj[s]
  <2>1. bounds.maxPathDepth \in Nat /\ bounds.maxCandidates \in Nat
    BY BoundsNat DEF SearchInv, SearchTypes
  <2>2. ~(0 >= bounds.maxCandidates) /\ ~(0 >= bounds.maxPathDepth) /\ Len(<<>>) = 0
    BY <1>2, <2>1
  <2> QED BY <2>2 DEF Entered
<1>5. Len(rest') = 1 /\ rest'[1] = adj[s]
  BY <1>1, <1>4
<1>6. PendingAt(p, 1)'
  BY <1>2, <1>3, <1>5 DEF PendingAt
<1> QED BY <1>5, <1>6 DEF Pending

\* Every step keeps what is wanted found, to come or cut off.
LEMMA NothingLostNext ==
  ASSUME SearchInv, ListedInOrder => DepthFirst, NothingLost,
         [SearchNext]_<<inputVars, searchVars>>
  PROVE  NothingLost'
<1> SUFFICES ASSUME rest' # <<>>, NEW p \in Seq(Link), Wanted(p)'
             PROVE  Found(p)' \/ Pending(p)' \/ CutOff(p)'
  BY DEF NothingLost
<1>1. CASE UNCHANGED <<inputVars, searchVars>>
  <2>1. /\ UNCHANGED <<inputVars, source, dst>> /\ bounds' = bounds /\ adj' = adj
        /\ hops' = hops /\ rest' = rest /\ out' = out
    BY <1>1 DEF inputVars, searchVars
  <2>2. Wanted(p)
    BY <2>1, WantedKept
  <2>3. Found(p) \/ Pending(p) \/ CutOff(p)
    BY <2>1, <2>2 DEF NothingLost
  <2>4. /\ \A f : Found(f)' <=> Found(f)
        /\ Pending(p)' <=> Pending(p)
        /\ ListedInOrder' <=> ListedInOrder
    BY <2>1 DEF Found, Pending, PendingAt, ListedInOrder, InOrder
  <2> QED BY <2>1, <2>3, <2>4 DEF CutOff
<1>2. CASE SearchStep
  <2>1. UNCHANGED <<inputVars, source, dst>> /\ rest # <<>>
    BY <1>2 DEF SearchStep, SkipVisited, Reach, Descend, Return, Looping
  <2>2. Wanted(p)
    BY <2>1, WantedKept
  <2>3. Found(p) \/ Pending(p) \/ CutOff(p)
    BY <2>1, <2>2 DEF NothingLost
  <2>4. CASE Return
    BY <2>3, <2>4, ReturnLosesNothing
  <2>5. CASE ~Return
    <3>1. ~CutOff(p)
      <4>1. Len(out) < bounds.maxCandidates
        BY <1>2, <2>5 DEF SearchStep, SkipVisited, Reach, Descend, Looping
      <4>2. Len(out) \in Nat /\ bounds.maxCandidates \in Nat
        BY BoundsNat, LenProperties DEF SearchInv, SearchTypes
      <4> QED BY <4>1, <4>2 DEF CutOff
    <3> QED BY <1>2, <2>2, <2>3, <2>5, <3>1, SkipLosesNothing, ReachLosesNothing,
               DescendLosesNothing DEF SearchStep
  <2> QED BY <2>4, <2>5
<1>3. ASSUME NEW s \in Endpoint, NEW d \in Endpoint, Begin(s, d)
      PROVE  Pending(p)' \/ CutOff(p)'
  <2>1. bounds' = bounds /\ Len(out') = 0 /\ bounds.maxCandidates \in Nat
    BY <1>3, BoundsNat DEF Begin, inputVars, SearchInv, SearchTypes
  <2>2. CASE 0 < bounds.maxCandidates
    BY <1>3, <2>2, BeginLosesNothing
  <2>3. CASE ~(0 < bounds.maxCandidates)
    BY <2>1, <2>3 DEF CutOff, Found
  <2> QED BY <2>2, <2>3
<1> QED BY <1>1, <1>2, <1>3 DEF SearchNext

\* When the outermost call returns, everything wanted was found or cut off.
SearchComplete ==
  [][ rest # <<>> /\ rest' = <<>> =>
        \A p \in Seq(Link) : Wanted(p) => Found(p)' \/ CutOff(p)' ]_<<inputVars, searchVars>>

LEMMA EndIsComplete ==
  ASSUME SearchInv, ListedInOrder => DepthFirst, NothingLost,
         [SearchNext]_<<inputVars, searchVars>>, rest # <<>>, rest' = <<>>,
         NEW p \in Seq(Link), Wanted(p)
  PROVE  Found(p)' \/ CutOff(p)'
<1>1. Return
  <2>1. CASE SearchStep
    <3>1. ASSUME Looping, rest' = Advanced PROVE FALSE
      BY <3>1, AdvancedList
    <3>2. ASSUME Descend PROVE FALSE
      BY <3>2 DEF Descend
    <3> QED BY <2>1, <3>1, <3>2 DEF SearchStep, SkipVisited, Reach
  <2>2. CASE \E s, d \in Endpoint : Begin(s, d)
    BY <2>2 DEF Begin
  <2>3. CASE UNCHANGED <<inputVars, searchVars>>
    BY <2>3 DEF searchVars
  <2> QED BY <2>1, <2>2, <2>3 DEF SearchNext
<1>2. Found(p) \/ Pending(p) \/ CutOff(p)
  BY DEF NothingLost
<1>3. ~Pending(p)'
  BY DEF Pending
<1> QED BY <1>1, <1>2, <1>3, ReturnLosesNothing

-----------------------------------------------------------------------------
\* After a turn of the loop the lists are in order, and the path is ahead of them.
LEMMA AdvanceInOrder ==
  ASSUME SearchInv, DepthFirst, Looping,
         \A i \in 1 .. Len(rest) : rest'[i] = Advanced[i]
  PROVE  /\ \A i \in 1 .. Len(rest) : InOrder(rest'[i])
         /\ \A i \in 1 .. Len(hops) : \A k \in 1 .. Len(rest'[i]) : Ahead(hops[i], rest'[i][k])
         /\ \A k \in 1 .. Len(rest'[Len(rest)]) : Ahead(Head(Top), rest'[Len(rest)][k])
<1> DEFINE n == Len(rest)
<1>0. /\ n \in 1 .. n /\ n = Len(hops) + 1 /\ Len(hops) \in Nat
      /\ \A i \in 1 .. n : i # n => rest'[i] = rest[i]
      /\ Len(Top) \in Nat \ {0} /\ Top[1] = Head(Top) /\ Top = rest[n]
      /\ Len(rest'[n]) = Len(Top) - 1
      /\ \A k \in 1 .. Len(Top) - 1 : rest'[n][k] = Top[k + 1]
  BY AdvancedList DEF Top
<1> HIDE DEF n
<1>1. \A i \in 1 .. n : InOrder(rest[i])
  BY DEF DepthFirst, n
<1>2. InOrder(Top)
  BY <1>0, <1>1
<1>3. \A k \in 1 .. Len(rest'[n]) : k + 1 \in 1 .. Len(Top) /\ rest'[n][k] = Top[k + 1]
  BY <1>0
<1>4. InOrder(rest'[n])
  <2> SUFFICES ASSUME NEW j \in 1 .. Len(rest'[n]), NEW k \in 1 .. Len(rest'[n]), j < k
               PROVE  Ahead(rest'[n][j], rest'[n][k])
    BY DEF InOrder
  <2>1. j + 1 < k + 1
    OBVIOUS
  <2> QED BY <1>2, <1>3, <2>1 DEF InOrder
<1>5. ASSUME NEW k \in 1 .. Len(rest'[n])
      PROVE  Ahead(Head(Top), rest'[n][k])
  <2>1. 1 \in 1 .. Len(Top) /\ 1 < k + 1
    BY <1>0
  <2> QED BY <1>0, <1>2, <1>3, <2>1 DEF InOrder
<1>6. ASSUME NEW i \in 1 .. Len(hops)
      PROVE  \A k \in 1 .. Len(rest'[i]) : Ahead(hops[i], rest'[i][k])
  <2>1. i \in 1 .. n /\ i # n
    BY <1>0
  <2> QED BY <1>0, <2>1 DEF DepthFirst
<1>7. \A i \in 1 .. n : InOrder(rest'[i])
  BY <1>0, <1>1, <1>4
<1> QED BY <1>5, <1>6, <1>7 DEF n

\* A step that finds nothing, and after which nothing is to come that was not.
LEMMA FindsNothing ==
  ASSUME DepthFirst, out' = out, \A p \in Seq(Link) : Pending(p)' => Pending(p),
         \A i \in 1 .. Len(rest') : InOrder(rest'[i]),
         \A i \in 1 .. Len(hops') : \A k \in 1 .. Len(rest'[i]) : Ahead(hops'[i], rest'[i][k])
  PROVE  DepthFirst'
<1>1. \A f : Found(f)' <=> Found(f)
  BY DEF Found
<1>2. \A f, p \in Seq(Link) : Found(f)' /\ Pending(p)' => Earlier(f, p)
  BY <1>1 DEF DepthFirst
<1>3. \A i, j \in 1 .. Len(out') : i < j => Earlier(out'[i], out'[j])
  BY DEF DepthFirst
<1> QED BY <1>2, <1>3 DEF DepthFirst, InOrder, Ahead, Earlier

LEMMA SkipDepthFirst ==
  ASSUME SearchInv, DepthFirst, SkipVisited
  PROVE  DepthFirst'
<1>1. /\ Looping /\ rest' = Advanced /\ hops' = hops /\ out' = out
      /\ Len(rest') = Len(rest)
  BY AdvancedList DEF SkipVisited
<1>2. ASSUME NEW p \in Seq(Link), Pending(p)'
      PROVE  Pending(p)
  BY <1>1, <1>2, AdvanceTakes DEF Pending
<1>3. /\ \A i \in 1 .. Len(rest') : InOrder(rest'[i])
      /\ \A i \in 1 .. Len(hops') : \A k \in 1 .. Len(rest'[i]) : Ahead(hops'[i], rest'[i][k])
  BY <1>1, AdvanceInOrder
<1> QED BY <1>1, <1>2, <1>3, FindsNothing

\* The path that is completed was to come, so it is later than those found before;
\* and the lists that are left are behind it.
LEMMA ReachDepthFirst ==
  ASSUME SearchInv, DepthFirst, Reach
  PROVE  DepthFirst'
<1>0. PICK q : q = Append(hops, Head(Top))
  OBVIOUS
<1>1. /\ Looping /\ To[Head(Top)] \notin visited
      /\ rest' = Advanced /\ hops' = hops
      /\ out' = out \/ out' = Append(out, q)
      /\ Len(rest') = Len(rest) /\ Len(rest) = Len(hops) + 1 /\ Len(hops) \in Nat
  BY <1>0, AdvancedList DEF Reach
<1>2. /\ q \in Seq(Link) /\ Len(q) = Len(hops) + 1
      /\ \A i \in 1 .. Len(hops) : q[i] = hops[i]
      /\ q[Len(hops) + 1] = Head(Top)
  BY <1>0, <1>1, FreshLinkExtends
<1>3. /\ \A i \in 1 .. Len(rest') : InOrder(rest'[i])
      /\ \A i \in 1 .. Len(hops') : \A k \in 1 .. Len(rest'[i]) : Ahead(hops'[i], rest'[i][k])
      /\ \A k \in 1 .. Len(rest'[Len(rest)]) : Ahead(Head(Top), rest'[Len(rest)][k])
  BY <1>1, AdvanceInOrder
<1>4. ASSUME NEW p \in Seq(Link), Pending(p)'
      PROVE  Pending(p)
  BY <1>1, <1>4, AdvanceTakes DEF Pending
<1>5. CASE out' = out
  BY <1>3, <1>4, <1>5, FindsNothing
<1>6. CASE out' = Append(out, q)
  <2>1. out \in Seq(Seq(Link))
    BY DEF SearchInv, SearchTypes
  <2>2. /\ Len(out') = Len(out) + 1 /\ Len(out) \in Nat
        /\ \A i \in 1 .. Len(out) : out'[i] = out[i]
        /\ out'[Len(out) + 1] = q
    BY <1>2, <1>6, <2>1, AppendProperties, LenProperties
  <2>3. \A f \in Seq(Link) : Found(f) => Earlier(f, q)
    <3>1. Taken(q)
      BY <1>1, <1>2 DEF Taken
    <3>2. Pending(q)
      BY <1>1, <3>1, AdvanceTakes
    <3> QED BY <1>2, <3>2 DEF DepthFirst
  <2>4. ASSUME NEW p \in Seq(Link), Pending(p)'
        PROVE  Earlier(q, p)
    <3>1. PICK i \in 1 .. Len(rest) : PendingAt(p, i)'
      BY <1>1, <2>4 DEF Pending
    <3>2. /\ i \in 1 .. Len(q) /\ i <= Len(p) /\ \A j \in 1 .. i - 1 : q[j] = p[j]
      BY <1>1, <1>2, <3>1 DEF PendingAt
    <3>3. PICK k \in 1 .. Len(rest'[i]) : rest'[i][k] = p[i]
      BY <3>1 DEF PendingAt
    <3>4. Ahead(q[i], p[i])
      <4>1. CASE i \in 1 .. Len(hops)
        BY <1>1, <1>2, <1>3, <3>3, <4>1
      <4>2. CASE i = Len(rest)
        BY <1>1, <1>2, <1>3, <3>3, <4>2
      <4> QED BY <1>1, <4>1, <4>2
    <3> QED BY <3>2, <3>4 DEF Earlier
  <2>5. ASSUME NEW f \in Seq(Link), Found(f)'
        PROVE  f = q \/ Found(f)
    <3>1. PICK i \in 1 .. Len(out') : out'[i] = f
      BY <2>5 DEF Found
    <3> QED BY <2>2, <3>1 DEF Found
  <2>6. \A f, p \in Seq(Link) : Found(f)' /\ Pending(p)' => Earlier(f, p)
    BY <1>4, <2>4, <2>5 DEF DepthFirst
  <2>7. ASSUME NEW i \in 1 .. Len(out'), NEW j \in 1 .. Len(out'), i < j
        PROVE  Earlier(out'[i], out'[j])
    <3>1. i \in 1 .. Len(out) /\ out'[i] = out[i] /\ out[i] \in Seq(Link) /\ Found(out[i])
      BY <2>1, <2>2, <2>7, ElementOfSeq DEF Found
    <3>2. CASE j \in 1 .. Len(out)
      BY <2>2, <2>7, <3>1, <3>2 DEF DepthFirst
    <3>3. CASE j = Len(out) + 1
      BY <2>2, <2>3, <3>1, <3>3
    <3> QED BY <2>2, <3>2, <3>3
  <2> QED BY <1>3, <2>6, <2>7 DEF DepthFirst, InOrder, Ahead, Earlier
<1> QED BY <1>1, <1>5, <1>6

\* The call that is opened has what was to come through the link taken, in the
\* order of its list.
LEMMA DescendDepthFirst ==
  ASSUME SearchInv, ListedInOrder, DepthFirst, Descend
  PROVE  DepthFirst'
<1>0. PICK n, m : n = Len(rest) /\ m = Len(rest) + 1
  OBVIOUS
<1>1. Looping /\ out' = out
  BY DEF Descend
<1>2. /\ n \in 1 .. n /\ n = Len(hops) + 1 /\ Len(hops) \in Nat /\ m = n + 1
      /\ Len(hops') = n /\ \A j \in 1 .. Len(hops) : hops'[j] = hops[j]
      /\ hops'[n] = Head(Top)
      /\ Len(rest') = m /\ \A i \in 1 .. n : rest'[i] = Advanced[i]
  BY <1>0, DescendOpens
<1>3. rest'[m] = <<>> \/ (rest'[m] = adj[To[Head(Top)]] /\ To[Head(Top)] \in Endpoint)
  BY <1>0, DescendOpens DEF Entered
<1>4. /\ \A i \in 1 .. n : InOrder(rest'[i])
      /\ \A i \in 1 .. Len(hops) : \A k \in 1 .. Len(rest'[i]) : Ahead(hops[i], rest'[i][k])
      /\ \A k \in 1 .. Len(rest'[n]) : Ahead(Head(Top), rest'[n][k])
  BY <1>0, <1>1, <1>2, AdvanceInOrder
<1>5. InOrder(rest'[m])
  BY <1>3 DEF InOrder, ListedInOrder
<1>6. \A i \in 1 .. Len(rest') : InOrder(rest'[i])
  BY <1>2, <1>4, <1>5
<1>7. ASSUME NEW i \in 1 .. Len(hops')
      PROVE  \A k \in 1 .. Len(rest'[i]) : Ahead(hops'[i], rest'[i][k])
  <2>1. CASE i \in 1 .. Len(hops)
    BY <1>2, <1>4, <2>1
  <2>2. CASE i = n
    BY <1>2, <1>4, <2>2
  <2> QED BY <1>2, <2>1, <2>2
<1>8. ASSUME NEW p \in Seq(Link), Pending(p)'
      PROVE  Pending(p)
  <2>1. PICK i \in 1 .. m : PendingAt(p, i)'
    BY <1>2, <1>8 DEF Pending
  <2>2. CASE i \in 1 .. n
    BY <1>0, <1>1, <1>2, <2>1, <2>2, AdvanceTakes DEF Pending
  <2>3. CASE i = m
    <3>1. m <= Len(p) /\ \A j \in 1 .. n : p[j] = hops'[j]
      BY <1>2, <2>1, <2>3 DEF PendingAt
    <3>2. /\ Len(p) >= Len(hops) + 1 /\ p[Len(hops) + 1] = Head(Top)
          /\ \A j \in 1 .. Len(hops) : p[j] = hops[j]
      BY <1>2, <3>1, LenProperties
    <3>3. Taken(p)
      BY <1>0, <1>2, <3>2 DEF Taken
    <3> QED BY <1>0, <1>1, <1>2, <3>3, AdvanceTakes
  <2> QED BY <1>2, <2>1, <2>2, <2>3
<1> QED BY <1>1, <1>6, <1>7, <1>8, FindsNothing

LEMMA ReturnDepthFirst ==
  ASSUME SearchInv, DepthFirst, Return
  PROVE  DepthFirst'
<1>1. out' = out
  BY DEF Return
<1>2. ASSUME NEW p, Pending(p)'
      PROVE  Pending(p)
  <2>1. PICK i \in 1 .. Len(rest') : PendingAt(p, i)'
    BY <1>2 DEF Pending
  <2>2. i \in 1 .. Len(rest) - 1 /\ i \in 1 .. Len(rest)
    BY ReturnKeeps
  <2>3. PendingAt(p, i)
    BY <2>1, <2>2, ReturnKeeps
  <2> QED BY <2>2, <2>3 DEF Pending
<1>3. /\ Len(rest) \in Nat \ {0} /\ Len(rest') = Len(rest) - 1
      /\ \A i \in 1 .. Len(rest) - 1 : rest'[i] = rest[i]
      /\ Len(hops) \in Nat /\ Len(rest) = Len(hops) + 1
      /\ \A i \in 1 .. Len(hops) - 1 : hops'[i] = hops[i]
      /\ Len(hops') = IF Len(hops) = 0 THEN 0 ELSE Len(hops) - 1
  BY ReturnKeeps
<1>4. \A i \in 1 .. Len(rest') : InOrder(rest'[i])
  BY <1>3 DEF DepthFirst
<1>5. \A i \in 1 .. Len(hops') : \A k \in 1 .. Len(rest'[i]) : Ahead(hops'[i], rest'[i][k])
  BY <1>3 DEF DepthFirst
<1> QED BY <1>1, <1>2, <1>4, <1>5, FindsNothing

LEMMA BeginDepthFirst ==
  ASSUME SearchInv, ListedInOrder, NEW s \in Endpoint, NEW d \in Endpoint, Begin(s, d)
  PROVE  DepthFirst'
<1>1. /\ hops' = <<>> /\ out' = <<>> /\ Len(hops') = 0 /\ Len(out') = 0
      /\ Len(rest') = 1 /\ (rest'[1] = <<>> \/ rest'[1] = adj[s])
  BY DEF Begin, Entered
<1>2. \A i \in 1 .. Len(rest') : InOrder(rest'[i])
  <2>1. InOrder(rest'[1])
    BY <1>1 DEF InOrder, ListedInOrder
  <2> QED BY <1>1, <2>1
<1>3. \A p : ~Found(p)'
  BY <1>1 DEF Found
<1> QED BY <1>1, <1>2, <1>3 DEF DepthFirst, InOrder, Ahead, Earlier

LEMMA DepthFirstNext ==
  ASSUME SearchInv, ListedInOrder => DepthFirst, [SearchNext]_<<inputVars, searchVars>>
  PROVE  (ListedInOrder => DepthFirst)'
<1>1. adj' = adj
  BY DEF SearchNext, SearchStep, SkipVisited, Reach, Descend, Return, Begin, inputVars
<1> SUFFICES ASSUME ListedInOrder, DepthFirst PROVE DepthFirst'
  BY <1>1 DEF ListedInOrder, InOrder, Ahead
<1>2. CASE SearchStep
  BY <1>2, SkipDepthFirst, ReachDepthFirst, DescendDepthFirst, ReturnDepthFirst
     DEF SearchStep
<1>3. CASE UNCHANGED <<inputVars, searchVars>>
  <2>1. out' = out /\ rest' = rest /\ hops' = hops
    BY <1>3 DEF searchVars
  <2>2. \A p \in Seq(Link) : Pending(p)' => Pending(p)
    BY <2>1 DEF Pending, PendingAt
  <2> QED BY <2>1, <2>2, FindsNothing DEF DepthFirst
<1> QED BY <1>2, <1>3, BeginDepthFirst DEF SearchNext

-----------------------------------------------------------------------------
\* Every link on the stack, on the path and in a candidate is one that was listed.
OnlyListed ==
  /\ \A i \in 1 .. Len(hops) : Listed(hops[i])
  /\ \A i \in 1 .. Len(rest) : \A k \in 1 .. Len(rest[i]) : Listed(rest[i][k])
  /\ \A i \in 1 .. Len(out) : \A k \in 1 .. Len(out[i]) : Listed(out[i][k])

LEMMA OnlyListedNext ==
  ASSUME SearchInv, OnlyListed, [SearchNext]_<<inputVars, searchVars>>
  PROVE  OnlyListed'
<1>1. adj' = adj
  BY DEF SearchNext, SearchStep, SkipVisited, Reach, Descend, Return, Begin, inputVars, searchVars
<1>2. \A l : Listed(l)' <=> Listed(l)
  BY <1>1 DEF Listed
<1>3. \A e \in Endpoint : \A k \in 1 .. Len(adj[e]) : Listed(adj[e][k])
  BY DEF SearchInv, Leaves, Listed
<1>4. ASSUME Looping, \A i \in 1 .. Len(rest) : rest'[i] = Advanced[i]
      PROVE  /\ \A i \in 1 .. Len(rest) : \A k \in 1 .. Len(rest'[i]) : Listed(rest'[i][k])
             /\ Listed(Head(Top))
  <2>1. /\ Len(rest) \in 1 .. Len(rest)
        /\ \A i \in 1 .. Len(rest) : i # Len(rest) => rest'[i] = rest[i]
        /\ Len(Top) \in Nat \ {0} /\ Top[1] = Head(Top)
        /\ Len(rest'[Len(rest)]) = Len(Top) - 1
        /\ \A k \in 1 .. Len(Top) - 1 : rest'[Len(rest)][k] = Top[k + 1]
    BY <1>4, AdvancedList
  <2>2. \A k \in 1 .. Len(Top) : Listed(Top[k])
    BY <2>1 DEF OnlyListed, Top
  <2>3. \A k \in 1 .. Len(rest'[Len(rest)]) : Listed(rest'[Len(rest)][k])
    BY <2>1, <2>2
  <2>4. ASSUME NEW i \in 1 .. Len(rest), i # Len(rest)
        PROVE  \A k \in 1 .. Len(rest'[i]) : Listed(rest'[i][k])
    BY <2>1, <2>4 DEF OnlyListed
  <2>5. Listed(Head(Top))
    <3>1. 1 \in 1 .. Len(Top)
      BY <2>1
    <3> QED BY <2>1, <2>2, <3>1
  <2> QED BY <2>3, <2>4, <2>5
<1>5. ASSUME Looping, To[Head(Top)] \notin visited, Listed(Head(Top))
      PROVE  \A k \in 1 .. Len(Append(hops, Head(Top))) : Listed(Append(hops, Head(Top))[k])
  <2>1. Len(hops) \in Nat
    BY LenProperties DEF SearchInv, SearchTypes
  <2>2. /\ Len(Append(hops, Head(Top))) = Len(hops) + 1
        /\ \A i \in 1 .. Len(hops) : Append(hops, Head(Top))[i] = hops[i]
        /\ Append(hops, Head(Top))[Len(hops) + 1] = Head(Top)
    BY <1>5, FreshLinkExtends
  <2>3. \A k \in 1 .. Len(hops) + 1 : k \in 1 .. Len(hops) \/ k = Len(hops) + 1
    BY <2>1
  <2>4. \A k \in 1 .. Len(hops) : Listed(hops[k])
    BY DEF OnlyListed
  <2> QED BY <1>5, <2>2, <2>3, <2>4
<1>6. CASE SkipVisited
  <2>1. Looping /\ rest' = Advanced /\ hops' = hops /\ out' = out /\ Len(rest') = Len(rest)
    BY <1>6, AdvancedList DEF SkipVisited
  <2> QED BY <1>2, <1>4, <2>1 DEF OnlyListed
<1>7. CASE Reach
  <2>0. PICK q : q = Append(hops, Head(Top))
    OBVIOUS
  <2>1. /\ Looping /\ rest' = Advanced /\ hops' = hops /\ Len(rest') = Len(rest)
        /\ To[Head(Top)] \notin visited
        /\ out' = out \/ out' = Append(out, q)
    BY <1>7, <2>0, AdvancedList DEF Reach
  <2>2. q \in Seq(Link) /\ \A k \in 1 .. Len(q) : Listed(q[k])
    BY <1>4, <1>5, <2>0, <2>1, FreshLinkExtends
  <2>3. \A i \in 1 .. Len(out') : \A k \in 1 .. Len(out'[i]) : Listed(out'[i][k])
    <3>1. CASE out' = out
      BY <3>1 DEF OnlyListed
    <3>2. CASE out' = Append(out, q)
      <4>1. /\ Len(out') = Len(out) + 1 /\ Len(out) \in Nat
            /\ \A i \in 1 .. Len(out) : out'[i] = out[i]
            /\ out'[Len(out) + 1] = q
        BY <2>2, <3>2, AppendProperties, LenProperties DEF SearchInv, SearchTypes
      <4> QED BY <2>2, <4>1 DEF OnlyListed
    <3> QED BY <2>1, <3>1, <3>2
  <2> QED BY <1>2, <1>4, <2>1, <2>3 DEF OnlyListed
<1>8. CASE Descend
  <2>0. PICK m : m = Len(rest) + 1
    OBVIOUS
  <2>1. /\ Looping /\ To[Head(Top)] \notin visited
        /\ hops' = Append(hops, Head(Top)) /\ out' = out
    BY <1>8 DEF Descend
  <2>2. /\ Len(rest') = m /\ Len(rest) \in Nat
        /\ \A i \in 1 .. Len(rest) : rest'[i] = Advanced[i]
        /\ rest'[m] = <<>> \/ (rest'[m] = adj[To[Head(Top)]] /\ To[Head(Top)] \in Endpoint)
    BY <1>8, <2>0, DescendOpens DEF Entered
  <2>3. \A k \in 1 .. Len(rest'[m]) : Listed(rest'[m][k])
    BY <1>3, <2>2
  <2>4. \A i \in 1 .. Len(rest') : \A k \in 1 .. Len(rest'[i]) : Listed(rest'[i][k])
    BY <1>4, <2>0, <2>1, <2>2, <2>3
  <2>5. \A k \in 1 .. Len(hops') : Listed(hops'[k])
    BY <1>4, <1>5, <2>1, <2>2
  <2> QED BY <1>2, <2>1, <2>4, <2>5 DEF OnlyListed
<1>9. CASE Return
  <2>1. out' = out
    BY <1>9 DEF Return
  <2>2. /\ Len(rest) \in Nat \ {0} /\ Len(rest') = Len(rest) - 1
        /\ \A i \in 1 .. Len(rest) - 1 : rest'[i] = rest[i]
        /\ Len(hops) \in Nat
        /\ \A i \in 1 .. Len(hops) - 1 : hops'[i] = hops[i]
        /\ Len(hops') = IF Len(hops) = 0 THEN 0 ELSE Len(hops) - 1
    BY <1>9, ReturnKeeps
  <2>3. \A i \in 1 .. Len(hops') : i \in 1 .. Len(hops) /\ hops'[i] = hops[i]
    BY <2>2
  <2>4. \A i \in 1 .. Len(rest') : i \in 1 .. Len(rest) /\ rest'[i] = rest[i]
    BY <2>2
  <2> QED BY <1>2, <2>1, <2>3, <2>4 DEF OnlyListed
<1>10. ASSUME NEW s \in Endpoint, NEW d \in Endpoint, Begin(s, d)
       PROVE  OnlyListed'
  <2>1. /\ Len(hops') = 0 /\ Len(out') = 0
        /\ Len(rest') = 1 /\ (rest'[1] = <<>> \/ rest'[1] = adj[s])
    BY <1>10 DEF Begin, Entered
  <2>2. \A k \in 1 .. Len(rest'[1]) : Listed(rest'[1][k])
    BY <1>3, <2>1
  <2> QED BY <1>2, <2>1, <2>2 DEF OnlyListed
<1>11. CASE UNCHANGED <<inputVars, searchVars>>
  BY <1>2, <1>11 DEF searchVars, OnlyListed
<1> QED BY <1>6, <1>7, <1>8, <1>9, <1>10, <1>11 DEF SearchNext, SearchStep

-----------------------------------------------------------------------------
SearchOrderInv ==
  SearchInv /\ (ListedInOrder => DepthFirst) /\ NothingLost /\ OnlyListed

LEMMA SearchOrderInit ==
  ASSUME SearchInit
  PROVE  SearchOrderInv
<1>1. rest = <<>> /\ out = <<>> /\ hops = <<>> /\ Len(<<>>) = 0
  BY DEF SearchInit
<1>2. DepthFirst
  BY <1>1 DEF DepthFirst, Found
<1> QED BY <1>1, <1>2, SearchInvInit DEF SearchOrderInv, NothingLost, OnlyListed

LEMMA SearchOrderNext ==
  ASSUME SearchOrderInv, [SearchNext]_<<inputVars, searchVars>>
  PROVE  SearchOrderInv'
BY SearchInvNext, DepthFirstNext, NothingLostNext, OnlyListedNext DEF SearchOrderInv

\* The invariant of every search, which PlannerProofs uses of the planner's.
THEOREM SearchOrderInvariant == SearchSpec => []SearchOrderInv
<1>1. SearchInit => SearchOrderInv
  BY SearchOrderInit
<1>2. SearchOrderInv /\ [SearchNext]_<<inputVars, searchVars>> => SearchOrderInv'
  BY SearchOrderNext
<1> QED BY <1>1, <1>2, PTL DEF SearchSpec

\* enumerateCandidatePaths returns every loop-free path of its links between its
\* arguments and within the depth and the relay bound, unless it has as many
\* candidates as it may have; and then, if the links are listed in order, what it
\* has left out is later, in depth-first order, than all that it returns.
THEOREM SearchLosesNothing == SearchSpec => SearchComplete
<1>1. SearchSpec => []SearchOrderInv
  BY SearchOrderInvariant
<1>2. SearchOrderInv /\ [SearchNext]_<<inputVars, searchVars>> =>
        [ rest # <<>> /\ rest' = <<>> =>
            \A p \in Seq(Link) : Wanted(p) => Found(p)' \/ CutOff(p)' ]_<<inputVars, searchVars>>
  BY EndIsComplete DEF SearchOrderInv
<1> QED BY <1>1, <1>2, PTL DEF SearchSpec, SearchComplete

\* Given the links in order, enumerateCandidatePaths finds its candidates in the
\* depth-first order, so none of them twice.
THEOREM SearchIsDepthFirst ==
  SearchSpec => [](ListedInOrder => \A i, j \in 1 .. Len(out) : i < j => Earlier(out[i], out[j]))
<1>1. SearchSpec => []SearchOrderInv
  BY SearchOrderInvariant
<1>2. SearchOrderInv => (ListedInOrder => \A i, j \in 1 .. Len(out) : i < j => Earlier(out[i], out[j]))
  BY DEF SearchOrderInv, DepthFirst
<1> QED BY <1>1, <1>2, PTL
=============================================================================
