----------------------------- MODULE PathSearch -----------------------------
(***************************************************************************)
(* enumerateCandidatePaths (src/planner.cpp): a depth-first search for the *)
(* loop-free paths from one endpoint to another, cut off by three bounds.  *)
(* One step is one turn of the loop in dfs or one return from it; the call *)
(* stack is a sequence with, for every active call, the links its loop has *)
(* not looked at yet.  A path is the sequence of its links.                *)
(***************************************************************************)
EXTENDS Topology, Naturals, Sequences

CONSTANTS
  Bound           \* the Bounds a caller may pass

ASSUME SearchAssumption ==
  Bound \subseteq [ maxCandidates : Nat, maxPathDepth : Nat, maxRelayCount : Nat,
                    maxFallbacks : Nat, maxCollectiveParticipants : Nat ]

VARIABLES
  bounds,         \* the caller's bounds
  adj,            \* adj[e]: the links that leave e, in the order the loop takes them
  source, dst,    \* the arguments of the search
  hops,           \* the path from source to the endpoint of the innermost call
  visited,        \* the endpoints on that path
  rest,           \* the call stack; empty when no search is running
  out             \* the candidates found so far

\* What the lists are sorted by: the destination, then the link.
Ahead(k, l) == To[k] < To[l] \/ (To[k] = To[l] /\ k < l)

inputVars == <<bounds, adj>>
searchVars == <<source, dst, hops, visited, rest, out>>

\* The loop a call of dfs(cur) starts with, after its two early returns.
Entered(cur, path, found) ==
  IF Len(found) >= bounds.maxCandidates \/ Len(path) >= bounds.maxPathDepth
  THEN <<>> ELSE adj[cur]

\* Where the innermost call stands, what it has left, and the stack once it has
\* taken its next link.
Cur == IF hops = <<>> THEN source ELSE To[hops[Len(hops)]]
Top == rest[Len(rest)]
Advanced == [rest EXCEPT ![Len(rest)] = Tail(@)]

Begin(s, d) ==
  /\ rest = <<>>
  /\ source' = s /\ dst' = d
  /\ hops' = <<>> /\ visited' = {s} /\ out' = <<>>
  /\ rest' = <<Entered(s, <<>>, <<>>)>>
  /\ UNCHANGED inputVars

\* The loop of the innermost call goes on.
Looping == rest # <<>> /\ Top # <<>> /\ Len(out) < bounds.maxCandidates

\* Mutation: the loop does not go on to the next link.
SkipVisitedStays ==
  /\ Looping
  /\ To[Head(Top)] \in visited
  /\ UNCHANGED <<inputVars, searchVars>>

SkipVisited ==
  /\ Looping
  /\ To[Head(Top)] \in visited
  /\ rest' = Advanced
  /\ UNCHANGED <<inputVars, source, dst, hops, visited, out>>

\* Mutation: the relay bound counts the hops.
ReachHops ==
  /\ Looping
  /\ To[Head(Top)] \notin visited /\ To[Head(Top)] = dst
  /\ out' = IF Len(hops) + 1 <= bounds.maxRelayCount
            THEN Append(out, Append(hops, Head(Top))) ELSE out
  /\ rest' = Advanced
  /\ UNCHANGED <<inputVars, source, dst, hops, visited>>

\* The link ends at the destination: a candidate, if its relays are not too many.
Reach ==
  /\ Looping
  /\ To[Head(Top)] \notin visited /\ To[Head(Top)] = dst
  /\ out' = IF Len(hops) <= bounds.maxRelayCount
            THEN Append(out, Append(hops, Head(Top))) ELSE out
  /\ rest' = Advanced
  /\ UNCHANGED <<inputVars, source, dst, hops, visited>>

\* Mutation: the endpoint is not marked as visited.
DescendUnmarked ==
  /\ Looping
  /\ To[Head(Top)] \notin visited /\ To[Head(Top)] # dst
  /\ hops' = Append(hops, Head(Top))
  /\ rest' = Append(Advanced, Entered(To[Head(Top)], hops', out))
  /\ UNCHANGED <<inputVars, source, dst, visited, out>>

Descend ==
  /\ Looping
  /\ To[Head(Top)] \notin visited /\ To[Head(Top)] # dst
  /\ hops' = Append(hops, Head(Top))
  /\ visited' = visited \cup {To[Head(Top)]}
  /\ rest' = Append(Advanced, Entered(To[Head(Top)], hops', out))
  /\ UNCHANGED <<inputVars, source, dst, out>>

\* A call returns, its list used up or enough candidates found; its caller
\* removes the endpoint from the path again.
Return ==
  /\ rest # <<>>
  /\ Top = <<>> \/ Len(out) >= bounds.maxCandidates
  /\ rest' = SubSeq(rest, 1, Len(rest) - 1)
  /\ hops' = IF hops = <<>> THEN hops ELSE SubSeq(hops, 1, Len(hops) - 1)
  /\ visited' = IF hops = <<>> THEN visited ELSE visited \ {Cur}
  /\ UNCHANGED <<inputVars, source, dst, out>>

SearchStep == SkipVisited \/ Reach \/ Descend \/ Return

-----------------------------------------------------------------------------
\* Any caller: searches one after the other over one snapshot.
SearchInit ==
  /\ bounds \in Bound
  /\ adj \in [Endpoint -> Seq(Link)]
  /\ \A e \in Endpoint : \A i \in DOMAIN adj[e] : From[adj[e][i]] = e
  /\ source \in Endpoint /\ dst \in Endpoint
  /\ hops = <<>> /\ visited = {source} /\ rest = <<>> /\ out = <<>>

SearchNext == SearchStep \/ \E s, d \in Endpoint : Begin(s, d)

SearchSpec == SearchInit /\ [][SearchNext]_<<inputVars, searchVars>>

\* A path of at least one link from s to d that passes no endpoint twice.
LoopFree(p, s, d) ==
  /\ p \in Seq(Link) /\ p # <<>>
  /\ From[p[1]] = s /\ To[p[Len(p)]] = d
  /\ \A i \in DOMAIN p : To[p[i]] # s /\ (i > 1 => From[p[i]] = To[p[i - 1]])
  /\ \A i, j \in DOMAIN p : To[p[i]] = To[p[j]] => i = j

\* p comes before q in the depth-first order: where they part, it takes the link
\* that is listed first.
Earlier(p, q) ==
  \E i \in 1 .. Len(p) :
    /\ i <= Len(q) /\ Ahead(p[i], q[i])
    /\ \A j \in 1 .. i - 1 : p[j] = q[j]

\* Every candidate of the search, whatever the graph and the bounds, is a
\* loop-free path between the arguments that keeps to the depth and the relay
\* bound, and there are never more than the caller allowed: the marking and
\* unmarking of visited and the early returns of dfs agree.
SearchSound ==
  /\ Len(out) <= bounds.maxCandidates
  /\ \A i \in DOMAIN out :
       /\ LoopFree(out[i], source, dst)
       /\ Len(out[i]) <= bounds.maxPathDepth
       /\ Len(out[i]) <= bounds.maxRelayCount + 1
=============================================================================
