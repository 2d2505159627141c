------------------------ MODULE EvidenceBrokerProofs ------------------------
(***************************************************************************)
(* Proofs about the two components the coordinator puts together, each by  *)
(* itself.  Of Evidence, for any number of workers, boots, sockets,        *)
(* endpoints and links: the inductive invariant is AuthorityTablesAgree    *)
(* with the types and the stamp that every piece of evidence carries.  Of  *)
(* Broker, the bound on overcommitment for every number of threads,        *)
(* resources and sizes: OvershootBounded is not inductive, since a state   *)
(* within the bound in which many threads have already compared may leave  *)
(* it.  The strengthening keeps one of those threads, the last to compare, *)
(* whose own request still fits when all the others have added.            *)
(***************************************************************************)
EXTENDS Evidence, Broker, FiniteSetTheorems, TLAPS

-----------------------------------------------------------------------------
(* Evidence. *)

\* The empty coordinator of the constructor is well typed.
LEMMA EvidenceTypeInit == EvidenceInit => EvidenceTypeOK
  BY EvidenceAssumption
  DEF EvidenceInit, EvidenceTypeOK, NoWorkers, NoSockets, NoBoots, NoEndpoints,
      NoLinks, NoWorker, NoEndpoint, NoLink, WorkerInfo, EndpointEvidence,
      LinkEvidence

\* A record that is no longer alive was fenced with the boot it still holds.
DeadIsFenced ==
  \A w \in Worker : ~workers[w].alive /\ workers[w].boot # None =>
    <<w, workers[w].boot>> \in fenced

\* The inductive invariant.
EvidenceInv ==
  EvidenceTypeOK /\ AuthorityTablesAgree /\ EvidenceStamped /\ DeadIsFenced

\* A registered socket leads to a record with a boot.
LEMMA SocketLeadsToBoot ==
  ASSUME EvidenceTypeOK, AuthorityTablesAgree,
         NEW s \in Socket, socketToWorker[s] # None
  PROVE  /\ socketToWorker[s] \in Worker
         /\ workers[socketToWorker[s]] \in WorkerInfo
         /\ workers[socketToWorker[s]].boot \in Boot
<1>1. socketToWorker[s] \in Worker
  BY DEF EvidenceTypeOK
<1>2. workers[socketToWorker[s]] \in WorkerInfo
  BY <1>1 DEF EvidenceTypeOK
<1>3. workers[socketToWorker[s]].boot # None
  BY <1>1 DEF AuthorityTablesAgree
<1>4. workers[socketToWorker[s]].boot \in Boot
  BY <1>2, <1>3 DEF WorkerInfo
<1> QED BY <1>1, <1>2, <1>4

\* Every handler keeps the tables well typed.
LEMMA EvidenceTypeNext ==
  ASSUME EvidenceTypeOK, AuthorityTablesAgree, [EvidenceNext]_evidenceVars
  PROVE  EvidenceTypeOK'
<1> USE EvidenceAssumption DEF EvidenceTypeOK
<1>1. ASSUME NEW s \in Socket, NEW w \in Worker, NEW b \in Boot, Register(s, w, b)
      PROVE  EvidenceTypeOK'
  BY <1>1 DEF Register, WorkerInfo
<1>2. ASSUME NEW w \in Worker, NEW b \in Boot, NEW e \in Endpoint,
             NEW g \in Generation, NEW up \in EndpointUp,
             PublishEndpoint(w, b, e, g, up)
      PROVE  EvidenceTypeOK'
  <2>1. endpoints' \in [Endpoint -> EndpointEvidence]
    BY <1>2 DEF PublishEndpoint, EndpointEvidence
  <2>2. [workers[w] EXCEPT !.endpoints = @ \cup {e}] \in WorkerInfo
    BY DEF WorkerInfo
  <2>3. workers' \in [Worker -> WorkerInfo]
    BY <1>2, <2>2 DEF PublishEndpoint
  <2> QED BY <1>2, <2>1, <2>3 DEF PublishEndpoint
<1>3. ASSUME NEW w \in Worker, NEW b \in Boot, NEW l \in Link,
             NEW g \in Generation, NEW healthy \in LinkHealthy,
             NEW hard \in LinkHard, PublishLink(w, b, l, g, healthy, hard)
      PROVE  EvidenceTypeOK'
  <2>1. links' \in [Link -> LinkEvidence]
    BY <1>3 DEF PublishLink, LinkEvidence
  <2>2. [workers[w] EXCEPT !.links = @ \cup {l}] \in WorkerInfo
    BY DEF WorkerInfo
  <2>3. workers' \in [Worker -> WorkerInfo]
    BY <1>3, <2>2 DEF PublishLink
  <2> QED BY <1>3, <2>1, <2>3 DEF PublishLink
<1>4. CASE PublishCapacity
  BY <1>4 DEF PublishCapacity
<1>5. ASSUME NEW l \in Link, NEW hard \in LinkHard, PublishCongestion(l, hard)
      PROVE  EvidenceTypeOK'
  <2>1. links' \in [Link -> LinkEvidence]
    BY <1>5 DEF PublishCongestion, LinkEvidence
  <2> QED BY <1>5, <2>1 DEF PublishCongestion
<1>6. ASSUME NEW s \in Socket, Disconnect(s)
      PROVE  EvidenceTypeOK'
  <2> DEFINE w == socketToWorker[s]
  <2>1. w \in Worker /\ workers[w] \in WorkerInfo /\ workers[w].boot \in Boot
    BY <1>6, SocketLeadsToBoot DEF Disconnect
  <2>2. workers' \in [Worker -> WorkerInfo]
    BY <1>6, <2>1 DEF Disconnect, FenceWorker, FenceRecord, WorkerInfo
  <2>3. endpoints' \in [Endpoint -> EndpointEvidence]
    <3>1. ASSUME NEW e \in Endpoint
          PROVE  [endpoints[e] EXCEPT !.up = FALSE] \in EndpointEvidence
      BY DEF EndpointEvidence
    <3> QED BY <1>6, <2>1, <3>1 DEF Disconnect, FenceWorker, FenceRecord
  <2>4. links' \in [Link -> LinkEvidence]
    BY <1>6, <2>1 DEF Disconnect, FenceWorker, FenceRecord, LinkEvidence, NoLink
  <2>5. fenced' \subseteq Worker \X Boot
    BY <1>6, <2>1 DEF Disconnect, FenceWorker
  <2>6. workerBoots' \in [Worker -> Boot \cup {None}]
    BY <1>6, <2>1 DEF Disconnect, FenceWorker
  <2>7. socketToWorker' \in [Socket -> Worker \cup {None}]
    BY <1>6 DEF Disconnect
  <2>8. /\ topologyGeneration' \in Nat
        /\ capacityGeneration' \in Nat
        /\ congestionGeneration' \in Nat
    BY <1>6 DEF Disconnect, FenceWorker
  <2> QED BY <2>2, <2>3, <2>4, <2>5, <2>6, <2>7, <2>8
<1>7. CASE UNCHANGED evidenceVars
  BY <1>7 DEF evidenceVars
<1> QED BY <1>1, <1>2, <1>3, <1>4, <1>5, <1>6, <1>7 DEF EvidenceNext

\* The empty coordinator satisfies the inductive invariant.
LEMMA EvidenceInvInit == EvidenceInit => EvidenceInv
<1> SUFFICES ASSUME EvidenceInit PROVE EvidenceInv
  OBVIOUS
<1>1. EvidenceTypeOK
  BY EvidenceTypeInit
<1>2. AuthorityTablesAgree /\ DeadIsFenced
  BY EvidenceAssumption
  DEF EvidenceInit, AuthorityTablesAgree, DeadIsFenced, NoWorkers, NoWorker,
      NoSockets, NoBoots
<1>3. EvidenceStamped
  BY DEF EvidenceInit, EvidenceStamped, NoEndpoints, NoEndpoint
<1> QED BY <1>1, <1>2, <1>3 DEF EvidenceInv

\* Every handler keeps Impl::workers, snap.workerBoots and Impl::fenced in step.
LEMMA TablesNext ==
  ASSUME EvidenceInv, [EvidenceNext]_evidenceVars
  PROVE  AuthorityTablesAgree' /\ DeadIsFenced'
<1> USE EvidenceAssumption
    DEF EvidenceInv, EvidenceTypeOK, AuthorityTablesAgree, DeadIsFenced
<1>1. ASSUME NEW s \in Socket, NEW w \in Worker, NEW b \in Boot, Register(s, w, b)
      PROVE  AuthorityTablesAgree' /\ DeadIsFenced'
  <2>1. \A v \in Worker \ {w} : workers'[v] = workers[v] /\ workerBoots'[v] = workerBoots[v]
    BY <1>1 DEF Register
  <2>2. /\ workers'[w].alive /\ workers'[w].boot = b /\ workerBoots'[w] = b
        /\ b # None /\ <<w, b>> \notin fenced' /\ fenced' = fenced
    BY <1>1 DEF Register
  <2>3. \A z \in Socket : socketToWorker'[z] = IF z = s THEN w ELSE socketToWorker[z]
    BY <1>1 DEF Register
  <2> QED BY <2>1, <2>2, <2>3
<1>2. ASSUME NEW w \in Worker, NEW b \in Boot, NEW e \in Endpoint,
             NEW g \in Generation, NEW up \in EndpointUp,
             PublishEndpoint(w, b, e, g, up)
      PROVE  AuthorityTablesAgree' /\ DeadIsFenced'
  <2>1. \A v \in Worker : /\ workers'[v].alive = workers[v].alive
                          /\ workers'[v].boot = workers[v].boot
    BY <1>2 DEF PublishEndpoint, WorkerInfo
  <2> QED BY <1>2, <2>1 DEF PublishEndpoint
<1>3. ASSUME NEW w \in Worker, NEW b \in Boot, NEW l \in Link,
             NEW g \in Generation, NEW healthy \in LinkHealthy,
             NEW hard \in LinkHard, PublishLink(w, b, l, g, healthy, hard)
      PROVE  AuthorityTablesAgree' /\ DeadIsFenced'
  <2>1. \A v \in Worker : /\ workers'[v].alive = workers[v].alive
                          /\ workers'[v].boot = workers[v].boot
    BY <1>3 DEF PublishLink, WorkerInfo
  <2> QED BY <1>3, <2>1 DEF PublishLink
<1>4. CASE PublishCapacity
  BY <1>4 DEF PublishCapacity
<1>5. ASSUME NEW l \in Link, NEW hard \in LinkHard, PublishCongestion(l, hard)
      PROVE  AuthorityTablesAgree' /\ DeadIsFenced'
  BY <1>5 DEF PublishCongestion
<1>6. ASSUME NEW s \in Socket, Disconnect(s)
      PROVE  AuthorityTablesAgree' /\ DeadIsFenced'
  <2> DEFINE w == socketToWorker[s]
  <2>1. w \in Worker /\ workers[w] \in WorkerInfo /\ workers[w].boot \in Boot
    BY <1>6, SocketLeadsToBoot DEF Disconnect
  <2>2. \A v \in Worker \ {w} : workers'[v] = workers[v] /\ workerBoots'[v] = workerBoots[v]
    BY <1>6, <2>1 DEF Disconnect, FenceWorker, FenceRecord
  <2>3. /\ workers'[w].alive = FALSE /\ workers'[w].boot = workers[w].boot
        /\ workerBoots'[w] = None
    BY <1>6, <2>1 DEF Disconnect, FenceWorker, FenceRecord, WorkerInfo
  <2>4. fenced' = fenced \cup {<<w, workers[w].boot>>}
    BY <1>6 DEF Disconnect, FenceWorker
  <2>5. \A z \in Socket : socketToWorker'[z] = IF z = s THEN None ELSE socketToWorker[z]
    BY <1>6 DEF Disconnect
  <2> HIDE DEF w
  <2>6. \A v \in Worker \ {w} :
          /\ workers'[v].alive <=> workerBoots'[v] # None
          /\ workers'[v].alive => /\ workers'[v].boot = workerBoots'[v]
                                  /\ <<v, workers'[v].boot>> \notin fenced'
          /\ (\E z \in Socket : socketToWorker'[z] = v) => workers'[v].boot # None
          /\ ~workers'[v].alive /\ workers'[v].boot # None =>
               <<v, workers'[v].boot>> \in fenced'
    BY <2>1, <2>2, <2>4, <2>5
  <2>7. /\ workers'[w].alive <=> workerBoots'[w] # None
        /\ ~workers'[w].alive
        /\ workers'[w].boot # None
        /\ <<w, workers'[w].boot>> \in fenced'
    BY <2>1, <2>3, <2>4
  <2> QED BY <2>6, <2>7
<1>7. CASE UNCHANGED evidenceVars
  BY <1>7 DEF evidenceVars
<1> QED BY <1>1, <1>2, <1>3, <1>4, <1>5, <1>6, <1>7 DEF EvidenceNext

\* What a step may do to an endpoint: leave it, mark it down, or replace it by
\* what the live boot of a worker publishes.
LEMMA EndpointStep ==
  ASSUME EvidenceInv, [EvidenceNext]_evidenceVars, NEW e \in Endpoint
  PROVE  \/ endpoints'[e] = endpoints[e]
         \/ endpoints'[e] = [endpoints[e] EXCEPT !.up = FALSE]
         \/ \E w \in Worker, b \in Boot, g \in Generation, up \in EndpointUp :
              /\ Authorized(w, b)
              /\ endpoints'[e] = [gen |-> g, worker |-> w, boot |-> b, up |-> up]
<1> USE DEF EvidenceInv, EvidenceTypeOK
<1> DEFINE Published ==
      \E w \in Worker, b \in Boot, g \in Generation, up \in EndpointUp :
         /\ Authorized(w, b)
         /\ endpoints'[e] = [gen |-> g, worker |-> w, boot |-> b, up |-> up]
    Allowed == \/ endpoints'[e] = endpoints[e]
               \/ endpoints'[e] = [endpoints[e] EXCEPT !.up = FALSE]
               \/ Published
<1>1. ASSUME NEW s \in Socket, NEW w \in Worker, NEW b \in Boot, Register(s, w, b)
      PROVE  Allowed
  BY <1>1 DEF Register
<1>2. ASSUME NEW w \in Worker, NEW b \in Boot, NEW f \in Endpoint,
             NEW g \in Generation, NEW up \in EndpointUp,
             PublishEndpoint(w, b, f, g, up)
      PROVE  Allowed
  <2>1. CASE f = e
    <3>1. /\ Authorized(w, b)
          /\ endpoints'[e] = [gen |-> g, worker |-> w, boot |-> b, up |-> up]
      BY <1>2, <2>1 DEF PublishEndpoint
    <3>2. Published
      BY <3>1
    <3> QED BY <3>2
  <2>2. CASE f # e
    BY <1>2, <2>2 DEF PublishEndpoint
  <2> QED BY <2>1, <2>2
<1>3. ASSUME NEW w \in Worker, NEW b \in Boot, NEW l \in Link,
             NEW g \in Generation, NEW healthy \in LinkHealthy,
             NEW hard \in LinkHard, PublishLink(w, b, l, g, healthy, hard)
      PROVE  Allowed
  BY <1>3 DEF PublishLink
<1>4. CASE PublishCapacity
  BY <1>4 DEF PublishCapacity
<1>5. ASSUME NEW l \in Link, NEW hard \in LinkHard, PublishCongestion(l, hard)
      PROVE  Allowed
  BY <1>5 DEF PublishCongestion
<1>6. ASSUME NEW s \in Socket, Disconnect(s)
      PROVE  Allowed
  BY <1>6 DEF Disconnect, FenceWorker, FenceRecord
<1>7. CASE UNCHANGED evidenceVars
  BY <1>7 DEF evidenceVars
<1> QED
  BY <1>1, <1>2, <1>3, <1>4, <1>5, <1>6, <1>7 DEF EvidenceNext

\* Every handler keeps the inductive invariant.
LEMMA EvidenceInvNext ==
  ASSUME EvidenceInv, [EvidenceNext]_evidenceVars
  PROVE  EvidenceInv'
<1>1. EvidenceTypeOK'
  BY EvidenceTypeNext DEF EvidenceInv
<1>2. AuthorityTablesAgree' /\ DeadIsFenced'
  BY TablesNext
<1>3. EvidenceStamped'
  <2> SUFFICES ASSUME NEW e \in Endpoint, endpoints'[e].gen # None
               PROVE  endpoints'[e].worker \in Worker /\ endpoints'[e].boot \in Boot
    BY DEF EvidenceStamped
  <2>1. CASE endpoints'[e] = endpoints[e]
    BY <2>1 DEF EvidenceInv, EvidenceStamped
  <2>2. CASE endpoints'[e] = [endpoints[e] EXCEPT !.up = FALSE]
    BY <2>2 DEF EvidenceInv, EvidenceStamped, EvidenceTypeOK, EndpointEvidence
  <2>3. ASSUME NEW w \in Worker, NEW b \in Boot, NEW g \in Generation, NEW up \in EndpointUp,
               endpoints'[e] = [gen |-> g, worker |-> w, boot |-> b, up |-> up]
        PROVE  endpoints'[e].worker \in Worker /\ endpoints'[e].boot \in Boot
    BY <2>3
  <2> QED BY EndpointStep, <2>1, <2>2, <2>3
<1> QED BY <1>1, <1>2, <1>3 DEF EvidenceInv

\* The inductive invariant holds in every state of the snapshot: the tables are
\* well typed and agree on who is alive.
THEOREM EvidenceInvariant == EvidenceSpec => []EvidenceInv
<1>1. EvidenceInv /\ [EvidenceNext]_evidenceVars => EvidenceInv'
  BY EvidenceInvNext
<1> QED BY EvidenceInvInit, <1>1, PTL DEF EvidenceSpec

\* Type correctness of the snapshot and of the worker tables.
THEOREM EvidenceTypeCorrect == EvidenceSpec => []EvidenceTypeOK
<1>1. EvidenceInv => EvidenceTypeOK
  BY DEF EvidenceInv
<1> QED BY EvidenceInvariant, <1>1, PTL

\* snap.workerBoots, Impl::workers and Impl::fenced agree on who is alive, for
\* every number of workers, boots and sockets.
THEOREM TablesAgree == EvidenceSpec => []AuthorityTablesAgree
<1>1. EvidenceInv => AuthorityTablesAgree
  BY DEF EvidenceInv
<1> QED BY EvidenceInvariant, <1>1, PTL

\* A usable endpoint was published by a registered, live, unfenced incarnation.
LEMMA UsableIsLive ==
  ASSUME EvidenceInv, NEW e \in Endpoint, EndpointUsable(e)
  PROVE  /\ endpoints[e].worker \in Worker
         /\ workers[endpoints[e].worker].alive
         /\ workers[endpoints[e].worker].boot = endpoints[e].boot
         /\ <<endpoints[e].worker, endpoints[e].boot>> \notin fenced
<1>1. endpoints[e].worker \in Worker /\ endpoints[e].boot \in Boot
  BY DEF EvidenceInv, EvidenceStamped, EndpointUsable
<1>2. workerBoots[endpoints[e].worker] = endpoints[e].boot
  BY DEF EndpointUsable, EndpointFresh
<1>3. workerBoots[endpoints[e].worker] # None
  BY <1>1, <1>2, EvidenceAssumption
<1> QED BY <1>1, <1>2, <1>3 DEF EvidenceInv, AuthorityTablesAgree

\* Evidence of a fenced incarnation is never usable again (endpointFresh).
THEOREM FencedStaysStale == EvidenceSpec => []FencedEvidenceStale
<1>1. EvidenceInv => FencedEvidenceStale
  BY UsableIsLive DEF FencedEvidenceStale
<1> QED BY EvidenceInvariant, <1>1, PTL

\* The PUBLISH handlers never record an endpoint as up under a fenced incarnation.
THEOREM FencedPublishesNothing == EvidenceSpec => FencedNeverPublishes
<1> DEFINE Unfenced(e) ==
      (endpoints'[e] # endpoints[e] /\ endpoints'[e].up) =>
         <<endpoints'[e].worker, endpoints'[e].boot>> \notin fenced
<1>1. ASSUME EvidenceInv, [EvidenceNext]_evidenceVars, NEW e \in Endpoint
      PROVE  Unfenced(e)
  <2>1. CASE endpoints'[e] = endpoints[e]
    BY <2>1
  <2>2. CASE endpoints'[e] = [endpoints[e] EXCEPT !.up = FALSE]
    BY <1>1, <2>2 DEF EvidenceInv, EvidenceTypeOK, EndpointEvidence
  <2>3. ASSUME NEW w \in Worker, NEW b \in Boot, NEW g \in Generation, NEW up \in EndpointUp,
               Authorized(w, b),
               endpoints'[e] = [gen |-> g, worker |-> w, boot |-> b, up |-> up]
        PROVE  Unfenced(e)
    BY <1>1, <2>3 DEF EvidenceInv, AuthorityTablesAgree, Authorized
  <2> QED BY <1>1, EndpointStep, <2>1, <2>2, <2>3
<1>2. EvidenceInv /\ [EvidenceNext]_evidenceVars =>
        [\A e \in Endpoint : Unfenced(e)]_evidenceVars
  BY <1>1
<1> QED BY EvidenceInvariant, <1>2, PTL DEF EvidenceSpec, FencedNeverPublishes

\* Every change of the set of links or of their generations advances the
\* topology generation, fencing included.
THEOREM TopologyAdvances == EvidenceSpec => TopologyCoversLinks
<1> DEFINE Covered == (\E l \in Link : links'[l].gen # links[l].gen)
                        => topologyGeneration' > topologyGeneration
<1>1. ASSUME EvidenceInv, [EvidenceNext]_evidenceVars
      PROVE  Covered
  <2> USE <1>1 DEF EvidenceInv, EvidenceTypeOK
  <2>1. ASSUME NEW s \in Socket, NEW w \in Worker, NEW b \in Boot, Register(s, w, b)
        PROVE  Covered
    BY <2>1 DEF Register
  <2>2. ASSUME NEW w \in Worker, NEW b \in Boot, NEW e \in Endpoint,
               NEW g \in Generation, NEW up \in EndpointUp,
               PublishEndpoint(w, b, e, g, up)
        PROVE  Covered
    BY <2>2 DEF PublishEndpoint
  <2>3. ASSUME NEW w \in Worker, NEW b \in Boot, NEW l \in Link,
               NEW g \in Generation, NEW healthy \in LinkHealthy,
               NEW hard \in LinkHard, PublishLink(w, b, l, g, healthy, hard)
        PROVE  Covered
    BY <2>3 DEF PublishLink
  <2>4. CASE PublishCapacity
    BY <2>4 DEF PublishCapacity
  <2>5. ASSUME NEW l \in Link, NEW hard \in LinkHard, PublishCongestion(l, hard)
        PROVE  Covered
    BY <2>5 DEF PublishCongestion, LinkEvidence
  <2>6. ASSUME NEW s \in Socket, Disconnect(s)
        PROVE  Covered
    BY <2>6 DEF Disconnect, FenceWorker
  <2>7. CASE UNCHANGED evidenceVars
    BY <2>7 DEF evidenceVars
  <2> QED BY <2>1, <2>2, <2>3, <2>4, <2>5, <2>6, <2>7 DEF EvidenceNext
<1>2. EvidenceInv /\ [EvidenceNext]_evidenceVars => [Covered]_evidenceVars
  BY <1>1
<1> QED BY EvidenceInvariant, <1>2, PTL DEF EvidenceSpec, TopologyCoversLinks

-----------------------------------------------------------------------------
\* The origin of the evidence about every endpoint, as WorkerAuthority sees it.
Origins == [e \in Endpoint |-> <<endpoints[e].worker, endpoints[e].boot>>]

\* Fencing does not touch the origin of evidence.
LEMMA FencingKeepsOrigins ==
  ASSUME EvidenceTypeOK, NEW w \in Worker, FenceRecord(w)
  PROVE  Origins' = Origins
<1>1. ASSUME NEW e \in Endpoint
      PROVE  /\ endpoints'[e].worker = endpoints[e].worker
             /\ endpoints'[e].boot = endpoints[e].boot
  BY DEF EvidenceTypeOK, EndpointEvidence, FenceRecord
<1> QED BY <1>1 DEF Origins

\* Every step of the snapshot is a step of the abstract authority or changes
\* nothing it can see.
LEMMA AuthorityStep ==
  ASSUME EvidenceInv, [EvidenceNext]_evidenceVars
  PROVE  [Authority!AuthorityNext]_(Authority!authorityVars)
<1> USE EvidenceAssumption DEF EvidenceInv
<1> DEFINE Stutter == /\ workerBoots' = workerBoots /\ fenced' = fenced
                      /\ Origins' = Origins
           Goal == [Authority!AuthorityNext]_(Authority!authorityVars)
<1>0. Stutter => Goal
  BY DEF Authority!authorityVars, Origins
<1>1. ASSUME NEW s \in Socket, NEW w \in Worker, NEW b \in Boot, Register(s, w, b)
      PROVE  Goal
  <2>1. Authority!Admit(w, b)
    BY <1>1 DEF Register, Authority!Admit
  <2> QED BY <2>1 DEF Authority!AuthorityNext
<1>2. ASSUME NEW w \in Worker, NEW b \in Boot, NEW e \in Endpoint,
             NEW g \in Generation, NEW up \in EndpointUp,
             PublishEndpoint(w, b, e, g, up)
      PROVE  Goal
  <2>1. workerBoots[w] = b /\ b # None
    BY <1>2 DEF PublishEndpoint, Authorized, AuthorityTablesAgree
  <2>2. Origins' = [Origins EXCEPT ![e] = <<w, b>>]
    <3>1. \A f \in Endpoint : endpoints'[f] =
            IF f = e THEN [gen |-> g, worker |-> w, boot |-> b, up |-> up]
            ELSE endpoints[f]
      BY <1>2 DEF PublishEndpoint, EvidenceTypeOK
    <3>2. \A f \in Endpoint : <<endpoints'[f].worker, endpoints'[f].boot>> =
            IF f = e THEN <<w, b>> ELSE <<endpoints[f].worker, endpoints[f].boot>>
      <4>1. ASSUME NEW f \in Endpoint, f = e
            PROVE  endpoints'[f].worker = w /\ endpoints'[f].boot = b
        BY <3>1, <4>1
      <4>2. ASSUME NEW f \in Endpoint, f # e
            PROVE  endpoints'[f] = endpoints[f]
        BY <3>1, <4>2
      <4> QED BY <4>1, <4>2
    <3>3. Origins' = [f \in Endpoint |->
            IF f = e THEN <<w, b>> ELSE <<endpoints[f].worker, endpoints[f].boot>>]
      BY <3>2 DEF Origins
    <3> QED BY <3>3 DEF Origins
  <2>3. Authority!Accept(w, e)
    BY <1>2, <2>1, <2>2 DEF PublishEndpoint, Authority!Accept, Origins
  <2> QED BY <2>3 DEF Authority!AuthorityNext
<1>3. ASSUME NEW w \in Worker, NEW b \in Boot, NEW l \in Link,
             NEW g \in Generation, NEW healthy \in LinkHealthy,
             NEW hard \in LinkHard, PublishLink(w, b, l, g, healthy, hard)
      PROVE  Goal
  <2>1. Stutter
    BY <1>3 DEF PublishLink, Origins
  <2> QED BY <2>1, <1>0
<1>4. CASE PublishCapacity
  <2>1. Stutter
    BY <1>4 DEF PublishCapacity, Origins
  <2> QED BY <2>1, <1>0
<1>5. ASSUME NEW l \in Link, NEW hard \in LinkHard, PublishCongestion(l, hard)
      PROVE  Goal
  <2>1. Stutter
    BY <1>5 DEF PublishCongestion, Origins
  <2> QED BY <2>1, <1>0
<1>6. ASSUME NEW s \in Socket, Disconnect(s)
      PROVE  Goal
  <2> DEFINE w == socketToWorker[s]
  <2>1. w \in Worker /\ workers[w] \in WorkerInfo /\ workers[w].boot \in Boot
    BY <1>6, SocketLeadsToBoot DEF Disconnect
  <2>2. /\ workerBoots' = [workerBoots EXCEPT ![w] = None]
        /\ fenced' = fenced \cup {<<w, workers[w].boot>>}
    BY <1>6 DEF Disconnect, FenceWorker
  <2>3. Origins' = Origins
    BY <1>6, <2>1, FencingKeepsOrigins DEF Disconnect, FenceWorker
  <2>4. CASE workers[w].alive
    <3>1. workerBoots[w] = workers[w].boot /\ workerBoots[w] # None
      BY <2>1, <2>4 DEF AuthorityTablesAgree
    <3>2. Authority!Revoke(w)
      BY <2>2, <2>3, <3>1 DEF Authority!Revoke, Origins
    <3> QED BY <2>1, <3>2 DEF Authority!AuthorityNext
  <2>5. CASE ~workers[w].alive
    <3>1. <<w, workers[w].boot>> \in fenced
      BY <2>1, <2>5 DEF DeadIsFenced
    <3>2. workerBoots[w] = None
      BY <2>1, <2>5 DEF AuthorityTablesAgree
    <3>3. workerBoots' = workerBoots
      BY <2>1, <2>2, <3>2 DEF EvidenceTypeOK
    <3>4. fenced' = fenced
      BY <2>2, <3>1
    <3> QED BY <2>3, <3>3, <3>4, <1>0
  <2> QED BY <2>4, <2>5
<1>7. CASE UNCHANGED evidenceVars
  <2>1. Stutter
    BY <1>7 DEF evidenceVars, Origins
  <2> QED BY <2>1, <1>0
<1> QED BY <1>1, <1>2, <1>3, <1>4, <1>5, <1>6, <1>7 DEF EvidenceNext

\* The snapshot implements WorkerAuthority: one live boot per worker, evidence
\* only from live boots, and no way back for a revoked boot.
THEOREM EvidenceImplementsAuthority == EvidenceSpec => ImplementsAuthority
<1>1. EvidenceInit => Authority!AuthorityInit
  BY DEF EvidenceInit, Authority!AuthorityInit, NoBoots, NoEndpoints, NoEndpoint
<1>2. EvidenceInv /\ [EvidenceNext]_evidenceVars =>
        [Authority!AuthorityNext]_(Authority!authorityVars)
  BY AuthorityStep
<1> QED BY EvidenceInvariant, <1>1, <1>2, PTL
        DEF EvidenceSpec, ImplementsAuthority, Authority!AuthoritySpec

-----------------------------------------------------------------------------
(* The broker. *)

\* One capacity for every thread.
Bound == Cardinality(Thread) * Capacity

\* What the threads that are about to add to r can make of held[r].
Room(r) ==
  r \notin wrapped =>
    /\ held[r] <= Bound
    /\ \A t \in Adding(r) : call[t].size <= Capacity
    /\ Adding(r) # {} =>
         \E t \in Adding(r) :
           held[r] + (Cardinality(Adding(r)) - 1) * Capacity + call[t].size <= Bound

\* The inductive invariant.
BrokerInv == BrokerTypeOK /\ \A r \in Resource : Room(r)

\* A smaller number of capacities is not more.
LEMMA TimesMonotone ==
  ASSUME NEW a \in Int, NEW b \in Int, NEW m \in Nat, a <= b
  PROVE  a * m <= b * m
<1>1. b - a \in Nat
  OBVIOUS
<1>2. (b - a) * m \in Nat
  BY <1>1
<1>3. b * m = a * m + (b - a) * m
  OBVIOUS
<1> QED BY <1>2, <1>3

\* The bound is a number.
LEMMA BoundType ==
  ASSUME IsFiniteSet(Thread)
  PROVE  Cardinality(Thread) \in Nat /\ Bound \in Nat
<1>1. Cardinality(Thread) \in Nat
  BY FS_CardinalityType
<1>2. \A n \in Nat : n * Capacity \in Nat
  BY BrokerAssumption
<1> QED BY <1>1, <1>2 DEF Bound

\* A size is a number.
LEMMA SizeFacts ==
  ASSUME BrokerTypeOK, NEW t \in Thread
  PROVE  call[t] \in Calls /\ call[t].size \in Nat
<1>1. call[t] \in Calls
  BY DEF BrokerTypeOK
<1>2. call[t].size \in Sizes \cup {0}
  BY <1>1 DEF Calls
<1>3. \A n \in Sizes \cup {0} : n \in Nat
  BY BrokerAssumption
<1> QED BY <1>1, <1>2, <1>3

\* The 64-bit sum is a number, at most the sum, and equal to it where it fits.
LEMMA PlusFacts ==
  ASSUME BrokerTypeOK, NEW r \in Resource, NEW t \in Thread
  PROVE  /\ Plus(r, call[t].size) \in Nat
         /\ Plus(r, call[t].size) <= held[r] + call[t].size
         /\ held[r] + call[t].size < Word =>
              Plus(r, call[t].size) = held[r] + call[t].size
<1>1. held[r] + call[t].size \in Nat
  BY SizeFacts DEF BrokerTypeOK
<1>2. Word \in Nat /\ Word > 0
  BY BrokerAssumption
<1>3. \A a \in Nat : a % Word \in Nat /\ a % Word < Word
  BY <1>2
<1>4. \A a \in Nat : a < Word => a % Word = a
  BY <1>2
<1>5. \A a \in Nat : a % Word <= a
  <2> SUFFICES ASSUME NEW a \in Nat PROVE a % Word <= a
    OBVIOUS
  <2>1. CASE a < Word
    BY <1>4, <2>1
  <2>2. CASE ~(a < Word)
    BY <1>2, <1>3, <2>2
  <2> QED BY <2>1, <2>2
<1> QED BY <1>1, <1>3, <1>4, <1>5 DEF Plus

\* The threads about to add to r can be counted.
LEMMA AddingFinite ==
  ASSUME IsFiniteSet(Thread), NEW r \in Resource
  PROVE  /\ IsFiniteSet(Adding(r)) /\ Cardinality(Adding(r)) \in Nat
         /\ Cardinality(Adding(r)) <= Cardinality(Thread)
         /\ Adding(r) # {} => Cardinality(Adding(r)) >= 1
<1>1. Adding(r) \subseteq Thread
  BY DEF Adding
<1>2. IsFiniteSet(Adding(r)) /\ Cardinality(Adding(r)) <= Cardinality(Thread)
  BY <1>1, FS_Subset
<1>3. Cardinality(Adding(r)) \in Nat
  BY <1>2, FS_CardinalityType
<1>4. Adding(r) # {} => Cardinality(Adding(r)) # 0
  BY <1>2, FS_EmptySet
<1> QED BY <1>2, <1>3, <1>4

-----------------------------------------------------------------------------
\* Every step of the broker and of its callers keeps the types.
LEMMA BrokerTypeNext ==
  ASSUME BrokerTypeOK, [BrokerNext]_brokerVars
  PROVE  BrokerTypeOK'
<1> USE DEF BrokerTypeOK
<1>1. ASSUME NEW t \in Thread, NEW rs \in SUBSET Resource, NEW size \in Sizes,
             AcquireCall(t, rs, size), UNCHANGED held
      PROVE  BrokerTypeOK'
  <2>1. [pc |-> "check", rs |-> rs, size |-> size, ok |-> FALSE] \in Calls
    BY DEF Calls
  <2> QED BY <1>1, <2>1 DEF AcquireCall
<1>2. ASSUME NEW t \in Thread, AcquireCheck(t)
      PROVE  BrokerTypeOK'
  <2>1. /\ [call[t] EXCEPT !.pc = "add"] \in Calls
        /\ [call[t] EXCEPT !.pc = "done"] \in Calls
    BY DEF Calls
  <2>2. call' \in [Thread -> Calls] /\ held' = held
    BY <1>2, <2>1 DEF AcquireCheck
  <2>3. call[t].rs \subseteq Resource
    BY DEF Calls
  <2>4. wrapped' \subseteq Resource
    BY <1>2, <2>3 DEF AcquireCheck, Wraps
  <2> QED BY <2>2, <2>4
<1>3. ASSUME NEW t \in Thread, AcquireAdd(t)
      PROVE  BrokerTypeOK'
  <2>1. [call[t] EXCEPT !.pc = "done", !.ok = TRUE] \in Calls
    BY DEF Calls
  <2>2. call' \in [Thread -> Calls]
    BY <1>3, <2>1 DEF AcquireAdd
  <2>3. \A r \in Resource : Plus(r, call[t].size) \in Nat
    BY PlusFacts
  <2>4. held' \in [Resource -> Nat] /\ wrapped' = wrapped
    BY <1>3, <2>3 DEF AcquireAdd
  <2> QED BY <2>2, <2>4
<1>4. ASSUME NEW t \in Thread, AcquireReturn(t), UNCHANGED held
      PROVE  BrokerTypeOK'
  <2>1. Idle \in Calls
    BY DEF Idle, Calls
  <2> QED BY <1>4, <2>1 DEF AcquireReturn
<1>5. ASSUME NEW rs \in SUBSET Resource, held' = Released(rs), UNCHANGED <<call, wrapped>>
      PROVE  BrokerTypeOK'
  BY <1>5 DEF Released
<1>6. CASE UNCHANGED brokerVars
  BY <1>6 DEF brokerVars
<1> QED BY <1>1, <1>2, <1>3, <1>4, <1>5, <1>6 DEF BrokerNext

\* A step that adds nothing to r and leaves the threads about to add to r as
\* they are keeps the room there was.
LEMMA RoomKept ==
  ASSUME IsFiniteSet(Thread), BrokerTypeOK, BrokerTypeOK', NEW r \in Resource, Room(r),
         r \in wrapped => r \in wrapped',
         held'[r] <= held[r], Adding(r)' = Adding(r),
         \A t \in Adding(r) : call'[t].size = call[t].size
  PROVE  Room(r)'
<1> SUFFICES ASSUME r \notin wrapped
             PROVE  Room(r)'
  BY DEF Room
<1> DEFINE k == (Cardinality(Adding(r)) - 1) * Capacity
<1>1. held[r] \in Nat /\ held'[r] \in Nat /\ Bound \in Nat
  BY BoundType DEF BrokerTypeOK
<1>2. k \in Int
  BY AddingFinite, BrokerAssumption
<1>3. Bound' = Bound
  BY DEF Bound
<1>4. ASSUME NEW t \in Adding(r), held[r] + k + call[t].size <= Bound
      PROVE  held'[r] + k + call'[t].size <= Bound
  <2>1. t \in Thread
    BY DEF Adding
  <2>2. call[t].size \in Nat /\ call'[t].size = call[t].size
    BY <2>1, SizeFacts
  <2> HIDE DEF k
  <2> QED BY <1>1, <1>2, <1>4, <2>2
<1>5. held'[r] <= Bound
  BY <1>1 DEF Room
<1>6. \A t \in Adding(r)' : call'[t].size <= Capacity
  BY DEF Room
<1> QED BY <1>3, <1>4, <1>5, <1>6 DEF Room

\* A thread that has compared successfully joins the threads about to add.
LEMMA RoomJoined ==
  ASSUME IsFiniteSet(Thread), BrokerTypeOK, BrokerTypeOK', NEW r \in Resource, Room(r),
         NEW t \in Thread, held'[r] = held[r], Adding(r)' = Adding(r) \cup {t},
         \A v \in Thread : call'[v].size = call[v].size,
         r \in wrapped => r \in wrapped',
         held[r] + call[t].size >= Word => r \in wrapped',
         Plus(r, call[t].size) <= Capacity
  PROVE  Room(r)'
<1> SUFFICES ASSUME r \notin wrapped, held[r] + call[t].size < Word
             PROVE  Room(r)'
  <2>1. held[r] + call[t].size \in Nat /\ Word \in Nat
    BY SizeFacts, BrokerAssumption DEF BrokerTypeOK
  <2>2. held[r] + call[t].size < Word \/ r \in wrapped'
    BY <2>1
  <2>3. CASE r \in wrapped'
    BY <2>3 DEF Room
  <2>4. CASE r \notin wrapped'
    BY <2>2, <2>4
  <2> QED BY <2>3, <2>4
<1> DEFINE k == (Cardinality(Adding(r)') - 1) * Capacity
           n == (Cardinality(Thread) - 1) * Capacity
<1>1. held[r] + call[t].size <= Capacity
  BY PlusFacts
<1>2. Adding(r)' \subseteq Thread /\ t \in Adding(r)'
  BY DEF Adding
<1>3. IsFiniteSet(Adding(r)') /\ Cardinality(Adding(r)') <= Cardinality(Thread)
  BY <1>2, FS_Subset
<1>4. Cardinality(Adding(r)') \in Nat /\ Cardinality(Thread) \in Nat
  BY <1>3, FS_CardinalityType
<1>5. k <= n /\ k \in Int /\ n \in Int
  <2> DEFINE a == Cardinality(Adding(r)') - 1
             b == Cardinality(Thread) - 1
  <2>1. a \in Int /\ b \in Int /\ a <= b
    BY <1>3, <1>4
  <2> HIDE DEF a, b
  <2>2. a * Capacity <= b * Capacity /\ a * Capacity \in Int /\ b * Capacity \in Int
    BY <2>1, TimesMonotone, BrokerAssumption
  <2> QED BY <2>2 DEF a, b
<1>6. held[r] \in Nat /\ call[t].size \in Nat /\ Capacity \in Nat
  BY SizeFacts, BrokerAssumption DEF BrokerTypeOK
<1>7. Bound = Capacity + n
  <2>1. \A c \in Nat : c * Capacity = Capacity + (c - 1) * Capacity
    BY <1>6
  <2> QED BY <1>4, <2>1 DEF Bound
<1>8. held'[r] + k + call'[t].size <= Bound /\ call'[t].size <= Capacity
  <2> HIDE DEF k, n
  <2> QED BY <1>1, <1>5, <1>6, <1>7
<1>9. held'[r] <= Bound /\ Bound' = Bound
  BY DEF Room, Bound
<1>10. \A v \in Adding(r)' : call'[v].size <= Capacity
  BY <1>2, <1>8 DEF Room
<1> QED BY <1>2, <1>8, <1>9, <1>10 DEF Room

\* A thread about to add to r does so, or its addition is lost.
LEMMA RoomAdded ==
  ASSUME IsFiniteSet(Thread), BrokerTypeOK, BrokerTypeOK', NEW r \in Resource, Room(r),
         NEW u \in Adding(r), held'[r] <= held[r] + call[u].size,
         Adding(r)' = Adding(r) \ {u}, wrapped' = wrapped,
         \A t \in Adding(r) : call'[t].size = call[t].size
  PROVE  Room(r)'
<1> SUFFICES ASSUME r \notin wrapped
             PROVE  Room(r)'
  BY DEF Room
<1> DEFINE c == Cardinality(Adding(r))
           k == (c - 1) * Capacity
           j == (c - 2) * Capacity
<1>0. \A t \in Adding(r) : t \in Thread /\ call[t].size \in Nat
                             /\ call[t].size <= Capacity
  BY SizeFacts DEF Adding, Room
<1>1. PICK t \in Adding(r) : held[r] + k + call[t].size <= Bound
  BY DEF Room
<1>2. c \in Nat /\ c >= 1 /\ Capacity \in Nat
  BY AddingFinite, BrokerAssumption
<1>3. Cardinality(Adding(r)') = c - 1
  BY AddingFinite, FS_RemoveElement
<1>4. k \in Nat /\ j \in Int /\ k = j + Capacity
  <2> DEFINE d == c - 1
  <2> HIDE DEF c
  <2>1. d \in Nat /\ c - 2 = d - 1
    BY <1>2
  <2> HIDE DEF d
  <2>2. d * Capacity \in Nat /\ (d - 1) * Capacity = d * Capacity - Capacity
    BY <1>2, <2>1
  <2> QED BY <1>2, <2>1, <2>2 DEF d
<1>5. held[r] \in Nat /\ held'[r] \in Nat /\ Bound \in Nat /\ Bound' = Bound
  BY BoundType DEF BrokerTypeOK, Bound
<1>6. (Cardinality(Adding(r)') - 1) * Capacity = j
  BY <1>2, <1>3
<1>7. \A v \in Adding(r)' : call'[v].size <= Capacity
  BY <1>0
<1>8. CASE u # t
  <2>1. t \in Adding(r)' /\ call'[t].size = call[t].size
    BY <1>8
  <2>2. held'[r] + j + call'[t].size <= Bound /\ held'[r] <= Bound
    <3>1. c >= 2
      <4>1. Cardinality(Adding(r)') # 0
        BY <2>1, AddingFinite, FS_RemoveElement, FS_EmptySet
      <4> HIDE DEF c
      <4> QED BY <1>2, <1>3, <4>1
    <3>2. j \in Nat
      BY <1>2, <3>1
    <3> HIDE DEF k, j, c
    <3> QED BY <1>0, <1>1, <1>2, <1>4, <1>5, <2>1, <3>2
  <2> QED BY <1>5, <1>6, <1>7, <2>1, <2>2 DEF Room
<1>9. CASE u = t
  <2>1. held'[r] <= Bound
    <3> HIDE DEF k, j, c
    <3> QED BY <1>0, <1>1, <1>4, <1>5, <1>9
  <2>2. ASSUME NEW v \in Adding(r)'
        PROVE  held'[r] + j + call'[v].size <= Bound
    <3>1. v \in Adding(r) /\ call'[v].size = call[v].size
      BY <2>2
    <3> HIDE DEF k, j, c
    <3> QED BY <1>0, <1>1, <1>2, <1>4, <1>5, <1>9, <3>1
  <2> QED BY <1>5, <1>6, <1>7, <2>1, <2>2 DEF Room
<1> QED BY <1>8, <1>9

\* Every step of the broker and of its callers keeps the inductive invariant.
LEMMA BrokerInvNext ==
  ASSUME IsFiniteSet(Thread), BrokerInv, [BrokerNext]_brokerVars
  PROVE  BrokerInv'
<1> USE DEF BrokerInv
<1>0. BrokerTypeOK'
  BY BrokerTypeNext
<1> SUFFICES ASSUME NEW r \in Resource PROVE Room(r)'
  BY <1>0
<1>1. ASSUME NEW t \in Thread, NEW rs \in SUBSET Resource, NEW size \in Sizes,
             AcquireCall(t, rs, size), UNCHANGED held
      PROVE  Room(r)'
  <2>1. Adding(r)' = Adding(r) /\ \A v \in Adding(r) : call'[v].size = call[v].size
    BY <1>1 DEF AcquireCall, Adding, BrokerTypeOK
  <2>2. held'[r] <= held[r]
    BY <1>1 DEF BrokerTypeOK
  <2>3. wrapped' = wrapped
    BY <1>1 DEF AcquireCall
  <2> QED BY <1>0, <2>1, <2>2, <2>3, RoomKept
<1>2. ASSUME NEW t \in Thread, AcquireCheck(t)
      PROVE  Room(r)'
  <2>1. /\ \A v \in Thread : call'[v].size = call[v].size /\ call'[v].rs = call[v].rs
        /\ \A v \in Thread \ {t} : call'[v].pc = call[v].pc
        /\ call[t].pc = "check"
    BY <1>2 DEF AcquireCheck, BrokerTypeOK, Calls
  <2>2. held' = held /\ held'[r] <= held[r]
    BY <1>2 DEF AcquireCheck, BrokerTypeOK
  <2>3. r \in wrapped => r \in wrapped'
    BY <1>2 DEF AcquireCheck
  <2>4. CASE t \in Adding(r)'
    <3>1. r \in call[t].rs /\ call'[t].pc = "add"
      BY <2>1, <2>4 DEF Adding
    <3>2. /\ Plus(r, call[t].size) <= Capacity
          /\ wrapped' = wrapped \cup Wraps(t)
      BY <1>2, <3>1 DEF AcquireCheck, BrokerTypeOK, Calls
    <3>3. held[r] + call[t].size >= Word => r \in wrapped'
      BY <3>1, <3>2 DEF Wraps
    <3>4. Adding(r)' = Adding(r) \cup {t}
      BY <2>1, <2>4 DEF Adding
    <3> QED BY <1>0, <2>1, <2>2, <2>3, <3>2, <3>3, <3>4, RoomJoined
  <2>5. CASE t \notin Adding(r)'
    <3>1. Adding(r)' = Adding(r)
      BY <2>1, <2>5 DEF Adding
    <3>2. \A v \in Adding(r) : call'[v].size = call[v].size
      BY <2>1 DEF Adding
    <3> QED BY <1>0, <2>2, <2>3, <3>1, <3>2, RoomKept
  <2> QED BY <2>4, <2>5
<1>3. ASSUME NEW t \in Thread, AcquireAdd(t)
      PROVE  Room(r)'
  <2>1. /\ \A v \in Thread : call'[v].size = call[v].size /\ call'[v].rs = call[v].rs
        /\ \A v \in Thread \ {t} : call'[v].pc = call[v].pc
        /\ call[t].pc = "add" /\ call'[t].pc = "done" /\ wrapped' = wrapped
    BY <1>3 DEF AcquireAdd, BrokerTypeOK, Calls
  <2>2. Adding(r)' = Adding(r) \ {t}
    BY <2>1 DEF Adding
  <2>3. \A v \in Adding(r) : call'[v].size = call[v].size
    BY <2>1 DEF Adding
  <2>4. CASE r \in call[t].rs
    <3>1. t \in Adding(r)
      BY <2>1, <2>4 DEF Adding
    <3>2. held'[r] = Plus(r, call[t].size) \/ held'[r] = held[r]
      BY <1>3 DEF AcquireAdd
    <3>3. Plus(r, call[t].size) <= held[r] + call[t].size
      BY PlusFacts
    <3>4. held'[r] <= held[r] + call[t].size
      BY <3>2, <3>3, SizeFacts DEF BrokerTypeOK
    <3> QED BY <1>0, <2>1, <2>2, <2>3, <3>1, <3>4, RoomAdded
  <2>5. CASE r \notin call[t].rs
    <3>1. Adding(r)' = Adding(r)
      BY <2>2, <2>5 DEF Adding
    <3>2. held'[r] <= held[r]
      BY <1>3, <2>5 DEF AcquireAdd, BrokerTypeOK
    <3> QED BY <1>0, <2>1, <2>3, <3>1, <3>2, RoomKept
  <2> QED BY <2>4, <2>5
<1>4. ASSUME NEW t \in Thread, AcquireReturn(t), UNCHANGED held
      PROVE  Room(r)'
  <2>1. Adding(r)' = Adding(r) /\ \A v \in Adding(r) : call'[v].size = call[v].size
    BY <1>4 DEF AcquireReturn, Adding, BrokerTypeOK, Idle
  <2>2. held'[r] <= held[r]
    BY <1>4 DEF BrokerTypeOK
  <2>3. wrapped' = wrapped
    BY <1>4 DEF AcquireReturn
  <2> QED BY <1>0, <2>1, <2>2, <2>3, RoomKept
<1>5. ASSUME NEW rs \in SUBSET Resource, held' = Released(rs), UNCHANGED <<call, wrapped>>
      PROVE  Room(r)'
  <2>1. Adding(r)' = Adding(r) /\ \A v \in Adding(r) : call'[v].size = call[v].size
    BY <1>5 DEF Adding
  <2>2. held'[r] <= held[r]
    BY <1>5 DEF Released, BrokerTypeOK
  <2> QED BY <1>0, <1>5, <2>1, <2>2, RoomKept
<1>6. CASE UNCHANGED brokerVars
  <2>1. Adding(r)' = Adding(r) /\ \A v \in Adding(r) : call'[v].size = call[v].size
    BY <1>6 DEF brokerVars, Adding
  <2>2. held'[r] <= held[r] /\ wrapped' = wrapped
    BY <1>6 DEF brokerVars, BrokerTypeOK
  <2> QED BY <1>0, <2>1, <2>2, RoomKept
<1> QED BY <1>1, <1>2, <1>3, <1>4, <1>5, <1>6 DEF BrokerNext

\* Nothing is held and no call is running at first.
LEMMA BrokerInvInit ==
  ASSUME IsFiniteSet(Thread), BrokerInit
  PROVE  BrokerInv
<1>1. BrokerTypeOK
  BY DEF BrokerInit, BrokerTypeOK, NothingHeld, AllIdle, Idle, Calls
<1>2. ASSUME NEW r \in Resource PROVE Room(r)
  <2>1. held[r] = 0 /\ Adding(r) = {}
    BY DEF BrokerInit, NothingHeld, AllIdle, Idle, Adding
  <2> QED BY <2>1, BoundType DEF Room
<1> QED BY <1>1, <1>2 DEF BrokerInv

\* The broker's tables are well typed, however its unlocked calls interleave.
THEOREM BrokerTypeCorrect == BrokerSpec => []BrokerTypeOK
<1>1. BrokerInit => BrokerTypeOK
  BY DEF BrokerInit, BrokerTypeOK, NothingHeld, AllIdle, Idle, Calls
<1>2. BrokerTypeOK /\ [BrokerNext]_brokerVars => BrokerTypeOK'
  BY BrokerTypeNext
<1> QED BY <1>1, <1>2, PTL DEF BrokerSpec

\* MemoryResourceBroker holds a resource beyond its capacity by at most one more
\* capacity for every other thread, for any finite number of threads and whatever
\* 64-bit sizes clients ask for, until a comparison of that resource lets a
\* request through on a sum that wrapped.
THEOREM OvershootIsBounded ==
  ASSUME IsFiniteSet(Thread)
  PROVE  BrokerSpec => []OvershootBounded
<1>1. BrokerInit => BrokerInv
  BY BrokerInvInit
<1>2. BrokerInv /\ [BrokerNext]_brokerVars => BrokerInv'
  BY BrokerInvNext
<1>3. BrokerInv => OvershootBounded
  BY DEF BrokerInv, Room, Bound, OvershootBounded
<1> QED BY <1>1, <1>2, <1>3, PTL DEF BrokerSpec

=============================================================================
