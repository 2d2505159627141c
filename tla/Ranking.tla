------------------------------- MODULE Ranking -------------------------------
(***************************************************************************)
(* What a candidate path costs (src/cost.cpp) and the order rankFeasible   *)
(* puts candidates in (src/ranking.cpp).  The doubles of the code are      *)
(* whole numbers here: payloads count thousands of bytes, costs count      *)
(* thousandths of a nanosecond and weights count halves, so that the       *)
(* smallest rates of the code (a microsecond per 10^9 bytes, 0.001 ns per  *)
(* hop, the weight 0.5) are 1.  A path is the sequence of its links.       *)
(***************************************************************************)
EXTENDS Topology, Integers, Sequences, FiniteSetsExt, Functions, TLC

CONSTANTS
  Kind,           \* Kind[e]: how e stages data as a relay
  Evidence,       \* Evidence[l]: what was published about link l
  Payload,        \* request.payloadSize
  Weight,         \* RankingWeights, by factor, in halves
  MaxCost         \* kMaxCost

Provenance ==
  {"MEASURED", "REPORTED", "DERIVED", "ESTIMATED", "FORECAST", "SYNTHETIC", "UNKNOWN"}

LinkEvidence ==
  [ bandwidth : Nat \ {0}, latency : Nat, penalty : Nat, headroom : Nat,
    locality : Nat, provenance : Provenance, capacityProvenance : Provenance ]

\* What evaluateCandidateCost fills in.  The distance of a hop's ends (NUMA, PCIe
\* and NIC) is one number of the evidence; two factors that are always 0 are left
\* out.
CostFactor ==
  { "PATH_LATENCY", "EFFECTIVE_BANDWIDTH", "RESIDUAL_BANDWIDTH",
    "CONGESTION_PENALTY", "QUEUEING_ESTIMATE", "HOP_COUNT", "STAGE_COUNT",
    "STAGING_OVERHEAD", "HOST_STAGING_COST", "LOCALITY", "STORAGE_LOCALITY",
    "ENDPOINT_HEALTH", "CAPACITY_HEADROOM", "RELIABILITY", "MOVEMENT_COST" }

ASSUME RankingAssumption ==
  /\ Link \subseteq Nat /\ Endpoint \subseteq Nat
  /\ Kind \in [Endpoint -> {"transport", "memory", "storage"}]
  /\ Evidence \in [Link -> LinkEvidence]
  /\ Payload \in Nat \ {0} /\ MaxCost \in Nat
  /\ Weight \in [CostFactor -> Nat]

\* clampCost, and a nanosecond.
Clamp(v) == IF v > MaxCost THEN MaxCost ELSE v
Ns == 1000

\* The interior endpoints of a path.
RelaysOf(p) == {To[p[i]] : i \in 1 .. Len(p) - 1}

\* The sum over the hops of a path of what f gives each link, every summand clamped.
SumHops(p, f) == SumFunction([i \in DOMAIN p |-> Clamp(f[p[i]])])

\* toTransferNs.
Transfer(l) == Clamp(Payload \div Evidence[l].bandwidth)

\* "less headroom => more contention cost"; none is charged when neither the
\* headroom nor its provenance is known.
Contention(l) ==
  LET e == Evidence[l] IN
  IF e.headroom > 0
  THEN Transfer(l) * Min({e.bandwidth \div (e.headroom + 1), 100})
  ELSE IF e.capacityProvenance # "UNKNOWN" THEN Transfer(l) * 2 ELSE 0

\* Evidence that was not observed adds a tenth of the transfer up to that hop.
HealthRisk(p) ==
  SumFunction([i \in DOMAIN p |->
    IF Evidence[p[i]].provenance \in {"UNKNOWN", "ESTIMATED", "FORECAST", "SYNTHETIC"}
    THEN Clamp(SumHops(SubSeq(p, 1, i), [l \in Link |-> Transfer(l)]) \div 10) ELSE 0])

TouchesStorage(l) == "storage" \in {Kind[From[l]], Kind[To[l]]}
StagedIn(p, kind) == \E e \in RelaysOf(p) : Kind[e] = kind

\* The value of every cost factor of a path.
Values(p) ==
  LET transfer == SumHops(p, [l \in Link |-> Transfer(l)])
      penalty  == SumHops(p, [l \in Link |-> Evidence[l].penalty])
      headroom == SumHops(p, [l \in Link |-> Contention(l)])
      staging  == IF Len(p) > 1 THEN Clamp(Payload * 4) ELSE 0
      host     == IF StagedIn(p, "memory") THEN Clamp(Payload * 3) ELSE 0
      storage  == SumHops(p, [l \in Link |-> IF TouchesStorage(l) THEN Payload ELSE 0])
                  + IF StagedIn(p, "storage") THEN Clamp(Payload * 6) ELSE 0
      ns == [ PATH_LATENCY |-> SumHops(p, [l \in Link |-> Evidence[l].latency]),
              EFFECTIVE_BANDWIDTH |-> transfer, RESIDUAL_BANDWIDTH |-> headroom,
              CONGESTION_PENALTY |-> penalty, QUEUEING_ESTIMATE |-> penalty,
              HOP_COUNT |-> Len(p) * Ns, STAGE_COUNT |-> Len(p) * Ns,
              STAGING_OVERHEAD |-> staging, HOST_STAGING_COST |-> host,
              LOCALITY |-> SumHops(p, [l \in Link |-> Evidence[l].locality]),
              STORAGE_LOCALITY |-> storage, ENDPOINT_HEALTH |-> HealthRisk(p),
              CAPACITY_HEADROOM |-> headroom, RELIABILITY |-> Len(p),
              MOVEMENT_COST |-> transfer + staging + host ]
  IN [f \in CostFactor |-> Clamp(ns[f])]

\* CostSummary::of: the weighted sum.
Total(p) == LET v == Values(p) IN SumFunction([f \in CostFactor |-> Weight[f] * v[f]])

\* worstProv: the last hop that is synthetic or unknown decides.
PathProvenance(p) ==
  LET weak == {i \in DOMAIN p : Evidence[p[i]].provenance \in {"SYNTHETIC", "UNKNOWN"}}
  IN IF weak = {} THEN "MEASURED" ELSE Evidence[p[Max(weak)]].provenance

\* The factors that carry the provenance of the path; the others are DERIVED.
Evidenced(p) ==
  { "PATH_LATENCY", "EFFECTIVE_BANDWIDTH", "RESIDUAL_BANDWIDTH",
    "CONGESTION_PENALTY", "QUEUEING_ESTIMATE", "ENDPOINT_HEALTH",
    "CAPACITY_HEADROOM", "MOVEMENT_COST" }
  \cup (IF Len(p) > 1 THEN {"STAGING_OVERHEAD"} ELSE {})
  \cup (IF StagedIn(p, "memory") THEN {"HOST_STAGING_COST"} ELSE {})

\* provenanceRank(worstProvenance(cost)): DERIVED at best.
ProvenanceRank(p) ==
  CASE PathProvenance(p) = "UNKNOWN" -> 6
    [] PathProvenance(p) = "SYNTHETIC" -> 5
    [] OTHER -> 2

Uncertainty(p) ==
  IF PathProvenance(p) = "UNKNOWN" THEN Cardinality(Evidenced(p)) ELSE 0

-----------------------------------------------------------------------------
\* s before t, compared element by element.
LexLess(s, t) ==
  \E i \in DOMAIN s \cap DOMAIN t :
    s[i] < t[i] /\ \A j \in 1 .. i - 1 : s[j] = t[j]

\* struct Key, made so that keyLess compares element by element: the link ids
\* come last, and a larger residual goes first.
Key(p) ==
  <<Total(p), Uncertainty(p), ProvenanceRank(p), Len(p),
    Values(p).CONGESTION_PENALTY, 0 - Values(p).RESIDUAL_BANDWIDTH, Len(p)>> \o p

\* rankFeasible.
RankFeasible(cands) == SortSeq(cands, LAMBDA p, q : LexLess(Key(p), Key(q)))
=============================================================================
