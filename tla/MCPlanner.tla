------------------------------ MODULE MCPlanner ------------------------------
(***************************************************************************)
(* A small graph with a cycle, two parallel links and a relay of every     *)
(* kind, for the planner.                                                  *)
(***************************************************************************)
EXTENDS Planner

MCEndpoint == 1 .. 4
MCLink == 1 .. 7
MCFrom == <<1, 2, 1, 1, 3, 3, 2>>
MCTo   == <<2, 3, 3, 3, 2, 4, 4>>
MCKind == <<"transport", "memory", "storage", "transport">>

\* Links 3 and 4 have no headroom left, which is all that is known of link 3; of
\* link 4 not even that.  Link 7 has weak evidence and link 5 is congested.
Measured ==
  [ bandwidth |-> 2, latency |-> 1000, penalty |-> 0, headroom |-> 1,
    locality |-> 0, provenance |-> "MEASURED", capacityProvenance |-> "MEASURED" ]
MCEvidence ==
  << Measured,
     [Measured EXCEPT !.headroom = 0],
     [Measured EXCEPT !.latency = 9000, !.headroom = 0],
     [Measured EXCEPT !.latency = 9000, !.headroom = 0, !.capacityProvenance = "UNKNOWN"],
     [Measured EXCEPT !.penalty = 3000, !.provenance = "SYNTHETIC"],
     [Measured EXCEPT !.headroom = 0, !.capacityProvenance = "UNKNOWN", !.locality = 200],
     [Measured EXCEPT !.latency = 2000000, !.provenance = "UNKNOWN"] >>
MCWeight == [f \in CostFactor |-> IF f = "HOP_COUNT" THEN 1 ELSE 2]

Ask ==
  [ shape |-> "POINT_TO_POINT", allowMulticast |-> FALSE, wellFormed |-> TRUE,
    policyCurrent |-> TRUE, source |-> 1, destinations |-> <<4>>,
    participants |-> <<>>, collectiveCount |-> 0, maxHops |-> 16, maxStages |-> 16,
    forbidden |-> {}, allowStaging |-> TRUE, allowHostStaging |-> TRUE,
    allowStorageStaging |-> TRUE, allowRelay |-> TRUE ]
MCRequest ==
  { Ask,
    [Ask EXCEPT !.shape = "STAGED", !.allowStorageStaging = FALSE],
    [Ask EXCEPT !.allowHostStaging = FALSE, !.maxHops = 2],
    [Ask EXCEPT !.allowRelay = FALSE, !.destinations = <<3>>],
    [Ask EXCEPT !.forbidden = {3, 6}],
    [Ask EXCEPT !.destinations = <<1>>],
    [Ask EXCEPT !.policyCurrent = FALSE],
    [Ask EXCEPT !.destinations = <<2, 4>>],
    [Ask EXCEPT !.shape = "UNKNOWN", !.destinations = <<>>],
    [Ask EXCEPT !.shape = "UNKNOWN", !.destinations = <<3, 4>>],
    [Ask EXCEPT !.shape = "MULTICAST", !.destinations = <<4, 3>>],
    [Ask EXCEPT !.allowMulticast = TRUE, !.destinations = <<2, 1, 4>>],
    [Ask EXCEPT !.shape = "COLLECTIVE", !.participants = <<1, 4, 3>>, !.collectiveCount = 3],
    [Ask EXCEPT !.shape = "COLLECTIVE", !.participants = <<2, 4, 2, 4>>, !.collectiveCount = 4],
    [Ask EXCEPT !.shape = "COLLECTIVE", !.participants = <<1, 2>>, !.collectiveCount = 3],
    [Ask EXCEPT !.shape = "COLLECTIVE", !.participants = <<3>>, !.collectiveCount = 1] }

Ascending == <<1, 2, 3, 4, 5, 6, 7>>
Descending == <<7, 6, 5, 4, 3, 2, 1>>
MCSnapshot ==
  { [links |-> SelectSeq(o, LAMBDA l : l \notin missing), dead |-> dead, down |-> down] :
      o \in {Ascending, Descending}, missing \in {{}, {6}},
      dead \in {{}, {3}, {6}, {1, 3}}, down \in {{}, {2}, {4}} }

Wide ==
  [ maxCandidates |-> 9, maxPathDepth |-> 16, maxRelayCount |-> 16,
    maxFallbacks |-> 2, maxCollectiveParticipants |-> 4 ]
MCBound ==
  { Wide,
    [Wide EXCEPT !.maxCandidates = 2],
    [Wide EXCEPT !.maxPathDepth = 2, !.maxFallbacks = 0],
    [Wide EXCEPT !.maxRelayCount = 1, !.maxCollectiveParticipants = 2] }
=============================================================================
