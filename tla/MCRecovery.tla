----------------------------- MODULE MCRecovery -----------------------------
(***************************************************************************)
(* Small instances of Recovery.  A direct and a staged route lead from src *)
(* to dst; to keep the evidence small both routes show their first link    *)
(* and the endpoints of the instance, and the relay is only the resource   *)
(* that the staged route claims.  The solo route is the one of a           *)
(* collective whose only participant is its root.                          *)
(***************************************************************************)
EXTENDS Recovery

CONSTANTS src, dst, wire, directRoute, stagedRoute, soloRoute,
          lone     \* a collective whose only participant is its root

MCRouteLinks == [q \in Route |-> IF q = soloRoute THEN {} ELSE {wire}]
MCRouteEnds  == [q \in Route |-> IF q = soloRoute THEN {} ELSE Endpoint]
MCRouteSource == [q \in Route |-> src]
MCRelays == [q \in Route |-> IF q = stagedRoute THEN Resource ELSE {}]
MCCandidates == [r \in Request |-> IF r = lone THEN {soloRoute} ELSE Route \ {soloRoute}]
MCParticipants == [r \in Request |-> IF r = lone THEN {src} ELSE {}]
MCFallbacks == [r \in Request |-> 0]
MCPayload == [r \in Request |-> CHOOSE n \in Sizes : TRUE]
=============================================================================
