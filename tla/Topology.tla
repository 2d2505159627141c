------------------------------ MODULE Topology ------------------------------
(***************************************************************************)
(* The graph the planner works on (include/communication_planner/model):   *)
(* endpoints, and links that lead from one endpoint to another.  There may *)
(* be several links between the same two endpoints.                        *)
(***************************************************************************)
CONSTANTS
  Endpoint, Link,
  From, To        \* From[l], To[l]: the source and destination of link l

ASSUME TopologyAssumption ==
  /\ From \in [Link -> Endpoint]
  /\ To \in [Link -> Endpoint]
=============================================================================
