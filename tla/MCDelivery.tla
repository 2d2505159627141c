----------------------------- MODULE MCDelivery -----------------------------
(***************************************************************************)
(* The topology of cuda_worker_main: a host and a GPU endpoint and the     *)
(* link between them.  Besides the transfer from one to the other there    *)
(* may be a collective whose only participant is the host: its route has   *)
(* no link.                                                                *)
(***************************************************************************)
EXTENDS Delivery

CONSTANTS host, gpu, wire, b1, s1, route, solo, lone

MCProgram == <<host, gpu, wire, "CAPACITY", "CONGESTION">>
MCRouteLinks == [q \in Route |-> IF q = solo THEN {} ELSE {wire}]
MCRouteEnds  == [q \in Route |-> IF q = solo THEN {} ELSE {host, gpu}]
MCRouteSource == [q \in Route |-> host]
MCRelays == [q \in Route |-> {}]
MCCandidates == [r \in Request |-> IF r = lone THEN {solo} ELSE {route}]
MCParticipants == [r \in Request |-> IF r = lone THEN {host} ELSE {}]
MCFallbacks == [r \in Request |-> 0]
MCPayload == [r \in Request |-> CHOOSE n \in Sizes : TRUE]

\* The first process to start is called b1 and its handle s1.
FirstStarted ==
  /\ Init
  /\ proc = [b \in Boot |-> IF b = b1 THEN [sock |-> s1, at |-> 0] ELSE NotRunning]
  /\ peerOf = [s \in Socket |-> IF s = s1 THEN b1 ELSE None]
  /\ up = [s \in Socket |-> IF s = s1 THEN <<Publish(0)>> ELSE <<>>]
  /\ down = [s \in Socket |-> <<>>]
  /\ sending = [c \in Client |-> None]
  /\ starts = 1 /\ handoffs = 0 /\ executed = {} /\ refused = {}

MCSpec == FirstStarted /\ [][DeliveryNext]_deliveryVars /\ DeliveryFairness
=============================================================================
