-------------------------- MODULE WorkerAuthority --------------------------
(***************************************************************************)
(* What the coordinator promises about worker incarnations, with no        *)
(* sockets, connections or evidence contents: a worker has at most one     *)
(* live boot, only a live boot gets evidence accepted, and a revoked boot  *)
(* is never live again.  Evidence.tla is shown to implement this.          *)
(***************************************************************************)
CONSTANTS Worker, Boot, Endpoint, None

VARIABLES
  live,      \* live[w]: the boot of w whose evidence counts, or None
  revoked,   \* the incarnations that may never come back
  origin     \* origin[e]: the incarnation whose evidence about e is on record

authorityVars == <<live, revoked, origin>>

AuthorityInit ==
  /\ live = [w \in Worker |-> None]
  /\ revoked = {}
  /\ origin = [e \in Endpoint |-> <<None, None>>]

Admit(w, b) ==
  /\ <<w, b>> \notin revoked
  /\ live' = [live EXCEPT ![w] = b]
  /\ UNCHANGED <<revoked, origin>>

Accept(w, e) ==
  /\ live[w] # None
  /\ origin' = [origin EXCEPT ![e] = <<w, live[w]>>]
  /\ UNCHANGED <<live, revoked>>

Revoke(w) ==
  /\ live[w] # None
  /\ revoked' = revoked \cup {<<w, live[w]>>}
  /\ live' = [live EXCEPT ![w] = None]
  /\ UNCHANGED origin

AuthorityNext ==
  \/ \E w \in Worker, b \in Boot : Admit(w, b)
  \/ \E w \in Worker, e \in Endpoint : Accept(w, e)
  \/ \E w \in Worker : Revoke(w)

AuthoritySpec == AuthorityInit /\ [][AuthorityNext]_authorityVars

=============================================================================
