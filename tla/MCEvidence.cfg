SPECIFICATION EvidenceSpec
CONSTANTS
  w1 = w1  w2 = w2  b1 = b1  b2 = b2  s1 = s1  s2 = s2
  Worker = {w1, w2}
  Boot = {b1, b2}
  Socket = {s1, s2}
  Endpoint = {e1}
  Link = {l1}
  Generation = {1, 2}
  EndpointUp = {TRUE, FALSE}
  LinkHealthy = {TRUE}
  LinkHard = {TRUE, FALSE}
  None = None
  MaxTopology = 2
  MaxDynamic = 2
SYMMETRY Symmetry
CHECK_DEADLOCK FALSE
INVARIANTS
  AuthorityTablesAgree
  FencedEvidenceStale
PROPERTIES
  FencedNeverPublishes
  TopologyCoversLinks
  ImplementsAuthority
