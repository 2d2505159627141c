SPECIFICATION MCSpec
CONSTANTS
  host = host  gpu = gpu  wire = wire  b1 = b1  s1 = s1
  route = route  solo = solo  lone = lone
  Wid = w1
  Client = {c1}
  Program <- MCProgram
  MaxHandoffs = 1
  MaxStarts = 2
  Worker = {w1}
  Boot = {b1, b2}
  Socket = {s1, s2}
  Endpoint = {host, gpu}
  Link = {wire}
  Generation = {1}
  EndpointUp = {TRUE}
  LinkHealthy = {TRUE}
  LinkHard = {FALSE}
  None = None
  MaxTopology = 8
  MaxDynamic = 4
  Thread = {}
  Resource = {}
  Capacity = 3
  Word = 16
  Sizes = {2}
  Request = {r1, lone}
  Route = {route, solo}
  RouteLinks <- MCRouteLinks
  RouteEnds <- MCRouteEnds
  RouteSource <- MCRouteSource
  Relays <- MCRelays
  Candidates <- MCCandidates
  Participants <- MCParticipants
  Payload <- MCPayload
  MaxFallbacks <- MCFallbacks
  MaxPlans = 1
CHECK_DEADLOCK FALSE
INVARIANTS
  BoundTopologyBehind
  ExecutedByItsExecutor
PROPERTIES
  HandoffOnLiveEvidence
  NewPlanHasLiveExecutor
  CoordinatorBehaves
  ExecuteAnswered
