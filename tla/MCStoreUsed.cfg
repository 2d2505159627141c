SPECIFICATION RecoverySpec
CONSTANTS
  src = src  dst = dst  wire = wire
  directRoute = directRoute  stagedRoute = stagedRoute  soloRoute = soloRoute
  lone = lone
  Worker = {w1}
  Boot = {b1}
  Socket = {s1}
  Endpoint = {src, dst}
  Link = {wire}
  Generation = {1}
  EndpointUp = {TRUE}
  LinkHealthy = {TRUE}
  LinkHard = {FALSE}
  None = None
  MaxTopology = 2
  MaxDynamic = 1
  Thread = {t1}
  Resource = {relay}
  Capacity = 3
  Word = 16
  Sizes = {2}
  Request = {r1}
  Route = {directRoute, stagedRoute}
  RouteLinks <- MCRouteLinks
  RouteEnds <- MCRouteEnds
  RouteSource <- MCRouteSource
  Relays <- MCRelays
  Candidates <- MCCandidates
  Participants <- MCParticipants
  Payload <- MCPayload
  MaxFallbacks <- MCFallbacks
  MaxPlans = 1
  Saver = {v1}
  MaxLives = 2
CHECK_DEADLOCK FALSE
PROPERTY SavedStoreIsUsed
