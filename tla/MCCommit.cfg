SPECIFICATION SteadySpec
CONSTANTS
  src = src  dst = dst  relay = relay
  direct = direct  hop1 = hop1  hop2 = hop2
  directRoute = directRoute  stagedRoute = stagedRoute  soloRoute = soloRoute
  large = large  lone = lone
  t1 = t1  t2 = t2
  Worker = {w1}
  Boot = {b1}
  Socket = {s1}
  Endpoint = {src, dst, relay}
  Link = {direct, hop1, hop2}
  Generation = {1}
  EndpointUp = {}
  LinkHealthy = {TRUE}
  LinkHard = {FALSE}
  None = None
  MaxTopology = 0
  MaxDynamic = 1
  Thread = {t1, t2}
  Resource = {relay}
  Capacity = 2
  Word = 16
  Sizes = {2, 15}
  Request = {r1, large}
  Route = {directRoute, stagedRoute}
  RouteLinks <- MCRouteLinks
  RouteEnds <- MCRouteEnds
  RouteSource <- MCRouteSource
  Relays <- MCRelays
  Candidates <- MCCandidates
  Participants <- MCParticipants
  Payload <- MCPayload
  MaxFallbacks <- MCFallbacks
  MaxPlans = 2
SYMMETRY Symmetry
CHECK_DEADLOCK FALSE
INVARIANTS
  TypeOK
  ExecutableNeedsNoStaging
  AwaitingCommitHasCommitter
  CommitCallMatches
  CurrentIsNewest
  OvershootBounded
PROPERTY CancelledNeverCommits
