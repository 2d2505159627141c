SPECIFICATION PlannerSpec
CONSTANTS
  Endpoint <- MCEndpoint
  Link <- MCLink
  From <- MCFrom
  To <- MCTo
  Kind <- MCKind
  Evidence <- MCEvidence
  Payload = 40
  Weight <- MCWeight
  MaxCost = 1000000
  Request <- MCRequest
  Snapshot <- MCSnapshot
  Bound <- MCBound
INVARIANTS
  SearchSound
  SearchExact
  PlanMatchesReference
  StagelessOnlyAlone
PROPERTIES
  CallIsSearches
  PlannerTerminates
CHECK_DEADLOCK FALSE
