SPECIFICATION ServerSpec
CONSTANTS
  Conn = {c1, c2}
  Handle = {h1, h2}
  None = None
CHECK_DEADLOCK FALSE
INVARIANTS
  ServerTypeOK
  WaitingIsRecorded
  RegistrationNotInherited
  NothingOutlivesStop
PROPERTY StopEnds
