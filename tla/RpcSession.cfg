SPECIFICATION FairSessionSpec
CONSTANTS
  IdModulus = 3
  Capacity = 1
  MaxCalls = 3
  MaxNotes = 2
  MaxConnections = 2
  MaxCuts = 1
INVARIANTS
  SessionTypeOK
  AnswersOwnRequest
  NotificationsKept
PROPERTIES
  CallsReturn
  HandlersReturn
  NewConnectionIsServed
CHECK_DEADLOCK FALSE
