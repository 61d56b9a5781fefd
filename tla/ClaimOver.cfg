SPECIFICATION Spec
CONSTANTS
  RestFlags <- RestAll
  FaultFlags <- FaultsNone
  MaxFaults = 0
  Requests <- MoveRequests
  NumJoints = 7
  MaxRequests = 2
  MaxSessions = 1
  MaxActivations = 1
  HostCalls = {}
  ClientMayStall = FALSE
INVARIANT
  FinishedMeansOver
