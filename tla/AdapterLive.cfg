SPECIFICATION FairSpec
CONSTANTS
  RestFlags <- RestInSync
  FaultFlags <- FaultsDark
  MaxFaults = 1
  Requests <- LiveRequests
  NumJoints = 7
  MaxRequests = 1
  MaxSessions = 1
  MaxActivations = 1
  HostCalls = {"deactivate"}
  ClientMayStall = TRUE
PROPERTIES
  HostCallsReturn
  MoveIsReported
CHECK_DEADLOCK FALSE
