SPECIFICATION Spec
CONSTANTS
  RestFlags <- RestAll
  FaultFlags <- FaultsStop
  MaxFaults = 1
  Requests <- ProtocolRequests
  NumJoints = 7
  MaxRequests = 2
  MaxSessions = 2
  MaxActivations = 1
  HostCalls = {}
  ClientMayStall = TRUE
INVARIANTS
  AnswerBeforeFinish
  BlobContract
