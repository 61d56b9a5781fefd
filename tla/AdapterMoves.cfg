SPECIFICATION Spec
CONSTANTS
  RestFlags <- RestInSync
  FaultFlags <- FaultsFreedrive
  MaxFaults = 1
  Requests <- MoveRequests
  NumJoints = 7
  MaxRequests = 3
  MaxSessions = 1
  MaxActivations = 1
  HostCalls = {}
  ClientMayStall = FALSE
INVARIANTS
  TypeOK
  MoveInv
  OneFinishPerAction
  SingleMoveQueue
  CancelledMoveStays
  NotInProgressIsFinal
PROPERTIES
  KeepsMoveContract
  SuccessMeansReached
  FailureHasCause
