SPECIFICATION Spec
CONSTANTS
  RestFlags <- RestNever
  FaultFlags <- FaultsNone
  MaxFaults = 0
  Requests <- LifecycleRequests
  NumJoints = 7
  MaxRequests = 2
  MaxSessions = 2
  MaxActivations = 2
  HostCalls = {"deactivate", "destroy", "destruct"}
  ClientMayStall = FALSE
INVARIANTS
  NoThreadMisuse
  ServerOutlivesRpcThread
  NoWorkerAfterDestruction
CHECK_DEADLOCK FALSE
