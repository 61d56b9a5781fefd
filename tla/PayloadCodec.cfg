SPECIFICATION CodecSpec
CONSTANTS
  Base = 8
  Width <- MCWidth
  MaxJoints = 2
  MaxPoses = 3
  MaxText = 3
  CountWidth = 1
  Objects <- MCObjects
  MaxReads = 2
  MaxDamaged = 1
INVARIANTS
  CodecTypeOK
  WholeIsUnderstood
  PartIsRefused
  ThrownIsRefused
  ReadsInside
  AcceptedCouldBeSent
PROPERTIES
  RefusedRequestKeepsOld
CHECK_DEADLOCK FALSE
