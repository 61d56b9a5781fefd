SPECIFICATION CodecSpec
CONSTANTS
  Base = 8
  Width <- MCWidth
  MaxJoints = 2
  MaxPoses = 3
  MaxText = 3
  CountWidth = 1
  Objects <- MCObjects
  MaxReads = 2
  MaxDamaged = 1
INVARIANT TrajectoryAsDocumented
CHECK_DEADLOCK FALSE
