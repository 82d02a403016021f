CONSTANTS
  Kinds = {"imu", "ahrs", "other"}
  Payload <- PayloadCells
  PayloadMax = 4
  Ids = 2
  WireMax = 8
  MaxFaults = 1
SPECIFICATION ImuFairSpec
INVARIANTS
  ResyncsWithinBound
PROPERTIES
  PortRecovers
CHECK_DEADLOCK FALSE
