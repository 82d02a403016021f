CONSTANTS
  c1 = c1
  p1 = p1
  g1 = g1
  ZeroPose = zeroPose
  ZeroGain = zeroGain
  NaN = nan
  Pose = {zeroPose, p1}
  Gain = {zeroGain, g1}
  Channel <- OneChannel
  MotorCount <- TwoOnOne
  PortOk = {c1}
  CommandMsgs <- TargetMsgs
  TorqueEnabled = TRUE
  HbTimeout = 0
  CmdTimeout = 1
  AbsentThreshold = 1
  Reprobe = 1
  CycleMax = 1
  Links = {"ok", "mute", "dead"}
SPECIFICATION BusFairSpec
INVARIANTS
  HeartbeatLossCutsTorque
  StopGateCutsTorque
  StaleCommandNotDriven
  ReleaseEndsDriving
PROPERTIES
  ReconnectedMotorReports
  SilentMotorIsDropped
