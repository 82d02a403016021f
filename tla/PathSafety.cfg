CONSTANTS
  c1 = c1
  NaN = nan
  DeadmanButtons = {0}
  Joysticks = {1}
  JoyTimeout = 0
  EvalPeriod = 1
  MaxRestarts = 1
  Channel = {c1}
  MotorCount <- OneMotor
  HbTimeout = 1
  CmdTimeout = 0
  CycleMax = 1
  Pose = {0, 1}
  ZeroPose = 0
  Gain = {0, 1}
  ZeroGain = 0
  CommandGain = 1
  RampTicks = 1
  Home <- AtThree
  PosMin <- AtOne
  PosMax <- AtOne
  TargetTimeout = 0
  Readings <- FarReadings
  Targets = {}
SPECIFICATION PathSpec
INVARIANTS
  LinkLossReachesMotors
  NoTorqueBeforeRelease
  DriveNeedsVerdict
  
