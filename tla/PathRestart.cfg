CONSTANTS
  c1 = c1
  NaN = nan
  DeadmanButtons = {0}
  Joysticks = {1}
  JoyTimeout = 1
  EvalPeriod = 1
  MaxRestarts = 1
  Channel = {c1}
  MotorCount <- OneMotor
  HbTimeout = 1
  CmdTimeout = 1
  CycleMax = 1
  Pose = {0, 1}
  ZeroPose = 0
  Gain = {0, 1}
  ZeroGain = 0
  CommandGain = 1
  RampTicks = 1
  Home <- AtOne
  PosMin <- AtOne
  PosMax <- AtOne
  TargetTimeout = 0
  Readings = {}
  Targets = {}
SPECIFICATION PathSpec
INVARIANT BootingIsTorqueOff
