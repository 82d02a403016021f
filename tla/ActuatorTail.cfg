CONSTANTS
  TestJoints <- TwoJoints
  Home <- HomePose
  LimLo <- LimitsLo
  LimHi <- LimitsHi
  StepRad = 3
  StepMin = 1
  MotorDelay = 2
  Settle = 2
  Hold = 3
  NSteps = 2
SPECIFICATION CalibSpec
PROPERTY TailIsInTheHold
