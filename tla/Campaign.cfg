CONSTANTS
  SettleTicks = 1
  CollectTicks = 1
  MinSamples = 3
  QueueDepth = 1
  BagDelay = 1
  PerTick = 2
  Lapses <- ClockLapses
  MaxSetBacks = 1
  TestJoints <- TwoJoints
  Home <- HomePose
  LimLo <- LimitsLo
  LimHi <- LimitsHi
  StepRad = 3
  StepMin = 1
  MotorDelay = 2
  Settle = 2
  Hold = 3
  NSteps = 2
  NTrials = 3
  RearmTilt = 2
  MinTilt = 3
  TiltMax = 5
  NaN = NaN
  None = None
  Refs <- Trained
  NaNPercent = 1
  Analyzers = {a1, a2}
  MaxRows = 2
  OldBags <- OtherDays
  Rates <- BusRates
  ImuRows <- SomeImuRows
  ActuatorRows <- SomeActuatorRows
  Kinetics <- SomeKinetics
  Tangent <- Tangents
SPECIFICATION CampaignSpec
INVARIANTS
  AnglesAreBreakaways
  PeaksAreOfTwoSlips
  SettlingIsDiscarded
  LoneAppendsAreKept
  GreenIsEarned
  DeadChannelIsRed
PROPERTIES
  TrialsAreSeparate
  StepsAreFound
  LatencyIsOfTheStep
  SessionsEnd
CHECK_DEADLOCK FALSE
