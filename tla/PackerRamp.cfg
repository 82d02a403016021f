CONSTANTS
  hip = hip
  knee = knee
  NaN = nan
  Joint <- Leg
  Home <- Standing
  PosMin <- LowerLimit
  PosMax <- UpperLimit
  RampTicks = 3
  TargetTimeout = 1
  Readings <- GoodReadings
  Targets <- HipTargets
SPECIFICATION PackerFairSpec
PROPERTIES
  CommandsWithinLimits
  RampNeverOvershoots
  RampNeverRestarts
  SettlesOnHome
