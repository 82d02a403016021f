CONSTANTS
  hip = hip
  knee = knee
  NaN = nan
  Joint <- Hip
  Home <- HipStanding
  PosMin <- HipLower
  PosMax <- HipUpper
  RampTicks = 2
  TargetTimeout = 1
  Readings <- SilentReadings
  Targets = {}
SPECIFICATION PackerSpec
PROPERTY CommandsWithinLimits
