CONSTANTS
  NTrials = 2
  RearmTilt = 2
  MinTilt = 3
  TiltMax = 6
SPECIFICATION FrictionSpec
INVARIANT BagAnglesAreBreakaways
CHECK_DEADLOCK FALSE
