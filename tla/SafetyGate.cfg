CONSTANTS
  DeadmanButtons = {0, 1}
  Joysticks = {1, 2}
  JoyTimeout = 2
  EvalPeriod = 2
  MaxClockStep = 2
  MaxRestarts = 1
SPECIFICATION SafetyFairSpec
INVARIANTS
  EnabledOnlyAfterRelease
  EnabledOnlyOnRecentJoy
PROPERTIES
  LatchImplemented
  SilentJoyStops
  ReleaseRecovers
