CONSTANTS
  Terminals = {"main", "other"}
  Main = "main"
  Launches <- SensorLaunches
  MaxCrashes = 1
  InputTimeout = 1
  GateRequired = TRUE
  Stride = 2
  PhaseMod = 3
  ClockSteps <- Settings
  MaxSetBack = 1
  Commands = {"stand", "nan"}
SPECIFICATION SessionSpec
INVARIANTS
  GaitCountsSteps
  LaunchesAreComplete
PROPERTIES
  FirstTargetIsClean
  DeadSensorsStopPolicy
