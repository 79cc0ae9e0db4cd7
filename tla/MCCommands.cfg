SPECIFICATION Spec
CONSTANTS
  Services <- MCServices
  LanesOf <- MCLanesOf
  ServiceOf <- MCServiceOf
  Copies <- MCCopies
  Options <- MCOptions
  MaxRuns <- MCMaxRuns
  MaxCommands = 2
  MaxFaults = 1
CHECK_DEADLOCK FALSE
INVARIANTS
  TeardownIsRecorded
  IterationsStartEmpty
  EndsAreTagged
PROPERTIES
  RecordNeverGoesBack
  CleanupReclaims
  CleanVerdictIsTrue
  ExitZeroIsEarned
  SignalledEnds
