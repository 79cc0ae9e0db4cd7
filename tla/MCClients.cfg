SPECIFICATION Spec
CONSTANTS
  MaxCalls = 4
  MaxFaults = 2
  tagAttempts = 3
INVARIANTS
  DuplicatesAreLate
  LeftoversFindable
PROPERTIES
  AdoptsLive
  DeletedIsGone
  CallsReturn
CHECK_DEADLOCK FALSE
