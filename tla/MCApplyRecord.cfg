SPECIFICATION Spec
CONSTANTS
  Service = {"neutron"}
  Resource <- MCResource
  Stages <- MCStages
  KeepsResult <- MCKeepsResult
  PrefersFailure <- MCPrefersFailure
  ConflictAttempts <- MCConflictAttempts
  MaxAttempts = 2
  Concurrency = 2
  Plan <- SmallPlan
  Refs <- SmallRefs
  Flags <- SmallFlags
  HasExternal = TRUE
CHECK_DEADLOCK FALSE
INVARIANTS
  AllRecorded
