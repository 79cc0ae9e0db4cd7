SPECIFICATION FairSpec
CONSTANTS
  Service = {"neutron", "cinder", "glance", "nova", "octavia", "keystone", "barbican"}
  Resource <- MCResource
  Stages <- MCStages
  KeepsResult <- MCKeepsResult
  PrefersFailure <- MCPrefersFailure
  ConflictAttempts <- MCConflictAttempts
  MaxAttempts = 3
  Concurrency = 2
  Plan <- SmallPlan
  Refs <- SmallRefs
  Flags <- SmallFlags
  HasExternal = TRUE
CHECK_DEADLOCK FALSE
INVARIANTS
  CallsAreReady
  RecordComplete
  OutcomeHonest
PROPERTIES
  ApplyReturns
