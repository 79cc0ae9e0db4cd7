SPECIFICATION Spec
CONSTANTS
  Workers = {w1, w2}
  Probes = {p1}
  w1 = w1
  w2 = w2
  PoolPairs = 2
  Projects = 3
  Configs <- MCConfigs
  ChurnGrants = 1
  Concurrency = 2
  maxRevokedTokens = 1
  MaxIds = 6
  MaxFaults = 1
CHECK_DEADLOCK FALSE
INVARIANTS
  PoolSound
  GrantsRestored
  GrantsAccounted
PROPERTIES
  DueIsReplaced
  RunEnds
