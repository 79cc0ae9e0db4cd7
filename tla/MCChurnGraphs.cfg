SPECIFICATION Spec
CONSTANTS
  Scenarios <- MCScenarios
  Blocks <- MCBlocks
  MaxNetworks = 2
  MemberAddresses = 2
  MaxCount = 5
  MaxPort = 3
CHECK_DEADLOCK FALSE
INVARIANTS
  AcceptedScenariosPlan
  GraphFitsEngine
