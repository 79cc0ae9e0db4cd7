SPECIFICATION ChurnSpec
CONSTANTS
  Scenarios <- MCRouted
  Blocks <- MCBlocks
  MaxNetworks = 2
  MemberAddresses = 2
  MaxCount = 5
  MaxPort = 3
CHECK_DEADLOCK FALSE
INVARIANT FloatingIPsRouted
