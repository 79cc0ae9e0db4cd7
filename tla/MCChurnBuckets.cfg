CONSTANTS
  Ops = {o1, o2, o3}
  SlotCount = 2
  MaxTime = 4
  MaxOutcomes = 2
SYMMETRY OpSymmetry
SPECIFICATION BucketsSpec
INVARIANTS
  BucketsExact
