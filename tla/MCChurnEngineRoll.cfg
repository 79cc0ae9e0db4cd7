CONSTANTS
  a = a
  b = b
  c = c
  g = g
  h = h
  r = r
  NoRoll = NoRoll
  NoGate = NoGate
  Node <- PairNodes
  Parents <- PairParents
  Roll <- PairRoll
  Gate <- PairGate
  Pinned <- None
  Mutable <- None
  ChurnPct = 50
  FillPct = 50
  ResizePct = 0
  Limit = 2
  MaxParallel = 2
  Unbounded = TRUE
  Faults = {}
  MaxOps = 6
SPECIFICATION FairSpec
INVARIANTS
  RollsDoNotOverlap
PROPERTIES
  CancelledRunReturns
