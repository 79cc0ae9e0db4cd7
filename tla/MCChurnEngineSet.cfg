CONSTANTS
  a = a
  b = b
  c = c
  g = g
  h = h
  r = r
  NoRoll = NoRoll
  NoGate = NoGate
  Node <- SetNodes
  Parents <- SetParents
  Roll <- SetRoll
  Gate <- SetGate
  Pinned <- None
  Mutable <- None
  ChurnPct = 50
  FillPct = 50
  ResizePct = 0
  Limit = 2
  MaxParallel = 2
  Unbounded = TRUE
  Faults = {}
  MaxOps = 8
SPECIFICATION Spec
INVARIANTS
  RollsDoNotOverlap
