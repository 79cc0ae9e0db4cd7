CONSTANTS
  a = a
  b = b
  c = c
  g = g
  h = h
  r = r
  NoRoll = NoRoll
  NoGate = NoGate
  Node <- ChainNodes
  Parents <- ChainParents
  Roll <- ChainRoll
  Gate <- ChainGate
  Pinned <- None
  Mutable <- None
  ChurnPct = 50
  FillPct = 50
  ResizePct = 0
  Limit = 2
  MaxParallel = 2
  Unbounded = FALSE
  Faults = {"unready"}
  MaxOps = 3
SPECIFICATION Spec
INVARIANTS
  CyclesArePairs
