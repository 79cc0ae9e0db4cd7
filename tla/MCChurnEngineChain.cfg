CONSTANTS
  a = a
  b = b
  c = c
  g = g
  h = h
  r = r
  NoRoll = NoRoll
  NoGate = NoGate
  Node <- ChainNodes
  Parents <- ChainParents
  Roll <- ChainRoll
  Gate <- ChainGate
  Pinned <- None
  Mutable <- ChainMutable
  ChurnPct = 50
  FillPct = 50
  ResizePct = 50
  Limit = 2
  MaxParallel = 2
  Unbounded = FALSE
  Faults = {"unready", "refused", "lost", "kept", "late", "panic"}
  MaxOps = 5
SPECIFICATION Spec
INVARIANTS
  ReadsAreOrdered
  CallsFollowTheGraph
  RecordExact
  RetriesAreSound
PROPERTIES
  ScheduleSpec
