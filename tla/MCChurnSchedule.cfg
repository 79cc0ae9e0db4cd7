CONSTANTS
  p = p
  q = q
  f = f
  r1 = r1
  r2 = r2
  x = x
  y = y
  z = z
  set = set
  NoRoll = NoRoll
  Node <- SetNodes
  Parents <- SetParents
  Roll <- SetRoll
  Pinned <- SetPinned
  Mutable <- SetMutable
  ChurnPct = 50
  FillPct = 50
  ResizePct = 30
SPECIFICATION FairSpec
INVARIANTS
  InventorySound
PROPERTIES
  SetsMadeWhole
