SPECIFICATION FairSpec
CONSTANTS
  Cameras = {c1}
  Recs = {r1}
  Segments = {s1, s2}
  Callers = {k1}
  Hooks = {h1, h2}
  None = None
  Limit = 1
INVARIANTS
  IInv ObjectsKept
PROPERTIES
  DanglingRowsGo
