SPECIFICATION Spec
CONSTANTS
  Cameras = {c1}
  Recs = {r1, r2}
  Segments = {s1, s2}
  Callers = {k1}
  Hooks = {h1}
  None = None
  Limit = 2
INVARIANTS
  FlagMeansRecording
