SPECIFICATION FairSpec
CONSTANTS
  Cameras = {c1}
  Kinds = {"pull", "passthrough"}
  Requests = {}
  Profiles = {p1}
  None = None
  MaxAttempts = 1
  StuckAttempts = 1
  CrashThreshold = 0
  DefaultTol = 1
  MaxTol = 2
  Concurrency = 1
  MaxRestarts = 1
INVARIANTS
  IInv PassThroughSpared
PROPERTIES
  DeadGetsJob
