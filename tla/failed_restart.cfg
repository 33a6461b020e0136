SPECIFICATION SteadyFairSpec
CONSTANTS
  Cameras = {c1}
  Kinds = {"pull"}
  Requests = {r1}
  Profiles = {p1, p2}
  None = None
  MaxAttempts = 1
  StuckAttempts = 1
  CrashThreshold = 0
  DefaultTol = 1
  MaxTol = 1
  Concurrency = 1
  MaxRestarts = 0
PROPERTIES
  FailedJobReplaced
