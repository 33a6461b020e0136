SPECIFICATION Spec
CONSTANTS
  Cameras = {c1}
  Kinds = {"push"}
  Requests = {r1}
  Profiles = {p1}
  None = None
  MaxAttempts = 2
  StuckAttempts = 1
  CrashThreshold = 0
  DefaultTol = 1
  MaxTol = 1
  Concurrency = 1
  MaxRestarts = 0
INVARIANTS
  KillReleasesJob BreakerShows
PROPERTIES
  QuietStaysQuiet BreakerHolds
