SPECIFICATION ProbeSpec
CONSTANTS
  MaxProbeFaults = 0
PROPERTIES
  RetryRuns
