SPECIFICATION Spec
CONSTANTS
  None = None
  Transitions = {c1, c2}
  MaxWrites = 3
  MaxToggles = 1
  MaxCrashes = 1
  Subs = {s1}
  Deliveries = {d1, d2}
  Attempts = 3
  MaxLosses = 1
  MaxDeaths = 1
  Origin = o
  Edges = {n1}
  MaxEvents = 5
INVARIANTS
  TypeOK SilenceExplained DeliverySound
PROPERTIES
  ForbiddenOnlyWhenOvertaken  CheckedNodesFollow
CHECK_DEADLOCK FALSE
