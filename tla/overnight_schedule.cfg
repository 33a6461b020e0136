SPECIFICATION SteadyScheduleSpec
CONSTANTS
  Schedules = {s1}
  WeekLength = 2
  DayLength = 3
  MaxPlanEdits = 0
INVARIANTS
  OvernightStops
