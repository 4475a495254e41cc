\* No fault.
CONSTANTS
  Containers = {c1}
  Hour = 2
  Day = 4
  RawHours = 2
  HourlyDays = 1
  DailyDays = 1
  MaxClock = 7
  MaxTraffic = 2
  MaxFaults = 0
SPECIFICATION Spec
SYMMETRY Symmetry
INVARIANT
  SealedHoursExact
\* The clock is bounded.
CHECK_DEADLOCK FALSE
