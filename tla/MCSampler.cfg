\* Restarts of containers and of the sampler, failing ticks.
CONSTANTS
  Containers = {c1}
  Hour = 2
  Day = 4
  RawHours = 2
  HourlyDays = 1
  DailyDays = 1
  MaxClock = 7
  MaxTraffic = 3
  MaxFaults = 2
SPECIFICATION Spec
SYMMETRY Symmetry
INVARIANTS
  NeverOvercounts
  RollupCountsOnce
  RecentHoursExact
\* The clock is bounded.
CHECK_DEADLOCK FALSE
