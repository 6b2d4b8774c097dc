SPECIFICATION StatsSpec
SYMMETRY RequestSymmetry
CONSTANTS
  Requests = {r1, r2, r3}
  Cpus = 2
  MaxSamples = 4
  MaxClock = 2
  Windows <- ReportWindows
INVARIANTS StatsTypeOK CounterIsInFlight LogInTimeOrder NoAlarmWithoutLoad LogIsTheWalk
CHECK_DEADLOCK FALSE
