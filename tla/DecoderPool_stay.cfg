SPECIFICATION PoolSpec
CONSTANTS
  Cpus = 1
  NoJob = NoJob
  Requests = {r1, r2, r3, r4}
  Fatal = {r1}
  Long = {}
INVARIANTS WorkersStay
CHECK_DEADLOCK FALSE
