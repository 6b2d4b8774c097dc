SPECIFICATION FairServerSpec
CONSTANTS
  Cpus = 1
  Threads = 1
  NoJob = NoJob
  Requests = {r1, r2, r3}
  Fatal = {}
  Long = {}
PROPERTIES BackpressureClears
CHECK_DEADLOCK FALSE
