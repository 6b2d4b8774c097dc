SPECIFICATION FairServerSpec
CONSTANTS
  Cpus = 1
  Threads = 1
  NoJob = NoJob
  Requests = {r1, r2, r3}
  Fatal = {r1, r2}
  Long = {r2, r3}
INVARIANTS ServerTypeOK FreeWorkersTakeJobs LossesAreFatal StallNeedsLoad RestsOnlyWhenDone
PROPERTIES ServesInOrder AcceptedJobsStart WorkersLeave RequestsEnd ShutdownEnds ServerEffortFalls
CHECK_DEADLOCK FALSE
