SPECIFICATION FairTcpSpec
CONSTANTS
  InCap = 2
  OutCap = 2
  PipeCap = 1
  PipeOutCap = 2
  Burst = 2
  MaxChunks = 4
  Bad = {2}
  MaxSessions = 2
INVARIANTS SessionRestsWhenDone SessionReply
PROPERTIES KeepsPromise SessionAnswered
CHECK_DEADLOCK FALSE
