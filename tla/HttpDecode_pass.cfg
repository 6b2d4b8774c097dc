SPECIFICATION FairHttpSpec
CONSTANTS
  InCap = 2
  OutCap = 2
  PipeCap = 1
  PipeOutCap = 2
  Burst = 2
  MaxChunks = 4
  Bad = {2}
INVARIANTS RequestRestsWhenDone ResponseIsTheAudio
PROPERTIES KeepsPromise RequestEnds
CHECK_DEADLOCK FALSE
