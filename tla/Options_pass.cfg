SPECIFICATION Spec
CONSTANTS
  U32Size = 2147483647
  MaxPairs = 3
  MaxSegments = 2
  Default <- KnownDefault
  Pairs <- SomePairs
  Targets <- SomeTargets
  Formats <- SomeFormats
INVARIANTS LastAcceptableWins LastOptionsCount MetaRoundTrip
CHECK_DEADLOCK FALSE
