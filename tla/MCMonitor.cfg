SPECIFICATION FairSpec
CONSTANTS
  Slices = 2
  Fifo = 1
  Mishaps = 2
INVARIANTS
  LoadedExact
  FreshCode
  RatesAgree
PROPERTY Regained
