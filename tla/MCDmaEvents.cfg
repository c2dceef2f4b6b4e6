SPECIFICATION EventsSpec
CONSTANTS
  Channel = {0, 1, 2}
  MaxPasses = 5
  Starts <- GpuStarts
  fn1 = fn1 fn2 = fn2 none = none
  Function = {fn1, fn2}
  NoFunction = none
  RowSize = 2
  Slots = 4
INVARIANTS
  CompletionsAccounted
  CalledForOwnChannel
PROPERTY Delivered
