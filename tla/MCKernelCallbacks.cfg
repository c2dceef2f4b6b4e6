SPECIFICATION FairSpec
CONSTANTS
  a = a
  b = b
  none = none
  Callback = {a, b}
  NoCallback = none
  Capacity = 3
  MaxDepth = 3
INVARIANTS
  IInv
  NoLostWakeup
PROPERTIES
  NoStarvation
  ImplementsQueue
