SPECIFICATION TimersSpec
CONSTANTS
  Timer = {1, 2}
  Wrap = 3
  Delays = {1, 2}
  MaxTime = 4
  MaxDepth = 1
  CancelsItself = FALSE
INVARIANTS
  ClockTracks
  SingleUseOnce
PROPERTY OverdueCalled
