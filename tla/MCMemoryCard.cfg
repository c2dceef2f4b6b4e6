SPECIFICATION FairSpec
CONSTANTS
  Last = 4
  Frame = 2
  Wrap = 7
  Window = 2
  Habits = {}
INVARIANTS
  TrueData
  Driven
PROPERTY Ends
CHECK_DEADLOCK FALSE
