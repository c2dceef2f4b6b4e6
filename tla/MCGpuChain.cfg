SPECIFICATION Spec
CONSTANTS
  end = end t = t u = u big = big over = over own = own
  Node = {t, u, big, over}
  Table = {t, u}
  Words <- MCWords
  Own = own
  End = end
  Habits = {}
INVARIANTS
  TablesCleared
  OneTransfer
PROPERTY SentAsChained
PROPERTY FramesGoOn
