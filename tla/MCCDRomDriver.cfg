SPECIFICATION Spec
CONSTANTS
  Kinds = {"reset", "test", "getTN", "read", "play"}
  Counts = {1, 2}
  Races = {"location", "error"}
  Backlog = 2
  Discs = {2, 12}
  Sizes = {0, 2, 3, 10, 100, 120}
INVARIANTS
  NoAbort
  FieldsAgree
  CallbackProtocol
  TocComplete
PROPERTY ActionEnds
CHECK_DEADLOCK FALSE
