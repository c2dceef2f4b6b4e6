SPECIFICATION Spec
CONSTANTS
  Unit = 8
  Total = 8
  Sizes = {0, 1, 9, 16, 24}
PROPERTIES
  ImplementsPosix
  StaysCoalesced
