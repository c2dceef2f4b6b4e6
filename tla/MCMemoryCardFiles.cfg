SPECIFICATION FilesSpec
CONSTANTS
  n1 = n1 n2 = n2 none = none
  Blocks = 8
  Probes <- MCProbes
  Reals = {4, 8}
  Frames = 2
  Name = {n1, n2}
  NoName = none
  Sizes = {1, 2}
  Lengths = {0, 2}
  MaxWrites = 3
  MaxMishaps = 1
INVARIANTS
  FilesIntact
  ReadExact
PROPERTY SizeRestored
SYMMETRY Names
