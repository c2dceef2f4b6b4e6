SPECIFICATION Spec
CONSTANTS
  n1 = n1 n2 = n2 none = none
  Blocks = 4
  Name = {n1, n2}
  NoName = none
  Sizes = {1, 2, 3}
  MaxMishaps = 2
INVARIANTS
  FilesSound
  ListingTrue
PROPERTY OthersKept
SYMMETRY Names
