SPECIFICATION Spec
CONSTANTS
  outer = outer
  inner = inner
  last = last
  Queue = {outer, inner, last}
  Leaf = Leaf
  NoParent = NoParent
  Tasks <- MCTasks
  Reuse = FALSE
  MaxRuns = 3
INVARIANTS
  ParentWaits
  FinallyOnce
  RejectionCascades
PROPERTY RunEnds
