SPECIFICATION Spec
CONSTANTS
  N = 3
  Threads = {1, 2, 3}
  NoThread = NoThread
  MaxSpurious = 0
INVARIANT NeighboursExclude
