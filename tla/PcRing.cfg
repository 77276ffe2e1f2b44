\* Three cells, two of them usable: the ring is full, empty and wrapped around
\* within a few steps.  There are more threads than twice the usable cells.
SPECIFICATION Spec
CONSTANTS
  NoThread = NoThread
  Producers = {p1, p2, p3}
  Consumers = {c1, c2}
  Threads = {p1, p2, p3, c1, c2}
  MaxSpurious = 1
  N = 3
  Unwritten = Unwritten
PROPERTY ImplementsFifo
