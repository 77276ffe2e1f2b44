\* The threads that main() creates.
SPECIFICATION BadSpec
CONSTANTS
  NoThread = NoThread
  Producers = {p1}
  Consumers = {c1, c2}
  Threads = {p1, c1, c2}
  MaxSpurious = 0
  n = 2
INVARIANT WellNested
