\* More threads than 2n: below that number a wakeup never has to choose
\* between the two sides, and cond_signal would be enough.
SPECIFICATION Spec
CONSTANTS
  NoThread = NoThread
  Producers = {p1, p2, p3}
  Consumers = {c1, c2}
  Threads = {p1, p2, p3, c1, c2}
  MaxSpurious = 2
  n = 2
INVARIANTS IInv NoLostWakeup SomebodyAwake
PROPERTY ImplementsParens
