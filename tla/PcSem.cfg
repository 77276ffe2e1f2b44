\* More producers than slots and as many consumers as slots, so that both
\* semaphores run out.
SPECIFICATION Spec
CONSTANTS
  Producers = {p1, p2, p3, p4}
  Consumers = {c1, c2, c3}
  n = 3
INVARIANT WellNested
PROPERTY ImplementsParens
