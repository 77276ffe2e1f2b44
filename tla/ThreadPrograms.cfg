\* The programs end; the deadlock demo ends or deadlocks.
SPECIFICATION Spec
CONSTANTS
  \* The four create() calls of sum-atomic.c.
  K = 4
  AtomicN = 2
  RaceN = 4
  ROUNDS = 6
  \* Arguments on both sides of 0, of the pool's size and of the columns.
  W = 5
  NTHREAD = 4
  Args <- MCArgs
  Producers = {"p1", "p2"}
  Consumers = {"c1", "c2"}
  NoThread = "nobody"
  n = 8
  \* With the two threads of sem.py the queue's order would not matter.
  Tids = {"1", "2", "3", "4"}
  Tokens = 1
CHECK_DEADLOCK FALSE
INVARIANTS ExitsClean PrintedSum PrintedCounter ImageComplete QueueIsSound
PROPERTIES OutputBalanced PrintsOrSpins DeadlocksOrExits Terminates
