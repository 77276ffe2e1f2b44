\* The process ends.
SPECIFICATION Spec
CONSTANTS
  N = 7
  NTHREAD = 3
  Args <- MCArgs
CHECK_DEADLOCK FALSE
INVARIANTS IInv SumIsExact
PROPERTY EndsAsArgumentSays
