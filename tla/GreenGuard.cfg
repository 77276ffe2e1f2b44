\* The process ends.
SPECIFICATION Spec
CONSTANTS MAX_THREADS = 4
          Works <- MainWorks
CHECK_DEADLOCK FALSE
PROPERTY GuardIsCalled
