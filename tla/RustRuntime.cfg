\* The programs end, or wait for a server that does not answer.
SPECIFICATION SuiteSpec
CONSTANTS MAX_THREADS = 4
          Works <- MCWorks
          \* The five requests and the vector of ten of example.rs.
          Requests = 5
          CAPACITY = 10
          \* Fewer events to a call (1024 in the code) than streams, so that a
          \* call can leave events behind.
          Streams = {"s1", "s2", "s3"}
          MAXEVENTS = 2
          READERS = 3
          \* A width of the integer that wraps and panics within reach.
          U32 = 24
          Addr = {0, 1}
          BASES <- MCBases
          SIZES <- MCSizes
CHECK_DEADLOCK FALSE
INVARIANTS SwitchesSafely OneEventEach PointersHold
PROPERTIES EndsByCount ExampleEnds RegistrationsDeliver PrintsAsCommented
