-------------------------------- MODULE Mutex --------------------------------
(***************************************************************************)
(* The mutex of concurrency/thread-sync.h (lines 27-31), a wrapper around  *)
(* a default pthread mutex: any thread that wants it may get it next, and  *)
(* pthread_mutex_unlock does not check who calls it.                       *)
(***************************************************************************)
CONSTANTS Threads,              \* the threads made by create()
          NoThread              \* "nobody holds the mutex"

ASSUME MutexAssumption == NoThread \notin Threads

VARIABLE lk                     \* mutex_t: the thread that holds it, or NoThread

MutexInit == lk = NoThread

mutex_lock(t) == lk = NoThread /\ lk' = t

mutex_unlock == lk' = NoThread
=============================================================================
