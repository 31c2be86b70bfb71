\* Readers share the mutex, as on posix; a mutex the thread already holds is
\* refused, as on CMSIS-RTOS.  What the two platforms do is part of it.
SPECIFICATION FairSpec
CONSTANTS
    Threads = {t1, t2}
    Handles = {h1, h2, h3}
    Objects = {o1, o2}
    None = None
    SelfLock = "error"
    SharedReaders = TRUE
    AssignOver = TRUE
    MaxOps = 3
INVARIANTS AloneIsTrusted OneMutexPerObject
PROPERTY OnlyAssignmentsBlock
CHECK_DEADLOCK FALSE
