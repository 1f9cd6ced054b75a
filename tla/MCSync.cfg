\* mutex: two threads and all types.  futex: three threads, one call each,
\* on two words.  rwlock: one thread holds another rwlock for reading.
\* readers, semaphore: three threads with two calls each.
SPECIFICATION SyncSpec
CONSTANTS
    Threads = {m1, m2}
    NoThread = NoThread
    Types = {"FAST", "RECURSIVE", "ERRORCHECK"}
    MaxOps = 3
    Callers = {t1, t2, t3}
    Addrs = {a1, a2}
    BadAddr = BadAddr
    Values = {0, 1}
    MaxWake = 2
    MaxCalls = 1
    RwThreads = {r1, r2, r3}
    Elsewhere = {r3}
    RwCalls = {"rdlock", "tryrdlock", "timedrdlock", "wrlock", "trywrlock", "timedwrlock"}
    ReadersCalls = {"timedrdlock", "wrlock"}
    SEM_VALUE_MAX = 2
    Initial = 0
    SemCalls = 2
SYMMETRY Symmetry
INVARIANTS
    MutexCorrect
    NoLostWakeup
    RwLockCorrect
    SemaphoreCorrect
PROPERTIES
    FutexImplementsSpec
