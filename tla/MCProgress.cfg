\* mutex, semaphore: three threads; the other objects and the threads' ends:
\* two threads.  code: two bundles in two pages.
\* registry: three host threads for a map of two entries, and a worker.
\* rsp: one command, two connections, one damaged character; a packet fills
\* the buffer if it is read at once.
SPECIFICATION ProgressSpec
CONSTANTS
    Threads = {t1, t2}
    SomeThread = t1
    SomeHost = h2
    SomeBundle = 0
    NoThread = NoThread
    SEM_VALUE_MAX = 2
    Initial = 1
    Main = main
    Blocks = {b1, b2}
    NoBlock = NoBlock
    Sizes = {1}
    UINT_MAX = 3
    ITERATIONS = 2
    First = t1
    NumBundles = 2
    MaxCode = 2
    Hosts = {h1, h2, h3}
    FirstHost = h1
    Worker = w1
    NoContext = NoContext
    MapArrSize = 2
    MaxCommands = 1
    MaxConnections = 2
    MaxGarbled = 1
    BufSize = 4
PROPERTIES
    CallsReturn
    EndingsComplete
    SignalsArrive
CHECK_DEADLOCK FALSE
