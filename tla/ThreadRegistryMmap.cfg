CONSTANTS
    HostThreads = {h1, h2, h3}
    Workers = {}
    NULL = NULL
    MapArrSize = 3
    MmapMayFail = TRUE
    Debugger = FALSE
    StaleKeys = FALSE
SPECIFICATION Spec
INVARIANT StackMapped
