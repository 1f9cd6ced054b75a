\* registry: four host threads for a map of three entries, and the debug stub.
\* crew: two of the host threads and two threads of sandboxed code.
\* slots, racing: two host threads, three slots.
\* rsp: three commands, two connections, two damaged characters.
SPECIFICATION HostSideSpec
CONSTANTS
    HostThreads = {h1, h2, h3, h4}
    Workers = {w1, w2}
    NULL = NULL
    MapArrSize = 3
    MmapMayFail = FALSE
    Debugger = TRUE
    StaleKeys = TRUE
    FirstHost = h1
    CrewHosts = {h1, h2}
    Guests = {g1, g2}
    Callbacks = {f1, f2, f3}
    SlotCount = 3
    RacingGuests = {g1}
    RacingCallbacks = {f1, f2}
    MaxCommands = 3
    MaxConnections = 2
    MaxGarbled = 2
    BufSize = 6
INVARIANTS
    HostContextsCorrect
    RegistryConsistent
    SlotsCorrect
    SessionCorrect
CHECK_DEADLOCK FALSE
