\* Seven units of two pages: text below page 4, data from 6, the stack at 12.
\* The calls of each application are in MCMemory.
SPECIFICATION MemorySpec
CONSTANTS
    MapPages = 2
    PageBytes = 4
    NumPages = 14
    StaticTextEnd = 3
    TextEnd = 4
    DataStart = 6
    DataEnd = 7
    StackStart = 12
    NoDesc = NoDesc
    File = File
    FileMode = {"R"}
    Threads = {t1, t2}
    Objects = {x1, x2}
    Loner = t3
    BitsPerWord = 4
    NULL = NULL
    MaxAddr = 7
    MaxSize = 3
    Cutoff = 1
    MinAllocated = 4
SYMMETRY Symmetry
INVARIANTS
    MapAgreesWithHost
    SpaceFound
    RegionFound
PROPERTIES
    PagesStable
    DescriptorsImplementFdTable
CHECK_DEADLOCK FALSE
