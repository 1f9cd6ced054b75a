\* tsd: two threads race for one key, over three generations.
\* ordered: two threads, two keys.
\* thread: the main thread and two more, two blocks for stacks.
\* code: two threads, four bundles in two pages, two pieces of code.
SPECIFICATION LifeSpec
CONSTANTS
    Users = {t1, t2}
    KEYS_MAX = 1
    UINT_MAX = 5
    OrderedKeys = 2
    OrderedUintMax = 3
    ITERATIONS = 2
    Main = main
    Blocks = {b1, b2}
    NoBlock = NoBlock
    Sizes = {1, 2}
    MaxCached = 1
    Threads = {c1, c2}
    First = c1
    NoThread = NoThread
    NumBundles = 4
    BundlesPerPage = 2
    MaxSize = 2
    MaxGeneration = 2
    MaxCode = 2
    MaxSpawn = 1
SYMMETRY LifeSymmetry
INVARIANTS
    TsdCorrect
    OrderedDestructorsRun
    ThreadsCorrect
    CodeCorrect
