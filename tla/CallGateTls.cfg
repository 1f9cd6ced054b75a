SPECIFICATION Spec
CONSTANTS
    A = A
    B = B
    Sandboxes = {A, B}
    NoThread = NoThread
    StackArrSize = 2
    CallAreas = {1, 2}
    FrameSizes = {0, 1}
    StackLimit = 6
    HostLimit = 8
    FirstEntryInCallback = TRUE
    NestedMarshalling = FALSE
INVARIANT SandboxRunsOnItsThread
