SPECIFICATION Spec
CONSTANTS
    A = A
    B = B
    Sandboxes = {A, B}
    NoThread = NoThread
    StackArrSize = 2
    CallAreas = {1}
    FrameSizes = {0, 1}
    StackLimit = 3
    HostLimit = 5
    FirstEntryInCallback = TRUE
    NestedMarshalling = TRUE
INVARIANTS
    JumpBuffersLive
    StackAreasNested
    HostFramesPreserved
