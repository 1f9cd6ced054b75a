\* Two threads cross the sandbox boundary, fault, are stopped and resumed;
\* two values of the registers, so that a lost or a stale one is seen.
CONSTANTS
    Threads = {t1, t2}
    Values = {v1, v2}
    Faulty = {t1, t2}
SPECIFICATION Spec
SYMMETRY Symmetry
INVARIANTS
    SanityChecks
    UntrustedCodeStopped
    FaultCountCorrect
    NoLostUpdate
    NoLostWakeup
PROPERTIES
    ImplementsSuspendSpec
