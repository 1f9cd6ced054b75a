\* Two threads, one of which may fault, under the fairness of the scheduler.
CONSTANTS
    Threads = {t1, t2}
    Values = {v1}
    Faulty = {t1}
SPECIFICATION FairSpec
PROPERTIES
    SuspendCompletes
    FaultStops
    ResumedThreadLeaves
