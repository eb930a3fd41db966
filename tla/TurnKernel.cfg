CONSTANTS
    None = None
    t1 = t1
    t2 = t2
    restart = restart
    stop = stop
    read = read
    list = list
    c1 = c1
    c2 = c2
    Turns <- MCTurns
    Tools <- MCTools
    ReadOnly <- Readers
    Calls <- MCCalls
    MaxIterations = 1
    MaxAsk = 3
    MaxCrashes = 1
SPECIFICATION Spec
CONSTRAINT TwoCases
SYMMETRY Symmetric
INVARIANTS
    TypeOK
    StartedOnce
    DeniedNeverRuns
    SuspendedCanBeDecided
    OneWorker
