CONSTANTS
    None = None
    t1 = t1
    t2 = t2
    restart = restart
    stop = stop
    read = read
    list = list
    c1 = c1
    c2 = c2
    Turns <- MCTurns
    Tools <- Changing
    ReadOnly = {}
    Calls <- MCCalls
    MaxIterations = 1
    MaxAsk = 2
    MaxCrashes = 0
SPECIFICATION Spec
SYMMETRY Symmetric
INVARIANT
    OneRegularTurn
