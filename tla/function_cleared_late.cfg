SPECIFICATION Spec
CONSTANTS
    j1 = j1
    j2 = j2
    j3 = j3
    Callers = {j1, j2, j3}
    NumPoolThreads = 2
    NULL = NULL
    MaxSignals = 2
    MaxOverdraft = 0
INVARIANTS ExecutesFunctionSetUp
CHECK_DEADLOCK FALSE
