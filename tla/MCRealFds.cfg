CONSTANTS
    Kinds = {"range"}
    MOCK_FD_BASE = 1
    RawFdMax = 3
    FdLimit = 3
    Mocks <- MCMocks
    Errnos <- MCErrnos
    Procs = {p1, p2}
    FirstProc = p1
    Creations = {"fork"}
    MaxChanges = 4
    MaxSignals = 1
SPECIFICATION Spec
INVARIANTS
    RealBelowBase
\* The last process may exit.
CHECK_DEADLOCK FALSE
