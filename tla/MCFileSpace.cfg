CONSTANTS
    Kinds = {"range", "mapped"}
    MOCK_FD_BASE = 1
    RawFdMax = 3
    FdLimit = 2
    Mocks <- MCMocks
    Errnos <- MCErrnos
    Procs = {p1, p2}
    FirstProc = p1
    Creations = {"fork", "vfork", "untraced"}
    MaxChanges = 4
    MaxSignals = 1
SPECIFICATION FairSpec
INVARIANTS
    MocksKnown
    RecordsTrue
    AnswersTrue
PROPERTY
    AllAnswered
\* The last process may exit.
CHECK_DEADLOCK FALSE
