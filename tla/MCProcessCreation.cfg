CONSTANTS
    N = 3
    Pids <- MCPids
    FirstPid = 1
    NoPid = 0
    \* "badargs" is refused along the path of "files".
    Calls = {"fork", "files", "untraced", "unreadable"}
    MaxSignals = 1
SPECIFICATION FairSpec
\* The program may end.
CHECK_DEADLOCK FALSE
INVARIANTS
    RunsOnlyTracked
    StaleOnlyIfReported
    NobodyLeftStopped
PROPERTY
    HandlerReturns
