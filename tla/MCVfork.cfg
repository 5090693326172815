CONSTANTS
    N = 2
    Pids <- MCPids
    FirstPid = 1
    NoPid = 0
    Calls = {"vfork"}
    MaxSignals = 0
SPECIFICATION FairSpec
\* The program may end.
CHECK_DEADLOCK FALSE
PROPERTY
    HandlerReturns
