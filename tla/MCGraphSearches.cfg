CONSTANTS
    N = 4
    M = 3
    Graphs <- MCGraphs
SPECIFICATION SearchesSpec
\* The searches end.
CHECK_DEADLOCK FALSE
INVARIANTS
    StackIsPath
    OrderIsTopological
    CycleIsClosedPath
    ComponentsExact
    DagExact
    Asserted
    Complete
PROPERTY
    SearchesEnd
