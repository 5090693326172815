CONSTANTS
    Tasks <- MCTasks
    TaskInfos <- MCTaskInfos
    AtomIds <- MCAtomIds
    NumAtoms = 3
    MaxChildren = 2
    Reqs = {callReq}
    NoReq = noReq
    U32Max = 7
SPECIFICATION PipelineSpec
\* A finished test has nothing left to do.
CHECK_DEADLOCK FALSE
INVARIANTS
    OrderExact
    RefusedExact
    Reduced
    DescriptionKept
    NeverStuck
