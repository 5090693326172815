CONSTANTS
    Tasks <- MCTasks
    TaskInfos <- MCTaskInfos
    AtomIds <- MCAtomIds
    NumAtoms = 2
    MaxChildren = 2
    Reqs = {callReq}
    NoReq = noReq
    U32Max = 7
SPECIFICATION PipelineSpec
\* A finished test has nothing left to do.
CHECK_DEADLOCK FALSE
INVARIANT
    AtomsTopological
