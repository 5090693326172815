CONSTANTS
    N = 4
    Atoms <- MCAtoms
    Setups <- MCSetups
    Reqs = {openReq, readReq}
    NoReq = noReq
    U32Max = 15
SPECIFICATION Spec
\* A finished test has nothing left to do.
CHECK_DEADLOCK FALSE
INVARIANTS
    CountsExact
    DecrementsSound
    ReadyExact
    NoStall
PROPERTY
    OrderSpec
