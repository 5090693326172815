CONSTANTS
    Launches = 2
    FactoryErrors <- MCFactoryErrors
    KernelErrnos <- MCKernelErrnos
SPECIFICATION FairSpec
\* When all calls have returned nothing is left to do.
CHECK_DEADLOCK FALSE
INVARIANTS
    OkGuarantee
    NothingLeftRunning
    KillsOwnTarget
    NoStaleWriter
    FirstFailureReported
PROPERTY
    Returns
