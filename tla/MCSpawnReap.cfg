CONSTANTS
    Launches = 1
    FactoryErrors <- MCFactoryErrors
    KernelErrnos <- MCKernelErrnos
SPECIFICATION Spec
CHECK_DEADLOCK FALSE
INVARIANT
    FailedTargetReaped
