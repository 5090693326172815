CONSTANTS
    MOCK_FD_BASE = 2
    IntMax = 7
    LongMax = 15
    Newer <- MCNewer
SPECIFICATION Spec
INVARIANTS
    MocksSupervised
    StartupUnattended
    TracedUnderstood
PROPERTY
    AllBuilt
\* The build ends.
CHECK_DEADLOCK FALSE
