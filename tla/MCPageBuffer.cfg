CONSTANTS
    MAX_PATH = 3
    UsizeMax = 8
    Bytes = {0, 1}
    Unmapped = Unmapped
    Uninit = Uninit
    Memories <- MCMemories
    Inputs <- MCInputs
    Lens <- MCLens
    MaxWrites = 1
SPECIFICATION Spec
INVARIANTS
    TypeOK
    MemorySafe
    CopiesExact
PROPERTIES
    NothingPartial
