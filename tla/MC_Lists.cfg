CONSTANTS
    CHUNK_BYTES = 96
    Requests <- MCRequests
    Bases <- MCBases
    LIST_MIN_CAPACITY = 2
    Programs <- MCLists
SPECIFICATION ListsSpec
INVARIANTS
    ListsAreValues
    OneNameOneBlock
PROPERTY
    P_KeepsArena
