CONSTANTS
    CHUNK_BYTES = 128
    Requests <- MCRequests
    Bases <- MCBases
    Literals <- MCLiterals
    Programs <- MCFunctions
SPECIFICATION ProgramSpec
INVARIANTS
    StringsKeepTheirValue
    OwnedAlone
    GrowthIsLinear
PROPERTY
    P_KeepsArena
