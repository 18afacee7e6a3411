CONSTANTS
    CHUNK_BYTES = 48
    Requests = {12, 20, 40}
    Bases <- MCBases
    MaxBlocks = 6
SPECIFICATION ArenaSpec
CONSTRAINT MCBound
INVARIANTS
    BlocksApart
    BlocksInChunks
    LastIsInCurrentChunk
