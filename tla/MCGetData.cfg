SPECIFICATION FairSpec
CONSTANTS
    Values <- MCValues
    Null = Null
    CTypes <- MCTypes
    Buffers = {0, 1, 2, 3, 4, 5}
    Switching = FALSE
INVARIANTS
    TypeOK
    ChunksMakeTheValue
    
    
PROPERTIES
    ReadingEnds
