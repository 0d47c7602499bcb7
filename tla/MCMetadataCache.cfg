SPECIFICATION FairSpec
CONSTANTS
    Conns = {c1, c2}
    Keys = {k1}
    Objects = {o1, o2}
    Nobody = Nobody
    NoKey = NoKey
    TTLs = {0, 2}
    MaxAge = 2
INVARIANTS
    TypeOK
    OneRequestPerCache
    UnusedCacheIsEmpty
PROPERTIES
    
    MutexReleased
