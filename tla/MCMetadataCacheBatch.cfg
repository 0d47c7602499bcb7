SPECIFICATION Spec
CONSTANTS
    Conns = {c1, c2}
    Keys = {k1}
    Objects = {o1, o2}
    Nobody = Nobody
    NoKey = NoKey
    TTLs = {1, 2}
    MaxAge = 2

PROPERTIES
    DescribedIsFresh
