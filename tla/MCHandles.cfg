SPECIFICATION Spec
CONSTANTS
    Threads = {t1, t2, t3}
    Env = Env
    Conns = {c1, c2}
    Stmts = {s1, s2}
    Nobody = Nobody
    Idle = Idle
SYMMETRY Symmetry
INVARIANTS
    TypeOK
    ListsAreTheTree
    NoOrphans
    NoDanglingUse
