SPECIFICATION Spec
CONSTANTS
    Clients = {c1, c2}
    CacheKeys = {k1, k2}
    Values = {a, Empty}
    Empty = Empty
    Nil = Nil
    Absent = Absent
    MaxTTL = 1
    MaxWrites = 3
SYMMETRY Symmetric
INVARIANTS TypeOK NoLostUpdate LockExclusive
PROPERTY ImplementsCacheStore
