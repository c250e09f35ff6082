SPECIFICATION Spec
CONSTANTS
    Clients = {c1, c2}
    CacheKeys = {k1}
    Values = {a, b}
    Empty = Empty
    Nil = Nil
    Absent = Absent
    MaxTTL = 1
    MaxWrites = 1
PROPERTY NeverExpires
