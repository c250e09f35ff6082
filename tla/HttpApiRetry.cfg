SPECIFICATION Spec
CONSTANTS
    A = A
    B = B
    Empty = Empty
    Malformed = Malformed
    k1 = k1
    k2 = k2
    v1 = v1
    Keys = {k1, k2}
    NoKey = NoKey
    VMIDs = {v1, v2, v3}
    FreshIDs = {v1, v2}
    ControllerIDs = {c1}
    NoController = NoController
    Absent = Absent
    Bodies = {A, B, Empty}
    Requests = {r1, r2}
    Offered <- Retried
    NoRequest = NoRequest
    NoID = NoID
    NoEntry = NoEntry
    NoResponse = NoResponse
    MaxExpiries = 0
INVARIANT AtMostOncePerWindow
