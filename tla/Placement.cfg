SPECIFICATION PFairSpec
CONSTANTS
    VMIDs = {v1}
    FreshIDs = {v1}
    ControllerIDs = {c1, c2}
    NoController = NoController
    Absent = Absent
    Bodies = {b1, b2}
    Schedulers = {s1, s2}
    Reported = {"pending", "running", "failed"}
INVARIANTS PTypeOK AssignedOnce
PROPERTIES RegistrationKept PendingGetsAssigned
