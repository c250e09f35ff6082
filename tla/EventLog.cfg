SPECIFICATION FairSpec
CONSTANTS
    DefaultListLimit = 1
    MaxListLimit = 2
    NoNumber = NoNumber
    BadSince = BadSince
    Writers = {w1, w2}
    v1 = v1
    v2 = v2
    Kinds <- SomeKinds
    Wants <- SomeWants
    LimitTexts <- SomeLimits
    PageText = 2
    NoEvent = NoEvent
    MaxEvents = 3
    MaxClock = 3
INVARIANTS TypeOK AnswersRight MissedOnlyIfOverlapped
PROPERTIES FollowerCatchesUp
