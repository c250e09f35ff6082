SPECIFICATION FairSpec
CONSTANTS Requests = {r1, r2, r3}
PROPERTY EndsOnSignal
