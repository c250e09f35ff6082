SPECIFICATION Spec
CONSTANTS Requests = {r1, r2}
INVARIANT ExitsDrained
