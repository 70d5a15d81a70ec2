SPECIFICATION Spec
CONSTANTS
    Requests = {a}
    Movers = {}
    NoRequest = none
    Attempts = 10
    Preferred = {0}
    MaxIndex = 1
INVARIANTS RefusedLeavesNothing
