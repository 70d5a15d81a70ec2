SPECIFICATION Spec
CONSTANTS
    Requests = {a, b}
    Movers = {}
    NoRequest = none
    Attempts = 10
    Preferred = {0}
    MaxIndex = 2
INVARIANTS ConvergeAnywhere
