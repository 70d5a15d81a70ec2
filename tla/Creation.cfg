SPECIFICATION FairSpec
CONSTANTS
    Requests = {a, b, c, m}
    Movers = {m}
    NoRequest = none
    Attempts = 3
    Preferred = {0, 2}
    MaxIndex = 6
INVARIANTS CreatorsConverge
PROPERTIES EveryRequestAnswered ImplementsLedger
