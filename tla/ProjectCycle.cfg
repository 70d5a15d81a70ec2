SPECIFICATION Spec
CONSTANTS
    Requests = {r, s}
    ProjectIds = {1, 2, 3}
INVARIANTS NeverCyclic
CHECK_DEADLOCK FALSE
