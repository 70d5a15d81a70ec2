SPECIFICATION Spec
CONSTANTS
    ProjectIds = {1}
    ViewIds = {1, 2}
    BucketIds = {1, 2, 3}
    TaskIds = {1}
    Limits = {}
    Positions = {}
    BoardKinds = {}
    BodyStamps = {TRUE, FALSE}
    BodyRepeats = {TRUE, FALSE}
    SavepointCommits = FALSE
INVARIANTS NoDanglingPlacement
CHECK_DEADLOCK FALSE
