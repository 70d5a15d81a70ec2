SPECIFICATION Spec
CONSTANTS
    ProjectIds = {1}
    ViewIds = {1, 2, 3}
    BucketIds = {1, 2, 3, 4, 5, 6}
    TaskIds = {1}
    Limits = {}
    Positions = {}
    BoardKinds = {TRUE}
    BodyStamps = {TRUE, FALSE}
    BodyRepeats = {TRUE, FALSE}
    SavepointCommits = FALSE
INVARIANTS PointersLive
CHECK_DEADLOCK FALSE
