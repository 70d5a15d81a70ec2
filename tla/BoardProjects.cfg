SPECIFICATION Spec
CONSTANTS
    ProjectIds = {1, 2}
    ViewIds = {1, 2, 3, 4}
    BucketIds = {1, 2, 3, 4, 5, 6}
    TaskIds = {1}
    Limits = {}
    Positions = {}
    BoardKinds = {TRUE}
    BodyStamps = {FALSE}
    BodyRepeats = {FALSE}
    SavepointCommits = FALSE
INVARIANTS RowsComplete
PROPERTIES PointersKept PlacementsKept
CHECK_DEADLOCK FALSE
