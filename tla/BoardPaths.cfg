SPECIFICATION Spec
CONSTANTS
    ProjectIds = {1}
    ViewIds = {1, 2, 3}
    BucketIds = {1, 2, 3, 4, 5, 6}
    TaskIds = {1}
    Limits = {}
    Positions = {}
    BoardKinds = {TRUE}
    BodyStamps = {FALSE}
    BodyRepeats = {TRUE, FALSE}
    SavepointCommits = FALSE
PROPERTIES PointersKept PlacementsKept DragMirrorsDone
CHECK_DEADLOCK FALSE
