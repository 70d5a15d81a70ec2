SPECIFICATION Spec
CONSTANTS
    ProjectIds = {1}
    ViewIds = {1, 2}
    BucketIds = {1, 2, 3, 4}
    TaskIds = {1}
    Limits = {1}
    Positions = {1}
    BoardKinds = {TRUE, FALSE}
    BodyStamps = {TRUE, FALSE}
    BodyRepeats = {TRUE, FALSE}
    SavepointCommits = TRUE
INVARIANTS TypeOK
PROPERTIES DoneFlipStamps RepeatingNeverCompletes DragMirrorsDone
CHECK_DEADLOCK FALSE
