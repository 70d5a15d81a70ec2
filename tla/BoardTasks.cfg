SPECIFICATION Spec
CONSTANTS
    ProjectIds = {1}
    ViewIds = {1, 2}
    BucketIds = {1, 2, 3}
    TaskIds = {1, 2}
    Limits = {1}
    Positions = {3}
    BoardKinds = {FALSE}
    BodyStamps = {TRUE, FALSE}
    BodyRepeats = {TRUE, FALSE}
    SavepointCommits = TRUE
INVARIANTS TypeOK
PROPERTIES DoneFlipStamps RepeatingNeverCompletes
CHECK_DEADLOCK FALSE
