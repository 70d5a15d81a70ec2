SPECIFICATION OverlapSpec
CONSTANTS
    Requests = {r, s}
    ProjectIds = {1, 2, 3}
    Assigners = {a, b}
    Users = {u, v}
    NoUser = none
    Kinds = {"assign", "unassign", "replace", "update", "bulk"}
    RowIds = {1, 2, 3}
    Askers = {x, y}
    People = {1, 2}
    LabelledTasks = {1, 2}
    Shared <- EachOnesOwn
    LastLabel = 2
    LastLabelRow = 2
    MaxListed = 1
    Uploaders = {f, g}
    NoUploader = nobody
    MaxFiles = 2
    MaxContents = 3
    Cards = {1}
    Repeaters = {1}
    Columns = {1, 2}
    DefaultColumn = 1
    DoneColumn = 2
    Places = {1, 2}
    PlaceAnswers = {"ok", "failed"}
    MaxDrags = 2
SYMMETRY Alike
INVARIANTS FilesWhole CaughtUp
PROPERTIES TreeKeptAlone RulesPartOnlyBelowArchived OneRowPerAssignee LaterRowsSurvive LabelsSpreadBySight
CHECK_DEADLOCK FALSE
