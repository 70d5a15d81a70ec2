SPECIFICATION DragSpec
CONSTANTS
    Cards = {1}
    Repeaters = {1}
    Columns = {1, 2}
    DefaultColumn = 1
    DoneColumn = 2
    Places = {1, 2}
    PlaceAnswers = {"failed"}
    MaxDrags = 2
INVARIANTS RefetchAligns
CHECK_DEADLOCK FALSE
