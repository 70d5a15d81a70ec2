SPECIFICATION RelationsSpec
CONSTANTS
    Tasks = {1, 2, 3}
    Deletable = {2}
    Kinds = {"subtask", "parenttask"}
    Linkers = {q1, q2}
    LastRow = 6
    MaxPerPage = 2
    Title <- TitlesWithTies
    Position <- SomePositions
    Queries <- SomeQueries
SYMMETRY LinkersAlike
INVARIANTS Mirrored PagesPartition ExpansionCovers RelatedAgrees
PROPERTIES AloneKeepsForest
CHECK_DEADLOCK FALSE
