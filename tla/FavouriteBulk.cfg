SPECIFICATION AssigneesSpec
CONSTANTS
    Assigners = {r}
    Users = {u}
    NoUser = none
    Kinds = {"bulk"}
    RowIds = {1, 2}
PROPERTIES BulkFavouriteLands
CHECK_DEADLOCK FALSE
