SPECIFICATION IdentitySpec
CONSTANTS
    Words = {"ann", "bo", "ann@calton.io", "bo@calton.io"}
    Dotted = {"ann@calton.io", "bo@calton.io"}
    Mails = {"ann@calton.io", "bo@calton.io"}
    Values = {0, 1}
    LastUser = 2
    LastGenerated = 1
    Users = {1, 2, 3}
    Projects = {1, 2}
    LastId = 3
    Parent <- OneBelow
    Owner <- OwnersApart
    Makers = {1, 2}
    Places = {1, 2}
    Rights <- ApartRights
    MaxMade = 4
    Mounted <- SomeMounted
    Registering <- SomeRegistered
    TokenIds = {1}
    UnknownKey <- CreateLabels
INVARIANTS NearestDecides ListedIsReadable RaisedByAdminsOnly AloneKeepsRows AloneKeepsSound OnlyTheirs RoutesToldApart AdmittedAsGranted
PROPERTIES NothingTakenBack
CHECK_DEADLOCK FALSE
