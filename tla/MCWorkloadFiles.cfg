CONSTANTS
    Clients = {c1, c2}
    Names = {"mods", "m"}
    MaxDepth = 2
    Inodes = {1, 2, 3}
    Requests <- MCRequests
    MaxRequests = 3
    MaxTroubles = 1

SPECIFICATION Spec

PROPERTIES
    StoredWhenOk
    FailedStoresAPrefix
    FailedInstallLeavesNothingTorn
    FilesElsewhereStay

\* When the requests are used up nothing is left to do.
CHECK_DEADLOCK FALSE
