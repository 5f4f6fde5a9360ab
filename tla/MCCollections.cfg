CONSTANTS
    C1 = C1
    C2 = C2
    S1 = S1
    J1 = J1
    J2 = J2
    P1 = P1
    ClientList <- MCClientList
    StorageList <- MCStorageList
    JobList <- MCJobList
    PoolList <- MCPoolList
    JobClient <- MCJobClient
    JobStorage <- MCJobStorage
    MaxUpdates = 1
    MaxClicks = 1
    SpuriousNotify = FALSE
SPECIFICATION Spec
INVARIANT JobsFindTheirClient
INVARIANT BrowserListsCollections
PROPERTY EveryObjectGetsDefaults
PROPERTY ClickedObjectGetsStatus
CHECK_DEADLOCK FALSE
