CONSTANTS
    t1 = t1
    t2 = t2
    None = None
    Tasks <- TwoTasks
    MaxBlocks = 3
    MaxEvents = 1
    MaxStarts = 3
    Forks = FALSE
    DownloadsFail = TRUE
SPECIFICATION Spec
SYMMETRY TaskSymmetry
INVARIANTS
    TypeOK
    NeverSkips
    MonitorAfterManager
    NothingOwed
    SyncedMeansWatched
    SyncReachesTip
    PanicIsRepeatOrFork
PROPERTY FollowsChain
