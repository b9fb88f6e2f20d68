CONSTANTS
    t1 = t1
    t2 = t2
    None = None
    Tasks <- TwoTasks
    MaxBlocks = 2
    MaxEvents = 2
    MaxStarts = 1
    Forks = FALSE
    DownloadsFail = FALSE
SPECIFICATION Spec
INVARIANT BlocksInOrder
