CONSTANTS
    t1 = t1
    t2 = t2
    None = None
    Tasks <- OneTask
    MaxBlocks = 4
    MaxEvents = 1
    MaxStarts = 1
    Forks = TRUE
    DownloadsFail = FALSE
SPECIFICATION FairSpec
INVARIANT PanicIsRepeatOrFork
PROPERTY ResyncHeals
