CONSTANTS
    c1 = c1
    c2 = c2
    p1 = p1
    NoManager = NoManager
    NoPayment = NoPayment
    Channels <- TwoChannels
    Payments <- OnePayment
    Faults <- AnyFault
    MaxUpdate = 2
    MaxBlock = 2
    MaxFaults = 1
    MaxKills = 2
SPECIFICATION FairSpec
INVARIANTS
    TypeOK
    MonitorNotBehind
    ClaimedIsRecorded
    OldStateOnlyIfSwallowed
    RestoredIsWatched
PROPERTIES
    LosesOnlyClosedChannels
    StaysClosed
    UpdateIsStored
