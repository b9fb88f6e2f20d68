CONSTANTS
    j1 = j1
    j2 = j2
    NumChannels = 1
    Jobs <- OneJob
    MaxKills = 1
SPECIFICATION FairSpec
PROPERTIES
    UpdateIsPersisted
