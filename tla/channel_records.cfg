CONSTANTS
    j1 = j1
    j2 = j2
    NumChannels = 2
    Jobs <- OneJob
    MaxKills = 1
SPECIFICATION Spec
INVARIANTS
    TypeOK
    GhostOnlyIf
    UnrecordedOnlyIf
    UsableIsShown
