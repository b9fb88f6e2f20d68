CONSTANTS
    f1 = f1
    f2 = f2
    f3 = f3
    ui = ui
    sync = sync
    NoFd = NoFd
    Fds <- TwoFds
    Connectors <- TwoCallers
    MaxConns = 2
    MaxSockets = 3
    Listens = TRUE
    Interrupts = FALSE
    Background = FALSE
SPECIFICATION Spec
SYMMETRY Symmetry
INVARIANTS
    TypeOK
    SlotsNameTheirSocket
    NoDuplicateFd
    IndicesStillName
    MarkedOnce
    PeersAreOpen
    StalledPeerWaitsToWrite
    PanicsOnlyIfLate
