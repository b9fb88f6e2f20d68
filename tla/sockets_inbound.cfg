CONSTANTS
    f1 = f1
    f2 = f2
    f3 = f3
    ui = ui
    sync = sync
    NoFd = NoFd
    Fds <- ThreeFds
    Connectors <- NoCaller
    MaxConns = 2
    MaxSockets = 4
    Listens = TRUE
    Interrupts = TRUE
    Background = TRUE
SPECIFICATION Spec
\* The code can stop for good: see the run sockets_interrupt_deadlock.
CHECK_DEADLOCK FALSE
SYMMETRY FdSymmetry
INVARIANTS
    StalledPeerWaitsToWrite
    PeersAreOpen
    PanicsOnlyIfLate
PROPERTY KeepsSocketLife
