CONSTANTS
    f1 = f1
    f2 = f2
    f3 = f3
    ui = ui
    sync = sync
    NoFd = NoFd
    Fds <- TwoFds
    Connectors <- OneCaller
    MaxConns = 2
    MaxSockets = 2
    Listens = FALSE
    Interrupts = FALSE
    Background = FALSE
SPECIFICATION Spec
INVARIANT FdOrderAssertionHolds
