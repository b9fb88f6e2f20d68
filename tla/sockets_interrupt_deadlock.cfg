CONSTANTS
    f1 = f1
    f2 = f2
    f3 = f3
    ui = ui
    sync = sync
    NoFd = NoFd
    Fds <- TwoFds
    Connectors <- OneCaller
    MaxConns = 2
    MaxSockets = 1
    Listens = FALSE
    Interrupts = TRUE
    Background = TRUE
SPECIFICATION FairSpec
\* The deadlock is what the property shows.
CHECK_DEADLOCK FALSE
PROPERTY InterruptReturns
