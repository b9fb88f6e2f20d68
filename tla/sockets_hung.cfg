CONSTANTS
    f1 = f1
    f2 = f2
    f3 = f3
    ui = ui
    sync = sync
    NoFd = NoFd
    Fds <- OneFd
    Connectors <- OneCaller
    MaxConns = 1
    MaxSockets = 1
    Listens = FALSE
    Interrupts = FALSE
    Background = FALSE
SPECIFICATION FairSpec
PROPERTY HungSocketIsClosed
