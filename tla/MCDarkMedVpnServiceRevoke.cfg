SPECIFICATION Spec
CONSTANTS
    f1 = f1
    f2 = f2
    Fds <- MCFds
    NoFd = NoFd
    Revokes = TRUE
INVARIANTS
    TunOnlyRemainsFailClosed
