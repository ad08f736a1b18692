SPECIFICATION FairSpec
CONSTANTS
    f1 = f1
    f2 = f2
    Fds <- MCFds
    NoFd = NoFd
    Revokes = TRUE
INVARIANTS
    TunRemainsFailClosed
    EngineOwnsTun
    ClosesOnlyTheTun
    EngineIsWatched
    StoppedMeansStopped
PROPERTIES
    RouteFollowsContract
    DeathIsReported
    StopsReturn
