SPECIFICATION TrafficSpec
CONSTANTS
    ui = ui
    binder = binder
    tcp1 = tcp1
    tcp2 = tcp2
    udp1 = udp1
    site1 = site1
    site2 = site2
    site3 = site3
    Threads <- MCThreads
    Sessions <- MCSessions
    Names <- MCNames
    TunMayBreak = TRUE
    MaxSessions = 2
    MaxNames = 2
SYMMETRY MCSymmetry
INVARIANTS
    WritesToOpenFds
    FewBytesInFlight
    NoSessionLeftBehind
    SentMeansByte
    TimersRunForSessions
    AnswerHolds
PROPERTIES
    EvictsLeastRecent
