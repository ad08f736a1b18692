SPECIFICATION FairSpec
CONSTANTS
    ui = ui
    binder = binder
    tcp1 = tcp1
    udp1 = udp1
    Threads <- MCThreads
    Sessions <- MCSessions
    Nobody = Nobody
    TunMayBreak = TRUE
PROPERTIES
    ReturnsOnError
