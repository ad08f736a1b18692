CONSTANTS
    AppFrames = 3
    UpUnits = 6
    PoolSize = 1
    Num = 2
    SendRoom = 3
    Empty = {2}
SPECIFICATION UdpSpec
INVARIANTS
    
    NothingMissed
PROPERTIES
    ImplementsStream
    UdpCatchesUp
