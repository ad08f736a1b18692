SPECIFICATION SessionSpec
CONSTANTS
    MaxSize = 3
    AppBytes = 3
    UpBytes = 4
    Window = 2
    SendRoom = 1
INVARIANTS
    SentBytesIntact
    WindowConserved
    NothingMissed
    TerminatedNeverSleeps
PROPERTIES
    ImplementsStreams
    StreamsCatchUp
    EndsWhenClosed
