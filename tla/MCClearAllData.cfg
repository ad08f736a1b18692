SPECIFICATION FairWipeSpec
CONSTANTS
    MaxLooper = 3
    Jobs = {1}
INVARIANTS
    StopOvertakesStart
    StopStopsTor
    WipeStopsTor
PROPERTIES
    NoVpnAfterStop
    StopTakesEffect
