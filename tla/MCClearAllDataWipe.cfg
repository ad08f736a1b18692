SPECIFICATION WipeSpec
CONSTANTS
    MaxLooper = 3
    Jobs = {1, 2}
INVARIANTS
    WipeMeansClean
