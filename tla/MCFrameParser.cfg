CONSTANTS
    ByteSize = 4
    Sync1 = 2
    Sync2 = 1
    Xor <- MCXor
    MaxData = 6
SPECIFICATION Spec
INVARIANTS TypeOK DataMatchesFrame MessageWasFramed
