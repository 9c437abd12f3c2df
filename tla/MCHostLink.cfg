SPECIFICATION LinkSpec
CONSTANTS
    Payloads <- MCPayloads
    Fatal <- MCFatal
    MaxFrames = 5
    MaxLost = 2
    MaxLine = 8
CHECK_DEADLOCK FALSE
INVARIANTS
    GivenWasSent
    ResyncBounded
    LosslessInOrder
