SPECIFICATION Spec
CONSTANTS
    MotorCounts = {0, 1, 3, 128}
    BaudRates = {9600, 230400}
INVARIANTS
    TypeOK
    WaitsForWhatCanCome
    UsbLedTells
    LedDarkBetween
    RoundShowsCounts
PROPERTY
    PlugGetsShell
