SPECIFICATION Spec
CONSTANTS
    NbEntries = 2
    InitMotors = 1
    MotorCounts <- MCMotorCounts
    Sensors <- MCSensors
    Fits <- MCFits
    EarlyCommands = FALSE
INVARIANTS
    TypeOK
    HandleTracksThread
    StopHonoured
    CaptureSet
    NoFaultInNormalUse
PROPERTIES
    ConfigFrozen
    UsesAreaProperly
    StopCompletes
    StartCompletes
