SPECIFICATION Spec
CONSTANTS
    NbEntries = 2
    InitMotors = 1
    MotorCounts <- MCMotorCounts
    Sensors <- MCHall
    Fits <- MCOkFits
    EarlyCommands = FALSE
PROPERTIES
    MotorParametersIgnoredWhenRunning
