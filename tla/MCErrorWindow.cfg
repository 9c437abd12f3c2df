SPECIFICATION Spec
CONSTANTS
    NbMotors = 2
    WindowSize = 3
    Rate = 2
INVARIANTS
    LossBounded
PROPERTIES
    BadSensorReported
