SPECIFICATION Spec
CONSTANTS
    Freq = 10000
    Motors = {"zero", "refused", "good"}
    Zero = "zero"
    Accepted = {"good"}
    Rates = {66}
    Sizes = {0}
    LibSizes = {16}
    InitMotor = "good"
    InitRate = 3000
    InitSize = 16
    MaxPending = 1
    MaxAnswers = 1
INVARIANTS
    TypeOK
    ShownIsTrue
    
    EchoHarmless
