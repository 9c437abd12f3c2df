SPECIFICATION MCSpec
CONSTANTS
    TimerFreqIn <- MCTimerFreqIn
    MinRpms <- MCMinRpms
    MaxRpms <- MCMaxRpms
    Magnets <- MCMagnets
    MotorCounts <- MCMotorCounts
INVARIANTS
    MaxRpmReported
