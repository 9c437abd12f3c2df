SPECIFICATION Spec
CONSTANTS
    AvgSize = 3
    Median = 1
INVARIANT
    SpeedIsItsOwn
PROPERTY
    StandstillTold
