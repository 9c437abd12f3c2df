SPECIFICATION Spec
CONSTANTS
    idle = idle
    shell = shell
    Always <- MCAlways
    Streamer = streamer
    None = None
    MaxEntries = 4
    MaxTicks = 3
INVARIANTS
    SharesAreTheirs
    EarlierTicksAreTheirs
    AreaGivenBack
PROPERTY
    SharesAddUp
