SPECIFICATION Spec
CONSTANTS
    TimerFreqIn = 84000000
    Words <- MCWords
    Args <- MCArgs
    Freq = 10000
    LibWindows = {3, 16}
    LibMedians = {0, 1}
    Earlier <- MCEarlier
    MaxEdits = 1
INVARIANTS
    ConsoleConfStarts
    ShownInRange
    ShownIsKept
    StoredBoardIsSilent
