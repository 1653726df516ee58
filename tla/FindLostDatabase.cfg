SPECIFICATION RestoreSpec
CONSTANTS
    d1 = d1
    d2 = d2
    d3 = d3
    broken = broken
    empty = empty
    part = part
    none = none
    DbContent <- Contents
    Sound <- SoundContents
    Empty <- empty
    Part <- part
    NoFile <- none
    RestoreBudgets <- SwapKilled
INVARIANT PreviousKept
