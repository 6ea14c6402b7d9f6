SPECIFICATION DirSpec
CONSTANTS
    Slots = 2
    Offset = 1337
    MaxDirs = 3
    MaxEntry = 2
    Rewinds = TRUE
INVARIANT HandleGood
CHECK_DEADLOCK FALSE
