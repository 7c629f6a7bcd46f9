CONSTANTS
    w = w
    r = r
    Threads = {w, r}
    Worker = w
    MaxLines = 3
    BlankLines = {2}
    MaxEntries = 3
    LogCap = 2
SPECIFICATION FairSpec
INVARIANTS ConsoleComplete FileComplete
PROPERTY ProcessEnds
