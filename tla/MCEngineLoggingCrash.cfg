CONSTANTS
    w = w
    r = r
    Threads = {w, r}
    Worker = w
    MaxLines = 1
    BlankLines = {2}
    MaxEntries = 1
    LogCap = 2
SPECIFICATION Spec
INVARIANT TerminalRestored
