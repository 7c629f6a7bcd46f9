CONSTANTS
    WindowSize = 4
    MaxSeq = 8
    MaxLag = 4
    MaxArrivals = 7
    NoLine = NoLine
SPECIFICATION Spec
INVARIANTS PassedOnce LossAccounted RaceWonByFirst
