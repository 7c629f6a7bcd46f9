CONSTANTS
    MaxLevels = 2
    Prices = {1, 2, 3}
    Updates <- SmallUpdates
    AskImages <- SmallImages
    MaxUpdates = 5
SPECIFICATION RecoverySpec
INVARIANTS CaughtUpBookIsTrue LevelsSorted
