CONSTANTS
    Parts = {"config", "log", "shared"}
    Instances = {i1, i2}
    Values = {f, x}
    Fallback = f
    None = None
    MaxWrite = 3
    MaxDown = 2
    MaxLoss = 1
    MaxBreak = 2
    Runs = {build, deploy}
    Builds = {build}
    Self = {deploy}
    Watchers = {w1}
    NoEntry = NoEntry
    Cap = 1
    MaxPiece = 3
    MaxFault = 1
    MaxDelete = 1
SPECIFICATION WatchSpec
INVARIANTS SubscribersOpen WholeLog
PROPERTIES NeverBackwards PresentKeyReaches StreamsEnd
\* The writes are bounded, runs end, and an instance may wait for a change for ever.
CHECK_DEADLOCK FALSE
