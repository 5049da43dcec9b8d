\* One key, used with any of the three algorithms.
SPECIFICATION StoreSpec
CONSTANTS
    NoEntry = NoEntry
    Algorithms <- AllAlgorithms
    Limit = 2
    Refill = 4
    Tokens = {1}
    MaxTokens = 1
    Millis = 2
    MaxWindow = 8
    Grace = 2
    Fallback = 4
    Retries = {0, 4}
    Steps = {2}
    MaxTime = 12
    MaxDebt = 2
    MaxEpoch = 3
    MaxCalls = 2
    MaxObserved = 3
CHECK_DEADLOCK FALSE
INVARIANTS
    SlidingBound
PROPERTIES
    ImplementsWindow
