SPECIFICATION Spec
CONSTANTS
    Setups <- AllSetups
    None = None
    Marker = "_COMMITTED"
    Missing = Missing
    MaxRetries = 1
    MaxRestarts = 1
    Window = 2
    MemoMax = 1
    CacheMax = 2
INVARIANT OnlyPublishedRunsServed
INVARIANT AnswersNeverGoBack
INVARIANT FeasibilityCurrent
INVARIANT ThrottleHolds
CHECK_DEADLOCK FALSE
