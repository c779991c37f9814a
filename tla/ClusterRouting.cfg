SPECIFICATION RoutingSpec
CONSTANTS
    None = None
    Inputs <- AllInputs
    MaxCompose = 3
    LengthRatio = 2
    Horizon = 8
    PairsPerOrder = 3
    OrdersPerResource = 2
    MinResources = 2
    MaxVehicleUses = 2
    TopPairs = 3
    PairsPerAsset = 2
    MaxModelPairs = 8
    MaxRefinements = 1
    ReloadService = 2
    MaxReloads = 2
    Unlimited = 9
    TightPercent = 85
    MaxExpandedOrders = 2
    MaxSegments = 8
INVARIANT TravelTimesExact
INVARIANT DivisionSound
INVARIANT TimedDetoursPriced
INVARIANT ScheduleSound
INVARIANT WarmStartUsable
INVARIANT Accounted
CHECK_DEADLOCK FALSE
