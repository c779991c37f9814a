CONSTANTS
    Assets <- Fleet
    Hubs <- Stations
    Buffer = 1
    Separation = 2
    FreezeWindow = 1
    MinSession = 1
    DefaultSlots = 2
    DefaultPower = 2
    RiskTurnaround = 4
    Menus <- AllMenus
SPECIFICATION Spec
CHECK_DEADLOCK FALSE
INVARIANT HoldsSound
INVARIANT HubsRunAsReported
INVARIANT DiffsTellAll
