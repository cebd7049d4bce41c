SPECIFICATION ProactiveSpec
CONSTANTS
    Target <- MCOneTarget
    RouteOf <- MCOneRoute
    SurfaceOf <- MCOneSurface
    Durable = TRUE
    Mode = "production"
    DeliveryEnabled = TRUE
    DeniedSurfaces = {"public_channel"}
    Outputs <- MCOutputs
    Conditions = {"availability_busy", "quiet_hours"}
    IdleThreshold = 1
    MinInterval = 2
    MaxDuePerRun = 2
    StaleAfter = 3
    BlockWindow = 2
    BlockThreshold = 2
    RunPeriod = 1
    ObservationAges = {0, 2}
    AgeCap = 5
    MaxRunTicks = 1
    MaxFaults = 1
INVARIANTS KnownSurfaceNotUnknown
