SPECIFICATION Spec
CONSTANTS
    TicksPerDay = 3
    Offsets <- MCOffsets
    Categories = {"accepted", "cancelled", "not accepted", "request"}
    NoTime = NoTime
    None = None
    Bookable <- MCBookable
    MaxEdits = 1
    Interval = 2
    Horizon = 18
INVARIANTS
    TypeOK
    StatusTellsOccupancy
    AwaitedStayArrivesNext
    ForthcomingAddsUp
    DegradationLoggedOnce
PROPERTIES
    OccupancyMovesForward
    SelectionMovesForward
