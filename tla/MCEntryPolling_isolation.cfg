SPECIFICATION Spec
CONSTANTS
    p1 = p1
    p2 = p2
    properties = properties
    reservations = reservations
    calendar = calendar
    None = None
    Properties = {p1, p2}
    Sorted <- InOrder
    Selections <- Either
    Listing = properties
    Bookings = reservations
    FanOut = {calendar}
    SetUpOrder <- AllThree
    FailureKinds = {"other", "scope"}
    MAX_CONSECUTIVE_FAILURES = 2
CHECK_DEADLOCK FALSE
INVARIANT ThreeStrikes
INVARIANT DisappearanceReported
PROPERTY RetainsLastKnown
