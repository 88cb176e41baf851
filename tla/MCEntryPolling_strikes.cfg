SPECIFICATION Spec
CONSTANTS
    p1 = p1
    p2 = p2
    properties = properties
    reservations = reservations
    calendar = calendar
    None = None
    Properties = {p1}
    Sorted <- InOrder
    Selections <- All
    Listing = properties
    Bookings = reservations
    FanOut = {calendar}
    SetUpOrder <- AllThree
    FailureKinds = {"other"}
    MAX_CONSECUTIVE_FAILURES = 3
CHECK_DEADLOCK FALSE
INVARIANT ShownWithinThreeStrikes
