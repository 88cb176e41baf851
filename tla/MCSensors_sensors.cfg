SPECIFICATION Spec
CONSTANTS
    t1 = t1
    t2 = t2
    t3 = t3
    PER_PAGE_MAX = 2
    PROPERTY_BATCH_MAX = 1
    Unreadable = Unreadable
    Unusable = Unusable
    None = None
    Tasks = {t1, t2, t3}
    Start <- Starts
    TaskType <- Types
    ServiceId <- Services
    Progress <- Reported
    Vocabularies <- Both
    Calendars <- Either
    DecimalPlaces <- Decimals
    Deviations <- Shortcomings
    TICKS = 2
    WINDOW = 1
    LOOKAHEAD = 1
    MAX_CONSECUTIVE_FAILURES = 2
    Polled <- OneByOne
    MaxNow = 4
    MaxChanges = 1
CHECK_DEADLOCK FALSE
INVARIANT TypeOK
INVARIANT TaskSensorsShowOneRead
INVARIANT AvailabilityIsOfItsDay
