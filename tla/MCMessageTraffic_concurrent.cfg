SPECIFICATION Spec
CONSTANTS
    r1 = r1
    r2 = r2
    p1 = p1
    p2 = p2
    NoHint = NoHint
    NoReset = NoReset
    NoTask = NoTask
    NoCycle = NoCycle
    NoReservation = NoReservation
    Never = Never
    Tokens = {t1}
    Reservations = {r1}
    RESERVATION_LIMIT = 2
    RESERVATION_WINDOW_SECONDS = 2
    TOKEN_LIMIT = 2
    TOKEN_WINDOW_SECONDS = 3
    Callers = {c1}
    Pollers = {t1}
    Properties = {p1}
    Owner <- OneOwner
    PollOrder <- OneProperty
    Targets <- AnyStays
    MESSAGE_FETCH_FLOOR_SECONDS = 2
    ResetIsSent = FALSE
    SharedBucket = {TRUE}
    Reloads = TRUE
    MaxTime = 3
INVARIANT TypeOK
INVARIANT TokenOverrunBounded
PROPERTY ImplementsBudget
