SPECIFICATION Spec
CONSTANTS
    e1 = e1
    e2 = e2
    n1 = n1
    n2 = n2
    p1 = p1
    p2 = p2
    p3 = p3
    q1 = q1
    r1 = r1
    r2 = r2
    r3 = r3
    hospitable = hospitable
    other = other
    d1 = d1
    d2 = d2
    dq = dq
    s1 = s1
    sq = sq
    hub = hub
    foreign = foreign
    PER_PAGE_MAX = 2
    PROPERTY_BATCH_MAX = 1
    Unreadable = Unreadable
    Unset = Unset
    Invalid = Invalid
    DOMAIN_NAME = hospitable
    Entries <- Both
    Namespace <- Namespaces
    EntityRegistry <- Entities
    DeviceRegistry <- Devices
    Properties = {p1, p2, p3, q1}
    Reservations = {r1, r2, r3}
    AccountOf <- Accounts
    PropertyOf <- Stay
    InWindow = {r1, r2}
    Flaws <- OneFlawed
    SelectedProperties <- Some
    Calls <- AllCalls
    Deviations <- Shortcomings
    InitialUpstream <- Listing
    MaxChanges = 2
    Busy = {e1}
CHECK_DEADLOCK FALSE
INVARIANT TypeOK
INVARIANT ReadsMirrorUpstream
INVARIANT NotFoundOnlyIfAbsent
INVARIANT CallsActOnWhatTheyName
INVARIANT ResponsesAreFiltered
INVARIANT DumpHidesGuests
