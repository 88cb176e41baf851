SPECIFICATION Spec
CONSTANTS
    home = home
    work = work
    ta = ta
    ta2 = ta2
    tb = tb
    p1 = p1
    p2 = p2
    q1 = q1
    f1 = f1
    f2 = f2
    rome = rome
    nowhere = nowhere
    None = None
    Blank = Blank
    Accounts = {home, work}
    Tokens = {ta, ta2, tb}
    FlowIds = {f1, f2}
    TokenAccount <- AccountOfToken
    PropertiesOfAccount <- Listed
    Zones = {rome}
    BadZones = {nowhere}
    Numbers <- Entered
    Toggles <- Ticked
    DefaultNumbers <- Usual
    ReservationCounts = {0, 101}
    Holdings <- Held
SYMMETRY Symmetric
INVARIANT TypeOK
INVARIANT TokenMatchesAccount
INVARIANT StoredOptionsAreUsable
INVARIANT EstimateIsWhatPollsCost
PROPERTY EntriesAreKept
PROPERTY OverridesAreRetained
