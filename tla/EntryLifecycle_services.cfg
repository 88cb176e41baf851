SPECIFICATION Spec
CONSTANTS
    Entries = {e1, e2}
    Options = {o1, o2}
INVARIANT ServicesWhileLoaded
