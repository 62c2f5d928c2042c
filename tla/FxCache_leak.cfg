\* The comment on IN_FLIGHT, against the drop order of Gate.
SPECIFICATION Spec
CONSTANTS
    Calls = {c1, c2}
    Urls = {u1}
    SettledUrls = {}
    Locks = {l1, l2}
    None = None
    Capacity = 1
    FreshTtl = 1
    SettledTtl = 1
    MaxClock = 1
INVARIANTS
    MapHoldsOnlyInFlight
