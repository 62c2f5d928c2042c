\* Three calls for three URLs of both lifetimes, two cache slots: gates,
\* hand-over, cancellation, expiry and eviction.
SPECIFICATION Spec
CONSTANTS
    Calls = {c1, c2, c3}
    Urls = {u1, u2, u3}
    SettledUrls = {u3}
    Locks = {l1, l2, l3, l4}
    None = None
    Capacity = 2
    FreshTtl = 1
    SettledTtl = 2
    MaxClock = 2
SYMMETRY GateSymmetry
INVARIANTS
    TypeOK
    GateAgreement
    NoFetchWhileFresh
    NoStrandedWaiter
PROPERTIES
    Coalesced
    EvictsOnlyOldestFresh
