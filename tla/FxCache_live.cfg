\* Three calls for one URL whose entry expires at every tick.
SPECIFICATION FairSpec
CONSTANTS
    Calls = {c1, c2, c3}
    Urls = {u1}
    SettledUrls = {}
    Locks = {l1, l2, l3}
    None = None
    Capacity = 1
    FreshTtl = 1
    SettledTtl = 1
    MaxClock = 2
PROPERTIES
    EveryCallReturns
