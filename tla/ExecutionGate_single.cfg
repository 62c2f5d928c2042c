\* Three calls for one order over two ticks; the calls are bounded.
SPECIFICATION Spec
CONSTANTS
    Instances = {i1, i2}
    Requests <- OneOrder
    Checked = {"submit", "replace", "grid"}
    Incomplete = {"missing"}
    Digest <- MCDigest
    Modulus = 1000
    MaxCalls = 3
    MaxClock = 2
    Lifetime = 1
INVARIANTS
    CodeAsDescribed
CHECK_DEADLOCK FALSE
