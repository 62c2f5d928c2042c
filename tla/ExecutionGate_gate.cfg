\* Two instances, three calls, one tick: one order in all wordings and its neighbours. The calls are bounded.
SPECIFICATION Spec
CONSTANTS
    Instances = {i1, i2}
    Requests <- MCRequests
    Checked = {"submit", "replace", "grid"}
    Incomplete = {"missing"}
    Digest <- MCDigest
    Modulus = 1000
    MaxCalls = 3
    MaxClock = 1
    Lifetime = 1
SYMMETRY InstanceSymmetry
INVARIANTS
    TypeOK
    NothingUnseenSent
    NoFalseRejection
    PreviewIsExecutable
CHECK_DEADLOCK FALSE
