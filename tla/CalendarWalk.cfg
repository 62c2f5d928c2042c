SPECIFICATION Spec
CONSTANTS
    PageSize = 2
    MaxPages = 5
    End = 3
    Beyond = 4
    MaxPerDay = 5
    MaxLater = 1
INVARIANTS
    TypeOK
    Complete
    ShortWhereSaid
PROPERTIES
    Returns
