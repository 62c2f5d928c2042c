\* Sent on the day before the clocks change, looked for until two days later.
SPECIFICATION Spec
CONSTANTS
    Zones <- MCZones
    Horizon = 110
INVARIANTS
    TypeOK
    ListedOnItsDay
PROPERTIES
    NothingOverlooked
CHECK_DEADLOCK FALSE
