\* A calendar of days around now.
SPECIFICATION Spec
CONSTANTS
    Docs <- CalendarDocs
    Limit = 9
    Overhead = 1
    Now = 5
INVARIANT
    FutureKeepsHead
CHECK_DEADLOCK FALSE
