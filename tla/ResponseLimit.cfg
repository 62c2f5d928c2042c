\* Flat and nested documents; the end of the loop is the end of a behavior.
SPECIFICATION FairSpec
CONSTANTS
    Docs <- MCDocs
    Limit = 8
    Overhead = 1
    Now = 5
INVARIANTS
    TypeOK
    FitsOrBare
    NewestKept
    NoticeComplete
PROPERTIES
    Finishes
CHECK_DEADLOCK FALSE
