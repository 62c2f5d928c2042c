\* Reads, writes and a look-up-then-write, gated and ungated, sent up to three
\* times.  A settled goal is the end of a behavior.
SPECIFICATION FairSpec
CONSTANTS
    Tools = {quote, order, enable, operating, dca}
    ReadOnly = {quote, operating}
    LooksUp = {enable}
    OffList = {order, enable, dca}
    OtherRegion = {operating, dca}
    MaxSends = 3
INVARIANTS
    TypeOK
    EffectAtMostOnce
    ResendIsSafe
    AnswerCountedOnce
PROPERTIES
    EveryCallAnswered
    Delivered
CHECK_DEADLOCK FALSE
