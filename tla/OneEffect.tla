------------------------------ MODULE OneEffect ------------------------------
(***************************************************************************)
(* What a client that follows the server's advice is promised about one    *)
(* thing it wants done: it takes effect at most once, and the client is    *)
(* told to try again only while it has certainly not taken effect.         *)
(* ToolCall implements this specification (see ToolCall!Delivered).        *)
(***************************************************************************)
VARIABLES
    stage,    \* open: may be (re)tried; trying: a call runs; closed: settled
    happened  \* it took effect

vars == <<stage, happened>>

Init == stage = "open" /\ happened = FALSE

Try ==
    /\ stage = "open"
    /\ stage' = "trying"
    /\ UNCHANGED happened

\* The call was refused: the client may try again.
Refuse ==
    /\ stage = "trying"
    /\ ~happened
    /\ stage' = "open"
    /\ UNCHANGED happened

\* The call succeeded, or its outcome is unknown: no more tries.
Settle ==
    /\ stage = "trying"
    /\ stage' = "closed"
    /\ UNCHANGED happened

\* A request that is on its way takes effect, maybe after the client gave up.
Happen ==
    /\ stage # "open"
    /\ ~happened
    /\ happened' = TRUE
    /\ UNCHANGED stage

Next == Try \/ Refuse \/ Settle \/ Happen

Spec == Init /\ [][Next]_vars
=============================================================================
