----------------------------- MODULE FillSides -----------------------------
(***************************************************************************)
(* resolve_fill_sides: US fills come without a side, which is taken from   *)
(* the account's orders: a walk over the pages of the order query, a       *)
(* second walk filtered by symbol when the first stops at the page cap,    *)
(* and single look-ups of the orders still missing, some at a time.  The   *)
(* account goes on trading: orders appear while the pages are walked.      *)
(*                                                                         *)
(* Definitions whose comment begins with "Slip" are wrong on purpose: they *)
(* take the place of the next definition in the mutation runs.             *)
(***************************************************************************)
EXTENDS Naturals, Sequences, FiniteSets, SequencesExt, FiniteSetsExt

CONSTANTS
    Orders,      \* the account's orders, those still to be placed included
    Symbols,
    SymbolOf,    \* the symbol of an order
    SideOf,      \* the side its `action` says, "none" for neither
    Placed,      \* the orders in the query's window at first, newest first
    Old,         \* orders with fills that were placed before the window
    PageSize,    \* US_ORDER_PAGE_SIZE
    MaxPages,    \* US_ORDER_MAX_PAGES
    MaxSymbols,  \* US_SIDE_QUERY_MAX_SYMBOLS
    MaxLookups,  \* US_SIDE_DETAIL_MAX_LOOKUPS
    Concurrency  \* US_SIDE_DETAIL_CONCURRENCY

Sides == {"Buy", "Sell", "none"}

ASSUME FillSidesAssumption ==
    /\ IsFiniteSet(Orders)
    /\ SymbolOf \in [Orders -> Symbols]
    /\ SideOf \in [Orders -> Sides]
    /\ Placed \in Seq(Orders) /\ IsInjective(Placed)
    /\ Old \subseteq Orders \ Range(Placed)
    /\ {PageSize, MaxPages, MaxSymbols, MaxLookups, Concurrency}
          \subseteq Nat \ {0}

VARIABLES
    book,      \* the orders upstream has in the window, newest first
    opened,    \* ... and had when the current walk began
    fills,     \* the orders of the fills that lack a side
    asked,     \* the caller's symbol filter; empty for none
    filter,    \* the symbols the current walk is filtered by; empty for none
    pc,        \* what the call does: page, merge, look, or how it ended
    walk,      \* 1, or 2 for the follow-up
    page,      \* the page it asks for
    items,     \* the orders the walk has returned
    truncated, \* it stopped at the page cap
    sides,     \* the side by order, "none" while unresolved
    todo,      \* the orders to look up one by one
    active,    \* those being looked up
    found      \* the sides look-ups have returned, "failed" for none

vars == <<book, opened, fills, asked, filter, pc, walk, page, items,
          truncated, sides, todo, active, found>>

call == <<fills, asked>>
lookups == <<todo, active, found>>
walking == <<opened, filter, walk, page, items, truncated>>

TypeOK ==
    /\ book \in Seq(Orders) /\ opened \in Seq(Orders)
    /\ fills \subseteq Orders
    /\ asked \subseteq Symbols /\ filter \subseteq Symbols
    /\ pc \in {"page", "merge", "look", "done", "empty"}
    /\ walk \in 1..2
    /\ page \in 1..MaxPages
    /\ items \in Seq(Orders) /\ Len(items) <= page * PageSize
    /\ truncated \in BOOLEAN
    /\ sides \in [Orders -> Sides]
    /\ todo \subseteq fills /\ active \subseteq fills
    /\ Cardinality(active) <= Concurrency
    /\ Cardinality(todo \cup active \cup DOMAIN found) <= MaxLookups
    /\ found \in [DOMAIN found -> Sides \cup {"failed"}]

Unresolved == [o \in Orders |-> "none"]
NothingFound == [o \in {} |-> "failed"]

\* The executions were fetched before.  Filtered to one order (by_order), no
\* walk is made; filtered by a symbol, all fills are of that symbol.
Init ==
    /\ book = Placed /\ opened = Placed
    /\ fills \in (SUBSET (Old \cup Range(Placed))) \ {{}}
    /\ asked \in {{}} \cup {{s} : s \in Symbols}
    /\ asked # {} => \A o \in fills : SymbolOf[o] \in asked
    /\ filter = asked
    /\ walk = 1 /\ page = 1 /\ items = <<>> /\ truncated = FALSE
    /\ sides = Unresolved
    /\ active = {} /\ found = NothingFound
    /\ \/ pc = "page" /\ todo = {}
       \/ pc = "look" /\ Cardinality(fills) = 1 /\ todo = fills

\* The account places an order.
Place(o) ==
    /\ pc \notin {"done", "empty"}
    /\ o \notin Old \cup Range(book)
    /\ book' = <<o>> \o book
    /\ UNCHANGED <<call, walking, pc, sides, lookups>>

-----------------------------------------------------------------------------
(* collect_us_pages. *)

\* The orders of these symbols, in the order they come in; all for no symbols.
Matching(orders, symbols) ==
    LET ofLast[n \in 0..Len(orders)] ==
            IF n = 0 THEN <<>>
            ELSE LET o == orders[Len(orders) - n + 1]
                 IN  IF symbols = {} \/ SymbolOf[o] \in symbols
                     THEN <<o>> \o ofLast[n - 1]
                     ELSE ofLast[n - 1]
    IN  ofLast[Len(orders)]

\* What upstream answers for the page now.
Batch ==
    LET all == Matching(book, filter)
        start == (page - 1) * PageSize
        last == start + PageSize
    IN  SubSeq(all, start + 1, IF last > Len(all) THEN Len(all) ELSE last)

\* Slip: the page does not advance.
NextPageSame ==
    /\ pc = "page"
    /\ Len(Batch) = PageSize /\ page < MaxPages
    /\ items' = items \o Batch
    /\ page' \in {page, page + 1}
    /\ UNCHANGED <<book, call, opened, filter, walk, truncated, pc, sides,
                   lookups>>

NextPage ==
    /\ pc = "page"
    /\ Len(Batch) = PageSize /\ page < MaxPages
    /\ items' = items \o Batch
    /\ page' = page + 1
    /\ UNCHANGED <<book, call, opened, filter, walk, truncated, pc, sides,
                   lookups>>

\* Slip: `<=` for `<`: a full page ends the walk.
LastPageFull ==
    /\ pc = "page"
    /\ items' = items \o Batch
    /\ truncated' = FALSE
    /\ pc' = "merge"
    /\ UNCHANGED <<book, call, opened, filter, walk, page, sides, lookups>>

\* A short page is the end of the data; a full one at the cap is not.
LastPage ==
    /\ pc = "page"
    /\ Len(Batch) < PageSize \/ page = MaxPages
    /\ items' = items \o Batch
    /\ truncated' = (Len(Batch) = PageSize)
    /\ pc' = "merge"
    /\ UNCHANGED <<book, call, opened, filter, walk, page, sides, lookups>>

-----------------------------------------------------------------------------
(* resolve_fill_sides. *)

\* order_sides, on top of what is known.
Known ==
    [o \in Orders |->
        IF o \in Range(items) /\ SideOf[o] # "none" THEN SideOf[o]
        ELSE sides[o]]

Missing(known) == {o \in fills : known[o] = "none"}

\* n of the elements, or all: which ones depends on the order they come in.
Some(n, S) == IF Cardinality(S) <= n THEN {S} ELSE kSubset(n, S)

StartLookups(known) ==
    /\ sides' = known
    /\ todo' \in Some(MaxLookups, Missing(known))
    /\ pc' = "look"

\* Slip: the second walk goes on with what the first returned.
FollowUpKeeping ==
    /\ pc = "merge"
    /\ walk = 1
    /\ truncated /\ asked = {} /\ Missing(Known) # {}
    /\ filter' \in Some(MaxSymbols, {SymbolOf[o] : o \in Missing(Known)})
    /\ sides' = Known
    /\ opened' = book
    /\ walk' = 2 /\ page' = 1 /\ truncated' = FALSE
    /\ pc' = "page"
    /\ UNCHANGED <<book, call, lookups, items>>

\* The unfiltered query stopped at the page cap: once more, by symbol.
FollowUp ==
    /\ pc = "merge"
    /\ walk = 1
    /\ truncated /\ asked = {} /\ Missing(Known) # {}
    /\ filter' \in Some(MaxSymbols, {SymbolOf[o] : o \in Missing(Known)})
    /\ sides' = Known
    /\ opened' = book
    /\ walk' = 2 /\ page' = 1 /\ items' = <<>> /\ truncated' = FALSE
    /\ pc' = "page"
    /\ UNCHANGED <<book, call, lookups>>

Merge ==
    /\ pc = "merge"
    /\ walk = 2 \/ ~truncated \/ asked # {} \/ Missing(Known) = {}
    /\ StartLookups(Known)
    /\ UNCHANGED <<book, call, walking, active, found>>

\* A page fails: the first walk resolves nothing at all.
FirstWalkFails ==
    /\ pc = "page" /\ walk = 1
    /\ pc' = "empty"
    /\ UNCHANGED <<book, call, walking, sides, lookups>>

\* Slip: treated like a failure of the first.
FollowUpFailsAll ==
    /\ pc = "page" /\ walk = 2
    /\ sides' = Unresolved
    /\ pc' = "done"
    /\ UNCHANGED <<book, call, walking, lookups>>

\* What the first walk found stays; what the follow-up had is lost.
FollowUpFails ==
    /\ pc = "page" /\ walk = 2
    /\ StartLookups(sides)
    /\ UNCHANGED <<book, call, walking, active, found>>

\* buffer_unordered starts the next look-up as soon as it may.
Lookup(o) ==
    /\ pc = "look"
    /\ o \in todo /\ Cardinality(active) < Concurrency
    /\ todo' = todo \ {o}
    /\ active' = active \cup {o}
    /\ UNCHANGED <<book, call, walking, pc, sides, found>>

\* Slip: an answer is taken for that of whichever order is waited for.
LookupEndsAnyhow(o, ok) ==
    /\ pc = "look"
    /\ o \in active
    /\ \E p \in active :
        /\ active' = active \ {p}
        /\ found' = [q \in DOMAIN found \cup {p} |->
                        IF q # p THEN found[q]
                        ELSE IF ok THEN SideOf[o] ELSE "failed"]
    /\ UNCHANGED <<book, call, walking, pc, sides, todo>>

\* In any order; without a side when it fails, or the ID is no US order ID.
LookupEnds(o, ok) ==
    /\ pc = "look"
    /\ o \in active
    /\ active' = active \ {o}
    /\ found' = [q \in DOMAIN found \cup {o} |->
                    IF q # o THEN found[q]
                    ELSE IF ok THEN SideOf[o] ELSE "failed"]
    /\ UNCHANGED <<book, call, walking, pc, sides, todo>>

Finish ==
    /\ pc = "look"
    /\ todo = {} /\ active = {}
    /\ sides' = [o \in Orders |->
                    IF o \in DOMAIN found /\ found[o] \in {"Buy", "Sell"}
                    THEN found[o] ELSE sides[o]]
    /\ pc' = "done"
    /\ UNCHANGED <<book, call, walking, lookups>>

Answer == NextPage \/ LastPage \/ FirstWalkFails \/ FollowUpFails

Step ==
    \/ FollowUp \/ Merge \/ Finish
    \/ \E o \in Orders : Lookup(o)

Next ==
    \/ \E o \in Orders : Place(o)
    \/ Answer
    \/ Step
    \/ \E o \in Orders, ok \in BOOLEAN : LookupEnds(o, ok)

Spec == Init /\ [][Next]_vars

-----------------------------------------------------------------------------
(* Properties. *)

\* Whatever order the answers come in, a fill is never given the side of
\* another order: a sell shown as a buy is worse than one without a side.
SidesTrue == \A o \in Orders : sides[o] \in {SideOf[o], "none"}

\* A walk that does not report truncation has every matching order there was
\* when it began, although new orders push the others to later pages between
\* two requests (UsPages: "so more records may exist" only when truncated).
WalkComplete ==
    pc = "merge" /\ ~truncated => Range(Matching(opened, filter)) \subseteq Range(items)

\* Nothing is returned twice unless an order was placed during the walk.
RepeatsOnlyWhenTrading ==
    pc = "merge" /\ book = opened => IsInjective(items)

\* "a failed follow-up query or lookup only leaves those orders unresolved":
\* when the call ends, a fill without a side was looked up in vain, or there
\* were more of them than may be looked up, or the first walk failed.
EveryFillAccounted ==
    pc = "done" => \A o \in fills :
        \/ sides[o] # "none"
        \/ o \in DOMAIN found /\ found[o] \in {"none", "failed"}
        \/ Cardinality(DOMAIN found) = MaxLookups
=============================================================================
