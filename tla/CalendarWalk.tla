---------------------------- MODULE CalendarWalk ----------------------------
(***************************************************************************)
(* finance_calendar: the events of a window of dates, which upstream hands *)
(* out in pages.  A first walk follows the date cursor to the end of the   *)
(* window.  It may leave a date behind with more events than one page      *)
(* holds, so a second walk pages through such dates by offset.  Both share *)
(* one budget of pages, and what was collected is merged.                  *)
(*                                                                         *)
(* Upstream is external.  As the code relies on it, a page starts at the   *)
(* asked date, and the cursor names the first date not finished, or the    *)
(* date after one that filled the whole page (calendar.rs, "122 US         *)
(* earnings on one day came back as 100").  It may also name any date at   *)
(* all: the walk must end then too, though it need not be complete.        *)
(***************************************************************************)
EXTENDS Integers, FiniteSets, Sequences

CONSTANTS
    PageSize,  \* PAGE_SIZE (100)
    MaxPages,  \* MAX_PAGES (20)
    End,       \* the last date of the window, whose first is 1
    Beyond,    \* bound: upstream has events up to this date
    MaxPerDay, \* bound: events of one date
    MaxLater   \* bound: events of a date after the window

ASSUME CalendarAssumption ==
    /\ PageSize \in Nat \ {0}
    /\ MaxPages \in Nat \ {0}
    /\ End \in Nat \ {0}
    /\ Beyond \in Nat /\ Beyond >= End
    /\ MaxPerDay \in Nat
    /\ MaxLater \in 0..MaxPerDay

VARIABLES
    count,    \* how many events upstream has of each date
    steady,   \* upstream's cursor keeps to its rule
    pc,       \* where the call is
    date,     \* current_date, or the full date being paged
    offset,   \* 0 in the first walk
    fetched,  \* pages read by both walks
    pages,    \* the events of each page read, in order
    days,     \* those of full_dates that are still to be paged
    partial,  \* the date partial_reason names as the first left out, or 0
    answer    \* the merged events, or the call's error

vars == <<count, steady, pc, date, offset, fetched, pages, days,
          partial, answer>>

upstream == <<count, steady>>

Dates == 1..Beyond
Events == [date : Dates, nth : 1..MaxPerDay]
OfDate(d) == [date : {d}, nth : 1..count[d]]
Window == UNION {OfDate(d) : d \in 1..End}

Nothing == [seen |-> "none", events |-> {}]

Init ==
    /\ count \in [Dates -> 0..MaxPerDay]
    /\ \A d \in Dates : d > End => count[d] <= MaxLater
    /\ steady \in BOOLEAN
    /\ pc = "walk"
    /\ date = 1
    /\ offset = 0
    /\ fetched = 0
    /\ pages = <<>>
    /\ days = {}
    /\ partial = 0
    /\ answer = Nothing

-----------------------------------------------------------------------------
(* Upstream's answers. *)

\* `date` to `date_end`, the first `count` of them.
PageFrom(d) ==
    LET before(day) == Cardinality({x \in Window : d <= x.date /\ x.date < day})
    IN {e \in Window : d <= e.date /\ before(e.date) + e.nth <= PageSize}

\* The dates after the page, or cut short by it; one that is the whole page is
\* left behind.
Unfinished(d) ==
    LET page == PageFrom(d)
    IN {x \in d + 1..Beyond :
            x > End \/ [date |-> x, nth |-> count[x]] \notin page}

\* next_date_of, 0 for no date.
Cursors(d) ==
    LET left == {x \in Unfinished(d) : count[x] > 0}
    IN IF ~steady THEN 0..Beyond
       ELSE IF left = {} THEN {0}
       ELSE {CHOOSE x \in left : \A y \in left : x <= y}

PageAt(d, skip) ==
    {e \in OfDate(d) : e.nth > skip /\ e.nth <= skip + PageSize}

-----------------------------------------------------------------------------
(* merge_pages. *)

\* An event read twice is one event.
Merge(ps) == UNION {ps[i] : i \in DOMAIN ps}

\* Slip: the dates with more than a page.
FullOver(page) ==
    {d \in Dates : Cardinality({e \in page : e.date = d}) > PageSize}

\* The dates that fill a page by themselves may have more.
Full(page) ==
    {d \in Dates : Cardinality({e \in page : e.date = d}) >= PageSize}

\* full_dates: those dates, each with the position of its page.
FullDates(ps) ==
    UNION {{<<i, d>> : d \in Full(ps[i])} : i \in DOMAIN ps}

-----------------------------------------------------------------------------

Finish(seen) ==
    /\ pc' = "done"
    /\ answer' = [seen |-> seen,
                  events |-> IF seen = "ok" THEN Merge(pages) ELSE {}]

\* On to the second walk.
LeaveWalk(ps) ==
    /\ pc' = "days"
    /\ days' = FullDates(ps)

\* partial_reason.get_or_insert_with
Note(d) == partial' = IF partial = 0 THEN d ELSE partial

\* Slip: one page more than MAX_PAGES.
AtCapLate == fetched > MaxPages

AtCap == fetched >= MaxPages

WalkCapped ==
    /\ pc = "walk"
    /\ AtCap
    /\ partial' = date
    /\ LeaveWalk(pages)
    /\ UNCHANGED <<upstream, date, offset, fetched, pages, answer>>

\* Slip: the walk goes on wherever the cursor points, its pages not counted.
WalkPageUncounted(next) ==
    /\ pages' = pages
    /\ fetched' = fetched
    /\ IF next # 0 /\ next <= End
       THEN date' = next /\ UNCHANGED <<pc, days>>
       ELSE UNCHANGED date /\ LeaveWalk(pages)

\* A page is read: the cursor is followed while it is inside the window and not
\* where the walk already is.
WalkPage(next) ==
    /\ pages' = Append(pages, PageFrom(date))
    /\ fetched' = fetched + 1
    /\ IF next # 0 /\ next <= End /\ next # date
       THEN date' = next /\ UNCHANGED <<pc, days>>
       ELSE UNCHANGED date /\ LeaveWalk(pages')

Walk ==
    /\ pc = "walk"
    /\ ~AtCap
    /\ \E next \in Cursors(date) : WalkPage(next)
    /\ UNCHANGED <<upstream, offset, partial, answer>>

\* Slip: a failure is the call's, whatever was read before.
WalkFailsAtOnce ==
    /\ pc = "walk"
    /\ ~AtCap
    /\ Finish("failed")
    /\ UNCHANGED <<upstream, date, offset, fetched, pages, days, partial>>

\* The first request's failure is the call's; a later one ends the walk.
WalkFails ==
    /\ pc = "walk"
    /\ ~AtCap
    /\ IF pages = <<>>
       THEN Finish("failed") /\ UNCHANGED <<days, partial>>
       ELSE partial' = date /\ LeaveWalk(pages) /\ UNCHANGED answer
    /\ UNCHANGED <<upstream, date, offset, fetched, pages>>

\* A page that is not JSON is the call's error, in this walk.
WalkUnreadable ==
    /\ pc = "walk"
    /\ ~AtCap
    /\ Finish("unreadable")
    /\ UNCHANGED <<upstream, date, offset, fetched, pages, days, partial>>

-----------------------------------------------------------------------------

\* In the order of the pages, and of the dates of a page.
IsNext(day) ==
    \A other \in days :
        \/ day[1] < other[1]
        \/ day[1] = other[1] /\ day[2] <= other[2]

NextDay ==
    /\ pc = "days"
    /\ \E day \in days :
          /\ IsNext(day)
          /\ date' = day[2]
          /\ days' = days \ {day}
    /\ pc' = "page"
    /\ offset' = PageSize
    /\ UNCHANGED <<upstream, fetched, pages, partial, answer>>

\* 'dates: no date is left.
DaysDone ==
    /\ pc = "days"
    /\ days = {}
    /\ Finish("ok")
    /\ UNCHANGED <<upstream, date, offset, fetched, pages, days, partial>>

BreakDates ==
    /\ Note(date)
    /\ days' = {}
    /\ pc' = "days"
    /\ UNCHANGED <<upstream, date, offset, fetched, pages, answer>>

DayCapped ==
    /\ pc = "page"
    /\ AtCap
    /\ BreakDates

DayPage ==
    /\ pc = "page"
    /\ ~AtCap
    /\ fetched' = fetched + 1
    /\ pages' = Append(pages, PageAt(date, offset))
    /\ IF Cardinality(PageAt(date, offset)) < PageSize
       THEN pc' = "days" /\ UNCHANGED offset
       ELSE offset' = offset + PageSize /\ UNCHANGED pc
    /\ UNCHANGED <<upstream, date, days, partial, answer>>

\* A failed request and an unreadable page alike.
DayFails ==
    /\ pc = "page"
    /\ ~AtCap
    /\ BreakDates

Done == pc = "done" /\ UNCHANGED vars

Step ==
    \/ WalkCapped \/ Walk \/ WalkFails \/ WalkUnreadable
    \/ NextDay \/ DaysDone \/ DayCapped \/ DayPage \/ DayFails

Next == Step \/ Done

\* The call is one task, and each request has a time limit.
Spec == Init /\ [][Next]_vars /\ WF_vars(Step)

-----------------------------------------------------------------------------

TypeOK ==
    /\ count \in [Dates -> 0..MaxPerDay]
    /\ steady \in BOOLEAN
    /\ pc \in {"walk", "days", "page", "done"}
    /\ date \in Dates
    /\ offset \in 0..(MaxPages + 1) * PageSize
    /\ fetched \in 0..MaxPages
    /\ pages \in Seq(SUBSET Events) /\ Len(pages) = fetched
    /\ days \subseteq (1..MaxPages) \X Dates
    /\ partial \in 0..Beyond
    /\ answer.seen \in {"none", "ok", "failed", "unreadable"}
    /\ answer.events \subseteq Events

\* An answer that does not call itself partial holds every event of the window,
\* those beyond the first page of a crowded date included.
Complete ==
    steady /\ answer.seen = "ok" /\ partial = 0 => answer.events = Window

\* A request that fails after a page was read loses none of what was read: the
\* answer lacks only events of the date its reason names or later, and of dates
\* with more than a page of events.
ShortWhereSaid ==
    /\ answer.seen = "failed" => pages = <<>>
    /\ steady /\ answer.seen = "ok" =>
        \A e \in Window \ answer.events :
            partial # 0 /\ (e.date >= partial \/ count[e.date] > PageSize)

\* The call ends, wherever upstream's cursor points.
Returns == <>(pc = "done")

=============================================================================
