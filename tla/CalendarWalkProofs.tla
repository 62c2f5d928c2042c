------------------------- MODULE CalendarWalkProofs -------------------------
(***************************************************************************)
(* What CalendarWalk promises, for any page size, any budget of pages and  *)
(* any window.  What is known of a page comes first: that of the first     *)
(* walk leaves out no event before its cursor but those past the first     *)
(* page of a crowded date, and such a date is noticed.  Then what is owed  *)
(* at each point of the two walks.                                         *)
(***************************************************************************)
EXTENDS CalendarWalk, FiniteSetTheorems, WellFoundedInduction, TLAPS

\* Where the walks are, and what they have kept.
Places ==
    /\ pages \in Seq(SUBSET Window) /\ Len(pages) = fetched
    /\ date \in 1..End
    /\ days \subseteq (1..MaxPages) \X (1..End)
    /\ pc = "page" => offset >= PageSize
    /\ offset <= (fetched + 1) * PageSize
    /\ pc = "walk" => partial = 0
    /\ pc # "done" => answer = Nothing
    /\ answer.seen = "ok" => days = {} /\ answer.events = Merge(pages)
    /\ answer.seen = "failed" => pages = <<>>

\* The first walk has read every event before its date, but those past the first
\* page of a date it noticed.
Behind ==
    steady /\ pc = "walk" =>
        \A e \in Window :
            \/ e.date >= date
            \/ e \in Merge(pages)
            \/ e.nth > PageSize /\ \E i \in DOMAIN pages : e.date \in Full(pages[i])

\* The reason given covers the event.
LeftOut(e) == partial # 0 /\ (e.date >= partial \/ count[e.date] > PageSize)

\* The second walk is to read the event.
ToCome(e) ==
    \/ e.nth > PageSize /\ \E day \in days : day[2] = e.date
    \/ pc = "page" /\ e.date = date /\ e.nth > offset

\* From there on every event is read, covered by the reason, or to come.
Owed ==
    steady /\ (pc \in {"days", "page"} \/ answer.seen = "ok") =>
        \A e \in Window : e \in Merge(pages) \/ LeftOut(e) \/ ToCome(e)

CalendarInv == TypeOK /\ Places /\ Behind /\ Owed

-----------------------------------------------------------------------------

\* A set of numbers that is not empty has a least one.
LEMMA LeastNumber ==
    ASSUME NEW T \in SUBSET Nat, T # {}
    PROVE  \E x \in T : \A y \in T : x <= y
<1>1. IsWellFoundedOn(OpToRel(<, Nat), Nat)
  BY NatLessThanWellFounded
<1>2. PICK x \in T : \A y \in T : <<y, x>> \notin OpToRel(<, Nat)
  BY <1>1, WFMin
<1>3. \A y \in T : ~(y < x)
  BY <1>2 DEF OpToRel
<1>. QED BY <1>3

\* What an event of the window is.
LEMMA WindowEvents ==
    ASSUME TypeOK
    PROVE  /\ Window \subseteq Events
           /\ \A e \in Window : /\ e.date \in 1..End /\ e.nth \in 1..count[e.date]
                                /\ e = [date |-> e.date, nth |-> e.nth]
                                /\ count[e.date] \in Nat
           /\ \A d \in 1..End : \A k \in 1..count[d] :
                 [date |-> d, nth |-> k] \in Window
<1>1. 1..End \subseteq Dates
  BY CalendarAssumption DEF Dates
<1>2. \A e \in Window : \E d \in 1..End : e \in OfDate(d)
  BY DEF Window
<1>3. \A d \in 1..End : count[d] \in 0..MaxPerDay
  BY <1>1 DEF TypeOK
<1>4. \A e \in Window : /\ e.date \in 1..End /\ e.nth \in 1..count[e.date]
                        /\ e = [date |-> e.date, nth |-> e.nth]
                        /\ count[e.date] \in Nat
  BY <1>2, <1>3, CalendarAssumption DEF OfDate
<1>5. Window \subseteq Events
  BY <1>1, <1>3, <1>4, CalendarAssumption DEF Events
<1>6. \A d \in 1..End : \A k \in 1..count[d] : [date |-> d, nth |-> k] \in OfDate(d)
  BY DEF OfDate
<1>7. \A d \in 1..End : OfDate(d) \subseteq Window
  BY DEF Window
<1>. QED BY <1>4, <1>5, <1>6, <1>7

\* There are finitely many.
LEMMA EventsFinite == IsFiniteSet(Events)
<1> DEFINE at == [p \in (1..Beyond) \X (1..MaxPerDay) |->
                     [date |-> p[1], nth |-> p[2]]]
<1>1. IsFiniteSet(1..Beyond) /\ IsFiniteSet(1..MaxPerDay)
  BY FS_Interval, CalendarAssumption
<1>2. IsFiniteSet((1..Beyond) \X (1..MaxPerDay))
  BY <1>1, FS_Product
<1>3. at \in [(1..Beyond) \X (1..MaxPerDay) -> Events]
  BY DEF Events, Dates
<1>4. \A e \in Events : \E p \in (1..Beyond) \X (1..MaxPerDay) : at[p] = e
  <2>1. SUFFICES ASSUME NEW e \in Events
                 PROVE  \E p \in (1..Beyond) \X (1..MaxPerDay) : at[p] = e
    OBVIOUS
  <2>2. /\ <<e.date, e.nth>> \in (1..Beyond) \X (1..MaxPerDay)
        /\ e = [date |-> e.date, nth |-> e.nth]
    BY DEF Events, Dates
  <2>3. at[<<e.date, e.nth>>] = e
    BY <2>2
  <2>. QED BY <2>2, <2>3
<1>5. at \in Surjection((1..Beyond) \X (1..MaxPerDay), Events)
  BY <1>3, <1>4 DEF Surjection
<1>. QED BY <1>2, <1>5, FS_Surjection

\* A part of the window has a number of elements.
LEMMA CountOfEvents ==
    ASSUME TypeOK, NEW T \in SUBSET Window
    PROVE  IsFiniteSet(T) /\ Cardinality(T) \in Nat
<1>1. T \in SUBSET Events
  BY WindowEvents
<1>. QED BY <1>1, EventsFinite, FS_Subset, FS_CardinalityType

\* The next n events of a date after its first o.
Run(d, o, n) == [date : {d}, nth : o + 1..o + n]

\* They are n.
LEMMA RunOfEvents ==
    ASSUME NEW d, NEW o \in Nat, NEW n \in Nat
    PROVE  Cardinality(Run(d, o, n)) = n
<1> DEFINE run == [date : {d}, nth : o + 1..o + n]
           at == [k \in 1..n |-> [date |-> d, nth |-> o + k]]
<1>1. at \in [1..n -> run]
  OBVIOUS
<1>2. \A j, k \in 1..n : at[j] = at[k] => j = k
  <2>1. SUFFICES ASSUME NEW j \in 1..n, NEW k \in 1..n, at[j] = at[k] PROVE j = k
    OBVIOUS
  <2>2. at[j].nth = o + j /\ at[k].nth = o + k
    OBVIOUS
  <2>. QED BY <2>1, <2>2
<1>3. \A e \in run : \E k \in 1..n : at[k] = e
  <2>1. SUFFICES ASSUME NEW e \in run PROVE \E k \in 1..n : at[k] = e
    OBVIOUS
  <2>2. e.nth - o \in 1..n /\ e = [date |-> d, nth |-> o + (e.nth - o)]
    OBVIOUS
  <2>3. at[e.nth - o] = e
    BY <2>2
  <2>. QED BY <2>2, <2>3
<1>4. at \in Bijection(1..n, run)
  <2>. HIDE DEF run, at
  <2>. QED BY <1>1, <1>2, <1>3 DEF Bijection, Injection, Surjection, IsInjective
<1>5. ExistsBijection(1..n, run)
  BY <1>4 DEF ExistsBijection
<1>6. Run(d, o, n) = run
  BY DEF Run
<1>. HIDE DEF run
<1>. QED BY <1>5, <1>6, FS_CountingElements

-----------------------------------------------------------------------------
(* Pages. *)

\* A date that fills a page has an event.
LEMMA FullInside ==
    ASSUME TypeOK, NEW page \in SUBSET Window
    PROVE  Full(page) \subseteq 1..End
<1>1. SUFFICES ASSUME NEW d \in Full(page) PROVE d \in 1..End
  OBVIOUS
<1> DEFINE own == {e \in page : e.date = d}
<1>2. Cardinality(own) >= PageSize
  BY DEF Full
<1>3. own # {}
  BY <1>2, FS_EmptySet, CalendarAssumption
<1>4. PICK e \in page : e.date = d
  BY <1>3
<1>. QED BY <1>4, WindowEvents

\* A page of the first walk has the first of its own date, and of a later date
\* it has all when it has the last.
LEMMA PageRead ==
    ASSUME TypeOK, NEW d \in 1..End
    PROVE  /\ PageFrom(d) \subseteq Window
           /\ \A e \in Window :
                 e.date = d /\ e.nth <= PageSize => e \in PageFrom(d)
           /\ \A e \in PageFrom(d) : e.date = d => e.nth <= PageSize
           /\ \A e \in Window :
                 [date |-> e.date, nth |-> count[e.date]] \in PageFrom(d)
                    => e \in PageFrom(d)
<1> DEFINE before(day) == Cardinality({x \in Window : d <= x.date /\ x.date < day})
<1>1. PageFrom(d) = {e \in Window : d <= e.date /\ before(e.date) + e.nth <= PageSize}
  BY DEF PageFrom
<1>2. \A day : before(day) \in Nat
  BY CountOfEvents
<1>3. {x \in Window : d <= x.date /\ x.date < d} = {}
  BY WindowEvents
<1>4. before(d) = 0
  BY <1>3, FS_EmptySet
<1>5. ASSUME NEW e \in Window, e.date = d
      PROVE  e \in PageFrom(d) <=> e.nth <= PageSize
  <2>. HIDE DEF before
  <2>1. e.nth \in Int /\ d <= e.date
    BY <1>5, WindowEvents
  <2>2. before(e.date) = 0
    BY <1>4, <1>5
  <2>. QED BY <1>1, <2>1, <2>2
<1>6. ASSUME NEW e \in Window,
             [date |-> e.date, nth |-> count[e.date]] \in PageFrom(d)
      PROVE  e \in PageFrom(d)
  <2>. HIDE DEF before
  <2>1. d <= e.date /\ before(e.date) + count[e.date] <= PageSize
    BY <1>1, <1>6
  <2>2. e.nth \in Nat /\ count[e.date] \in Nat /\ e.nth <= count[e.date]
    BY WindowEvents
  <2>3. before(e.date) + e.nth <= PageSize
    BY <1>2, <2>1, <2>2, CalendarAssumption
  <2>. QED BY <1>1, <2>1, <2>3
<1>. QED BY <1>1, <1>5, <1>6

\* A date with more than a page of events is noticed by the page that starts
\* with it.
LEMMA CrowdedIsFull ==
    ASSUME TypeOK, NEW d \in 1..End, count[d] > PageSize
    PROVE  d \in Full(PageFrom(d))
<1> DEFINE own == {e \in PageFrom(d) : e.date = d}
           run == Run(d, 0, PageSize)
<1>0. PageSize \in Nat /\ d \in Dates /\ count[d] \in Nat
  BY CalendarAssumption DEF Dates, TypeOK
<1>1. own \subseteq run
  <2>1. SUFFICES ASSUME NEW e \in own PROVE e \in run
    BY Zenon
  <2>2. e \in Window /\ e.date = d /\ e.nth <= PageSize
    BY PageRead
  <2>3. e = [date |-> e.date, nth |-> e.nth] /\ e.nth \in Int /\ e.nth >= 1
    BY <2>2, WindowEvents
  <2>4. e.nth \in 0 + 1..0 + PageSize
    BY <1>0, <2>2, <2>3
  <2>. QED BY <2>2, <2>3, <2>4 DEF Run
<1>2. run \subseteq own
  <2>1. SUFFICES ASSUME NEW e \in run PROVE e \in own
    OBVIOUS
  <2>2. e.date = d /\ e.nth \in 1..count[d] /\ e.nth <= PageSize
        /\ e = [date |-> d, nth |-> e.nth]
    BY <1>0 DEF Run
  <2>3. [date |-> d, nth |-> e.nth] \in Window
    BY <2>2, WindowEvents
  <2>. QED BY <2>2, <2>3, PageRead
<1>3. own = run
  BY <1>1, <1>2
<1>4. Cardinality(own) = PageSize
  <2>1. Cardinality(run) = PageSize
    BY <1>0, RunOfEvents
  <2>. HIDE DEF own, run
  <2>. QED BY <1>3, <2>1
<1>. QED BY <1>0, <1>4 DEF Full

\* A page of the first walk and its cursor: an event before the cursor is read,
\* or it lies past the first page of a date that is noticed.
LEMMA CursorCovers ==
    ASSUME TypeOK, steady, NEW d \in 1..End, NEW next \in Cursors(d),
           NEW e \in Window, e.date >= d,
           next = 0 \/ next > End \/ e.date < next
    PROVE  \/ e \in PageFrom(d)
           \/ e.nth > PageSize /\ e.date \in Full(PageFrom(d))
<1>0. /\ e.date \in 1..End /\ e.nth \in 1..count[e.date] /\ count[e.date] \in Nat
      /\ e = [date |-> e.date, nth |-> e.nth]
  BY WindowEvents
<1>1. CASE e.date = d
  <2>1. CASE e.nth <= PageSize
    BY <1>1, <2>1, PageRead
  <2>2. CASE e.nth > PageSize
    <3>1. count[d] > PageSize
      BY <1>0, <1>1, <2>2, CalendarAssumption
    <3>. QED BY <1>1, <2>2, <3>1, CrowdedIsFull
  <2>. QED BY <1>0, <2>1, <2>2, CalendarAssumption
<1>2. CASE e.date > d
  <2> DEFINE left == {x \in Unfinished(d) : count[x] > 0}
  <2>1. ASSUME e.date \in left PROVE FALSE
    <3>1. left \in SUBSET Nat
      BY CalendarAssumption DEF Unfinished
    <3>2. \E x \in left : \A y \in left : x <= y
      BY <2>1, <3>1, LeastNumber
    <3>3. next = CHOOSE x \in left : \A y \in left : x <= y
      BY <2>1 DEF Cursors
    <3>4. next \in left /\ \A y \in left : next <= y
      <4>. HIDE DEF left
      <4>. QED BY <3>2, <3>3, Zenon
    <3>5. next <= e.date /\ next \in d + 1..Beyond
      BY <2>1, <3>4 DEF Unfinished
    <3>. QED BY <1>0, <3>5, CalendarAssumption
  <2>2. e.date \in d + 1..Beyond /\ e.date <= End
    BY <1>0, <1>2, CalendarAssumption
  <2>3. count[e.date] > 0
    BY <1>0
  <2>4. e.date \notin Unfinished(d)
    BY <2>1, <2>3
  <2>5. [date |-> e.date, nth |-> count[e.date]] \in PageFrom(d)
    BY <1>0, <2>2, <2>4 DEF Unfinished
  <2>. QED BY <2>5, PageRead
<1>. QED BY <1>0, <1>1, <1>2

\* A short page of a date is its last.
LEMMA ShortPageIsLast ==
    ASSUME TypeOK, NEW d \in 1..End, NEW skip \in Nat,
           Cardinality(PageAt(d, skip)) < PageSize,
           NEW e \in Window, e.date = d, e.nth > skip
    PROVE  e \in PageAt(d, skip)
<1>0. /\ e.nth \in 1..count[d] /\ count[d] \in Nat /\ PageSize \in Nat
      /\ e = [date |-> d, nth |-> e.nth]
  BY WindowEvents, CalendarAssumption
<1>1. e \in OfDate(d)
  BY <1>0 DEF OfDate
<1>2. SUFFICES ASSUME e.nth > skip + PageSize PROVE FALSE
  BY <1>0, <1>1 DEF PageAt
<1> DEFINE run == Run(d, skip, PageSize)
<1>3. PageAt(d, skip) \subseteq run
  BY <1>0 DEF PageAt, OfDate, Run
<1>4. run \subseteq PageAt(d, skip)
  <2>1. SUFFICES ASSUME NEW x \in run PROVE x \in PageAt(d, skip)
    OBVIOUS
  <2>2. x.date = d /\ x.nth \in skip + 1..skip + PageSize
        /\ x = [date |-> d, nth |-> x.nth]
    BY DEF Run
  <2>3. x.nth \in 1..count[d]
    BY <1>0, <1>2, <2>2
  <2>4. x \in OfDate(d)
    BY <2>2, <2>3 DEF OfDate
  <2>. QED BY <1>0, <2>2, <2>4 DEF PageAt
<1>5. Cardinality(PageAt(d, skip)) = PageSize
  <2>1. PageAt(d, skip) = run
    BY <1>3, <1>4
  <2>2. Cardinality(run) = PageSize
    BY <1>0, RunOfEvents
  <2>. HIDE DEF run
  <2>. QED BY <2>1, <2>2
<1>. QED BY <1>0, <1>5

-----------------------------------------------------------------------------
(* Steps. *)

\* The start.
LEMMA InitHolds == Init => CalendarInv
<1>. SUFFICES ASSUME Init PROVE CalendarInv
  OBVIOUS
<1>1. 1 \in Dates /\ 1 \in 1..End
  BY CalendarAssumption DEF Dates
<1>2. (MaxPages + 1) * PageSize \in Nat /\ (0 + 1) * PageSize \in Nat
  BY CalendarAssumption
<1>3. TypeOK
  BY <1>1, <1>2, CalendarAssumption DEF Init, TypeOK, Nothing
<1>4. Places
  BY <1>1, <1>2 DEF Init, Places, Nothing
<1>5. Behind
  BY <1>3, WindowEvents DEF Init, Behind
<1>6. Owed
  BY DEF Init, Owed, Nothing
<1>. QED BY <1>3, <1>4, <1>5, <1>6 DEF CalendarInv

\* What a number of pages takes.
LEMMA PagesTake ==
    /\ \A n \in Nat : (n + 1) * PageSize \in Nat
    /\ \A n \in Nat : (n + 1 + 1) * PageSize = (n + 1) * PageSize + PageSize
    /\ \A n, m \in Nat : n <= m => (n + 1) * PageSize <= (m + 1) * PageSize
BY CalendarAssumption

\* The full dates of the pages read.
LEMMA FullDatesPlaced ==
    ASSUME TypeOK, NEW ps \in Seq(SUBSET Window), Len(ps) <= MaxPages
    PROVE  /\ FullDates(ps) \subseteq (1..MaxPages) \X (1..End)
           /\ \A i \in DOMAIN ps : \A d \in Full(ps[i]) : <<i, d>> \in FullDates(ps)
<1>1. \A i \in DOMAIN ps : i \in 1..MaxPages /\ Full(ps[i]) \subseteq 1..End
  BY FullInside, CalendarAssumption
<1>. QED BY <1>1 DEF FullDates

\* What upstream has does not change, so neither does the window.
LEMMA SameWindow ==
    ASSUME UNCHANGED upstream
    PROVE  /\ Window' = Window
           /\ \A d : OfDate(d)' = OfDate(d)
BY DEF Window, OfDate, upstream

\* The first walk leaves: what it is behind with is owed.
LEMMA LeaveOwes ==
    ASSUME CalendarInv, pc = "walk", UNCHANGED <<upstream, offset>>,
           LeaveWalk(pages'), pages' \in Seq(SUBSET Window),
           Len(pages') <= MaxPages, Len(pages') = fetched',
           fetched' >= fetched, fetched' \in Nat,
           date' = date, answer' = answer, partial' \in {0, date},
           steady => \A e \in Window :
              \/ partial' # 0 /\ e.date >= date
              \/ e \in Merge(pages')
              \/ e.nth > PageSize /\ \E i \in DOMAIN pages' : e.date \in Full(pages'[i])
    PROVE  CalendarInv'
<1>0. /\ TypeOK /\ Places /\ pc' = "days" /\ days' = FullDates(pages')
      /\ answer = Nothing
  BY DEF CalendarInv, LeaveWalk, Places
<1>1. Window' = Window
  BY SameWindow
<1>2. /\ FullDates(pages') \subseteq (1..MaxPages) \X (1..End)
      /\ \A i \in DOMAIN pages' : \A d \in Full(pages'[i]) :
            <<i, d>> \in FullDates(pages')
  BY <1>0, FullDatesPlaced
<1>3. 1..End \subseteq Dates
  BY CalendarAssumption DEF Dates
<1>4. TypeOK'
  <2>1. pages' \in Seq(SUBSET Events)
    BY <1>0, WindowEvents
  <2>2. days' \subseteq (1..MaxPages) \X Dates
    BY <1>0, <1>2, <1>3
  <2>3. fetched' \in 0..MaxPages
    BY CalendarAssumption
  <2>4. partial' \in 0..Beyond
    BY <1>0, CalendarAssumption DEF TypeOK, Dates
  <2>. QED BY <1>0, <2>1, <2>2, <2>3, <2>4 DEF TypeOK, upstream
<1>5. Places'
  <2>1. offset' <= (fetched' + 1) * PageSize
    <3>1. fetched \in Nat /\ offset' = offset /\ offset \in Int
      BY <1>0, CalendarAssumption, PagesTake DEF TypeOK
    <3>2. offset <= (fetched + 1) * PageSize
      BY <1>0 DEF Places
    <3>. HIDE DEF TypeOK
    <3>. QED BY <3>1, <3>2, PagesTake
  <2>. QED BY <1>0, <1>1, <1>2, <2>1 DEF Places, Nothing
<1>6. Behind'
  BY <1>0 DEF Behind
<1>7. Owed'
  <2>1. SUFFICES ASSUME steady, NEW e \in Window
                 PROVE  e \in Merge(pages') \/ LeftOut(e)' \/ ToCome(e)'
    BY <1>1 DEF Owed, upstream
  <2>2. CASE partial' # 0 /\ e.date >= date
    BY <2>2 DEF LeftOut
  <2>3. ASSUME e.nth > PageSize, NEW i \in DOMAIN pages', e.date \in Full(pages'[i])
        PROVE  ToCome(e)'
    <3>1. <<i, e.date>> \in days'
      BY <1>0, <1>2, <2>3
    <3>2. <<i, e.date>>[2] = e.date
      OBVIOUS
    <3>. QED BY <2>3, <3>1, <3>2 DEF ToCome
  <2>. QED BY <2>1, <2>2, <2>3
<1>. QED BY <1>4, <1>5, <1>6, <1>7 DEF CalendarInv

\* A page that is appended.
LEMMA PageAppended ==
    ASSUME NEW T, NEW ps \in Seq(SUBSET T), NEW page \in SUBSET T
    PROVE  /\ Append(ps, page) \in Seq(SUBSET T)
           /\ Len(Append(ps, page)) = Len(ps) + 1
           /\ Merge(Append(ps, page)) = Merge(ps) \cup page
           /\ \A i \in DOMAIN ps : i \in DOMAIN Append(ps, page)
                                   /\ Append(ps, page)[i] = ps[i]
           /\ Len(ps) + 1 \in DOMAIN Append(ps, page)
           /\ Append(ps, page)[Len(ps) + 1] = page
<1>1. /\ Append(ps, page) \in Seq(SUBSET T)
      /\ Len(Append(ps, page)) = Len(ps) + 1
      /\ \A i \in DOMAIN ps : i \in DOMAIN Append(ps, page)
                              /\ Append(ps, page)[i] = ps[i]
      /\ Len(ps) + 1 \in DOMAIN Append(ps, page)
      /\ Append(ps, page)[Len(ps) + 1] = page
  OBVIOUS
<1>2. \A i \in DOMAIN Append(ps, page) : i \in DOMAIN ps \/ i = Len(ps) + 1
  OBVIOUS
<1>3. \A e : e \in Merge(Append(ps, page)) <=> e \in Merge(ps) \cup page
  BY <1>1, <1>2, Zenon DEF Merge
<1>. QED BY <1>1, <1>3

\* A page of the first walk.
LEMMA WalkStep ==
    ASSUME CalendarInv, Walk
    PROVE  CalendarInv'
<1>0. /\ TypeOK /\ Places /\ pc = "walk" /\ answer = Nothing /\ partial = 0
      /\ UNCHANGED <<upstream, offset, partial, answer>> /\ fetched < MaxPages
      /\ fetched \in Nat /\ pages \in Seq(SUBSET Window) /\ Len(pages) = fetched
      /\ date \in 1..End
  BY CalendarAssumption DEF CalendarInv, Places, Walk, AtCap, TypeOK
<1>1. PICK next \in Cursors(date) : WalkPage(next)
  BY DEF Walk
<1> DEFINE page == PageFrom(date)
<1>2. /\ pages' = Append(pages, page) /\ fetched' = fetched + 1
      /\ page \in SUBSET Window
  BY <1>0, <1>1, PageRead DEF WalkPage
<1>3. /\ pages' \in Seq(SUBSET Window) /\ Len(pages') = fetched'
      /\ Merge(pages') = Merge(pages) \cup page
      /\ \A i \in DOMAIN pages : i \in DOMAIN pages' /\ pages'[i] = pages[i]
      /\ fetched' \in DOMAIN pages' /\ pages'[fetched'] = page
  <2>. HIDE DEF page
  <2>. QED BY <1>0, <1>2, PageAppended
\* Before the cursor all is read or noticed.
<1>4. ASSUME steady, NEW e \in Window, next = 0 \/ next > End \/ e.date < next
      PROVE  \/ e \in Merge(pages')
             \/ e.nth > PageSize /\ \E i \in DOMAIN pages' : e.date \in Full(pages'[i])
  <2>1. CASE e.date >= date
    <3>1. e \in page \/ (e.nth > PageSize /\ e.date \in Full(page))
      BY <1>0, <1>4, <2>1, CursorCovers
    <3>. HIDE DEF page
    <3>. QED BY <1>3, <3>1
  <2>2. CASE ~(e.date >= date)
    <3>1. \/ e \in Merge(pages)
          \/ e.nth > PageSize /\ \E i \in DOMAIN pages : e.date \in Full(pages[i])
      BY <1>0, <1>4, <2>2 DEF CalendarInv, Behind
    <3>. HIDE DEF page
    <3>. QED BY <1>3, <3>1
  <2>. QED BY <2>1, <2>2
<1>5. CASE next # 0 /\ next <= End /\ next # date
  <2>1. date' = next /\ UNCHANGED <<pc, days>>
    BY <1>1, <1>5 DEF WalkPage
  <2>2. next \in 0..Beyond
    <3> DEFINE left == {x \in Unfinished(date) : count[x] > 0}
    <3>1. CASE ~steady
      BY <1>1, <3>1 DEF Cursors
    <3>2. CASE steady /\ left # {}
      <4>1. left \in SUBSET Nat /\ left \subseteq 0..Beyond
        BY <1>0, CalendarAssumption DEF Unfinished
      <4>2. \E x \in left : \A y \in left : x <= y
        BY <3>2, <4>1, LeastNumber
      <4>3. next = CHOOSE x \in left : \A y \in left : x <= y
        BY <1>1, <3>2 DEF Cursors
      <4>. HIDE DEF left
      <4>. QED BY <4>1, <4>2, <4>3
    <3>3. CASE steady /\ left = {}
      BY <1>1, <1>5, <3>3 DEF Cursors
    <3>. QED BY <3>1, <3>2, <3>3
  <2>3. next \in 1..End /\ next \in Dates
    BY <1>5, <2>2, CalendarAssumption DEF Dates
  <2>4. TypeOK'
    <3>1. pages' \in Seq(SUBSET Events)
      BY <1>0, <1>3, WindowEvents
    <3>2. fetched' \in 0..MaxPages
      BY <1>0, <1>2, CalendarAssumption
    <3>. QED BY <1>0, <1>3, <2>1, <2>3, <3>1, <3>2 DEF TypeOK, upstream
  <2>5. Places'
    <3>1. offset' <= (fetched' + 1) * PageSize
      <4>1. offset' = offset /\ offset \in Int /\ offset <= (fetched + 1) * PageSize
        BY <1>0, PagesTake DEF TypeOK, Places
      <4>2. (fetched + 1) * PageSize <= (fetched' + 1) * PageSize
        <5>1. fetched' \in Nat /\ fetched <= fetched'
          BY <1>0, <1>2
        <5>. QED BY <1>0, <5>1, PagesTake, Zenon
      <4>3. (fetched + 1) * PageSize \in Int /\ (fetched' + 1) * PageSize \in Int
        BY <1>0, <1>2, CalendarAssumption
      <4>. QED BY <4>1, <4>2, <4>3
    <3>2. Window' = Window
      BY <1>0, SameWindow
    <3>. QED BY <1>0, <1>3, <2>1, <2>3, <3>1, <3>2 DEF Places, Nothing
  <2>6. Behind'
    <3>1. SUFFICES ASSUME steady, NEW e \in Window
                   PROVE  \/ e.date >= next
                          \/ e \in Merge(pages')
                          \/ e.nth > PageSize
                             /\ \E i \in DOMAIN pages' : e.date \in Full(pages'[i])
      BY <1>0, <2>1, SameWindow DEF Behind, upstream
    <3>2. e.date \in 1..End
      BY <1>0, WindowEvents
    <3>. QED BY <1>4, <2>3, <3>1, <3>2
  <2>7. Owed'
    BY <1>0, <2>1 DEF Owed, Nothing
  <2>. QED BY <2>4, <2>5, <2>6, <2>7 DEF CalendarInv
<1>6. CASE ~(next # 0 /\ next <= End /\ next # date)
  <2>1. date' = date /\ LeaveWalk(pages')
    BY <1>1, <1>6 DEF WalkPage
  <2>2. ASSUME steady PROVE next = 0 \/ next > End
    <3> DEFINE left == {x \in Unfinished(date) : count[x] > 0}
    <3>1. CASE left = {}
      BY <1>1, <2>2, <3>1 DEF Cursors
    <3>2. CASE left # {}
      <4>1. left \in SUBSET Nat /\ \A x \in left : x > date
        BY <1>0, CalendarAssumption DEF Unfinished
      <4>2. \E x \in left : \A y \in left : x <= y
        BY <3>2, <4>1, LeastNumber
      <4>3. next = CHOOSE x \in left : \A y \in left : x <= y
        BY <1>1, <2>2, <3>2 DEF Cursors
      <4>4. next \in left
        <5>. HIDE DEF left
        <5>. QED BY <4>2, <4>3, Zenon
      <4>5. next # date /\ next \in Nat
        BY <1>0, <4>1, <4>4, CalendarAssumption
      <4>. QED BY <1>6, <4>5, CalendarAssumption
    <3>. QED BY <3>1, <3>2
  <2>3. steady => \A e \in Window :
            \/ e \in Merge(pages')
            \/ e.nth > PageSize /\ \E i \in DOMAIN pages' : e.date \in Full(pages'[i])
    BY <1>4, <2>2
  <2>4. /\ Len(pages') <= MaxPages /\ fetched' >= fetched /\ fetched' \in Nat
        /\ partial' \in {0, date}
    BY <1>0, <1>2, <1>3, CalendarAssumption
  <2>. HIDE DEF page
  <2>. QED BY <1>0, <1>3, <2>1, <2>3, <2>4, LeaveOwes
<1>. QED BY <1>5, <1>6

\* The walk stops short, and says at which date.
LEMMA WalkStopStep ==
    ASSUME CalendarInv, WalkCapped \/ WalkFails \/ WalkUnreadable
    PROVE  CalendarInv'
<1>0. /\ TypeOK /\ Places /\ pc = "walk" /\ answer = Nothing /\ partial = 0
      /\ fetched \in 0..MaxPages /\ fetched \in Nat /\ Len(pages) = fetched
      /\ pages \in Seq(SUBSET Window) /\ date \in 1..End /\ date \in Dates
      /\ UNCHANGED <<upstream, date, offset, fetched, pages>>
  BY CalendarAssumption
     DEF CalendarInv, Places, WalkCapped, WalkFails, WalkUnreadable, TypeOK
<1>1. CASE partial' = date /\ LeaveWalk(pages) /\ UNCHANGED answer
  <2>1. LeaveWalk(pages')
    BY <1>0, <1>1
  <2>2. /\ partial' \in {0, date} /\ partial' # 0
        /\ pages' \in Seq(SUBSET Window) /\ Len(pages') <= MaxPages
        /\ Len(pages') = fetched' /\ fetched' >= fetched /\ fetched' \in Nat
        /\ date' = date /\ answer' = answer
    BY <1>0, <1>1
  <2>3. steady => \A e \in Window :
           \/ partial' # 0 /\ e.date >= date
           \/ e \in Merge(pages')
           \/ e.nth > PageSize /\ \E i \in DOMAIN pages' : e.date \in Full(pages'[i])
    BY <1>0, <2>2 DEF CalendarInv, Behind
  <2>. QED BY <1>0, <2>1, <2>2, <2>3, LeaveOwes
<1>2. ASSUME NEW seen \in {"failed", "unreadable"}, Finish(seen),
             seen = "failed" => pages = <<>>, UNCHANGED <<days, partial>>
      PROVE  CalendarInv'
  <2>1. answer' = [seen |-> seen, events |-> {}] /\ pc' = "done"
    BY <1>2 DEF Finish
  <2>2. TypeOK'
    BY <1>0, <1>2, <2>1 DEF TypeOK, upstream
  <2>3. Places'
    BY <1>0, <1>2, <2>1, SameWindow DEF Places
  <2>. QED BY <2>1, <2>2, <2>3, <1>2 DEF CalendarInv, Behind, Owed
<1>3. CASE WalkFails /\ pages = <<>>
  BY <1>2, <1>3 DEF WalkFails
<1>4. CASE WalkUnreadable
  BY <1>2, <1>4 DEF WalkUnreadable
<1>5. CASE WalkFails /\ pages # <<>>
  BY <1>1, <1>5 DEF WalkFails
<1>6. CASE WalkCapped
  BY <1>1, <1>6 DEF WalkCapped
<1>. QED BY <1>3, <1>4, <1>5, <1>6

\* The next full date is taken.
LEMMA NextDayStep ==
    ASSUME CalendarInv, NextDay
    PROVE  CalendarInv'
<1>0. /\ TypeOK /\ Places /\ pc = "days" /\ pc' = "page" /\ offset' = PageSize
      /\ answer = Nothing /\ fetched \in Nat
      /\ UNCHANGED <<upstream, fetched, pages, partial, answer>>
  BY DEF CalendarInv, Places, NextDay, TypeOK
<1>1. PICK day \in days : date' = day[2] /\ days' = days \ {day}
  BY DEF NextDay
<1>2. date' \in 1..End /\ date' \in Dates
  BY <1>0, <1>1, CalendarAssumption DEF Places, Dates
<1>3. /\ offset' <= (fetched' + 1) * PageSize
      /\ offset' \in 0..(MaxPages + 1) * PageSize
  <2>1. /\ (0 + 1) * PageSize <= (fetched + 1) * PageSize
        /\ (0 + 1) * PageSize <= (MaxPages + 1) * PageSize
        /\ (fetched + 1) * PageSize \in Nat /\ (MaxPages + 1) * PageSize \in Nat
    <3>1. 0 <= fetched /\ 0 <= MaxPages /\ 0 \in Nat /\ MaxPages \in Nat
      BY <1>0, CalendarAssumption
    <3>. QED BY <1>0, <3>1, PagesTake, Zenon
  <2>2. (0 + 1) * PageSize = PageSize /\ PageSize \in Nat
    BY CalendarAssumption
  <2>3. fetched' = fetched
    BY <1>0
  <2>. QED BY <1>0, <2>1, <2>2, <2>3
<1>4. TypeOK'
  BY <1>0, <1>1, <1>2, <1>3 DEF TypeOK, upstream
<1>5. Places'
  BY <1>0, <1>1, <1>2, <1>3, SameWindow, CalendarAssumption DEF Places, Nothing
<1>6. Behind'
  BY <1>0 DEF Behind
<1>7. Owed'
  <2>1. SUFFICES ASSUME steady, NEW e \in Window
                 PROVE  e \in Merge(pages') \/ LeftOut(e)' \/ ToCome(e)'
    BY <1>0, SameWindow DEF Owed, upstream
  <2>2. e \in Merge(pages) \/ LeftOut(e) \/ ToCome(e)
    BY <1>0, <2>1 DEF CalendarInv, Owed
  <2>3. CASE LeftOut(e)
    BY <1>0, <2>3 DEF LeftOut, upstream
  <2>4. CASE ToCome(e)
    BY <1>0, <1>1, <2>4 DEF ToCome
  <2>5. CASE e \in Merge(pages)
    BY <1>0, <2>5
  <2>. QED BY <2>2, <2>3, <2>4, <2>5
<1>. QED BY <1>4, <1>5, <1>6, <1>7 DEF CalendarInv

\* A page of a full date.
LEMMA DayPageStep ==
    ASSUME CalendarInv, DayPage
    PROVE  CalendarInv'
<1> DEFINE page == PageAt(date, offset)
<1>0. /\ TypeOK /\ Places /\ pc = "page" /\ answer = Nothing
      /\ fetched < MaxPages /\ fetched \in Nat
      /\ fetched' = fetched + 1 /\ pages' = Append(pages, page)
      /\ UNCHANGED <<upstream, date, days, partial, answer>>
      /\ pages \in Seq(SUBSET Window) /\ Len(pages) = fetched
      /\ date \in 1..End
      /\ offset >= PageSize /\ offset <= (fetched + 1) * PageSize
      /\ IF Cardinality(page) < PageSize
         THEN pc' = "days" /\ UNCHANGED offset
         ELSE offset' = offset + PageSize /\ UNCHANGED pc
  BY CalendarAssumption DEF CalendarInv, Places, DayPage, AtCap, TypeOK
<1>1. offset \in Nat
  BY <1>0, PagesTake, CalendarAssumption DEF TypeOK
<1>2. page \in SUBSET Window
  BY <1>0 DEF PageAt, Window
<1>3. /\ pages' \in Seq(SUBSET Window) /\ Len(pages') = fetched'
      /\ Merge(pages') = Merge(pages) \cup page
  <2>. HIDE DEF page
  <2>. QED BY <1>0, <1>2, PageAppended
<1>4. /\ offset' \in 0..(MaxPages + 1) * PageSize
      /\ offset' >= PageSize
      /\ offset' <= (fetched' + 1) * PageSize
  <2>1. /\ (fetched' + 1) * PageSize = (fetched + 1) * PageSize + PageSize
        /\ (fetched' + 1) * PageSize <= (MaxPages + 1) * PageSize
        /\ (fetched + 1) * PageSize \in Nat /\ (MaxPages + 1) * PageSize \in Nat
        /\ (fetched' + 1) * PageSize \in Nat
    <3>1. fetched' \in Nat /\ fetched' <= MaxPages /\ MaxPages \in Nat
      BY <1>0, CalendarAssumption
    <3>. QED BY <1>0, <3>1, PagesTake, Zenon
  <2>2. offset' = offset \/ offset' = offset + PageSize
    BY <1>0
  <2>3. PageSize \in Nat
    BY CalendarAssumption
  <2>4. offset >= PageSize /\ offset <= (fetched + 1) * PageSize
    BY <1>0
  <2>. QED BY <1>1, <2>1, <2>2, <2>3, <2>4
<1>5. TypeOK'
  <2>1. pages' \in Seq(SUBSET Events)
    BY <1>0, <1>3, WindowEvents
  <2>2. fetched' \in 0..MaxPages
    BY <1>0, CalendarAssumption
  <2>3. pc' \in {"days", "page"}
    BY <1>0
  <2>. HIDE DEF page
  <2>. QED BY <1>0, <1>3, <1>4, <2>1, <2>2, <2>3 DEF TypeOK, upstream
<1>6. Places'
  <2>1. Window' = Window
    BY <1>0, SameWindow
  <2>2. pc' \in {"days", "page"}
    BY <1>0
  <2>. HIDE DEF page
  <2>. QED BY <1>0, <1>3, <1>4, <2>1, <2>2 DEF Places, Nothing
<1>7. Behind'
  BY <1>0 DEF Behind
<1>8. Owed'
  <2>1. SUFFICES ASSUME steady, NEW e \in Window
                 PROVE  e \in Merge(pages') \/ LeftOut(e)' \/ ToCome(e)'
    BY <1>0, SameWindow DEF Owed, upstream
  <2>2. e \in Merge(pages) \/ LeftOut(e) \/ ToCome(e)
    BY <1>0, <2>1 DEF CalendarInv, Owed
  <2>3. CASE LeftOut(e)
    BY <1>0, <2>3 DEF LeftOut, upstream
  <2>4. CASE e.nth > PageSize /\ \E day \in days : day[2] = e.date
    BY <1>0, <2>4 DEF ToCome
  <2>5. CASE e.date = date /\ e.nth > offset
    <3>1. CASE Cardinality(page) < PageSize
      BY <1>0, <1>1, <1>3, <2>5, <3>1, ShortPageIsLast
    <3>2. CASE ~(Cardinality(page) < PageSize)
      <4>1. offset' = offset + PageSize /\ pc' = "page" /\ date' = date
        BY <1>0, <3>2
      <4>2. e \in OfDate(date) /\ e.nth \in Nat
        BY <1>0, <2>5, WindowEvents DEF OfDate
      <4>3. e \in page \/ e.nth > offset + PageSize
        BY <1>1, <2>5, <4>2, CalendarAssumption DEF PageAt
      <4>. HIDE DEF page
      <4>. QED BY <1>3, <2>5, <4>1, <4>3 DEF ToCome
    <3>. QED BY <3>1, <3>2
  <2>6. CASE e \in Merge(pages)
    BY <1>3, <2>6
  <2>. QED BY <1>0, <2>2, <2>3, <2>4, <2>5, <2>6 DEF ToCome
<1>. QED BY <1>5, <1>6, <1>7, <1>8 DEF CalendarInv

\* The second walk stops short: what was to come is past the first page of its
\* date.
LEMMA DayStopStep ==
    ASSUME CalendarInv, DayCapped \/ DayFails
    PROVE  CalendarInv'
<1>0. /\ TypeOK /\ Places /\ pc = "page" /\ pc' = "days" /\ answer = Nothing
      /\ days' = {} /\ Note(date)
      /\ UNCHANGED <<upstream, date, offset, fetched, pages, answer>>
      /\ date \in Dates /\ date # 0 /\ partial \in 0..Beyond
      /\ offset >= PageSize /\ offset \in Int
  BY CalendarAssumption, PagesTake
     DEF CalendarInv, Places, DayCapped, DayFails, BreakDates, TypeOK, Dates
<1>1. partial' \in 0..Beyond /\ partial' # 0 /\ (partial # 0 => partial' = partial)
  BY <1>0, CalendarAssumption DEF Note, Dates
<1>2. TypeOK'
  BY <1>0, <1>1 DEF TypeOK, upstream
<1>3. Places'
  BY <1>0, SameWindow DEF Places, Nothing
<1>4. Behind'
  BY <1>0 DEF Behind
<1>5. Owed'
  <2>1. SUFFICES ASSUME steady, NEW e \in Window
                 PROVE  e \in Merge(pages') \/ LeftOut(e)'
    BY <1>0, SameWindow DEF Owed, upstream
  <2>2. e \in Merge(pages) \/ LeftOut(e) \/ ToCome(e)
    BY <1>0, <2>1 DEF CalendarInv, Owed
  <2>3. CASE LeftOut(e)
    BY <1>0, <1>1, <2>3 DEF LeftOut, upstream
  <2>4. CASE ToCome(e)
    <3>1. e.nth \in Nat /\ count[e.date] \in Nat /\ e.nth <= count[e.date]
      BY <1>0, WindowEvents
    <3>2. e.nth > PageSize
      BY <1>0, <2>4, <3>1, CalendarAssumption DEF ToCome
    <3>3. count[e.date] > PageSize
      BY <3>1, <3>2, CalendarAssumption
    <3>. QED BY <1>0, <1>1, <3>3 DEF LeftOut, upstream
  <2>5. CASE e \in Merge(pages)
    BY <1>0, <2>5
  <2>. QED BY <2>2, <2>3, <2>4, <2>5
<1>. QED BY <1>2, <1>3, <1>4, <1>5 DEF CalendarInv

\* No date is left.
LEMMA DaysDoneStep ==
    ASSUME CalendarInv, DaysDone
    PROVE  CalendarInv'
<1>0. /\ TypeOK /\ Places /\ pc = "days" /\ pc' = "done" /\ days = {}
      /\ answer' = [seen |-> "ok", events |-> Merge(pages)]
      /\ UNCHANGED <<upstream, date, offset, fetched, pages, days, partial>>
  BY DEF CalendarInv, DaysDone, Finish
<1>1. Merge(pages) \subseteq Events
  BY <1>0 DEF TypeOK, Merge
<1>2. TypeOK'
  BY <1>0, <1>1 DEF TypeOK, upstream
<1>3. Places'
  BY <1>0, SameWindow DEF Places
<1>4. Behind'
  BY <1>0 DEF Behind
<1>5. Owed'
  <2>1. SUFFICES ASSUME steady, NEW e \in Window
                 PROVE  e \in Merge(pages') \/ LeftOut(e)'
    BY <1>0, SameWindow DEF Owed, upstream
  <2>2. e \in Merge(pages) \/ LeftOut(e)
    BY <1>0, <2>1 DEF CalendarInv, Owed, ToCome
  <2>. QED BY <1>0, <2>2 DEF LeftOut, upstream
<1>. QED BY <1>2, <1>3, <1>4, <1>5 DEF CalendarInv

-----------------------------------------------------------------------------

\* Every step keeps it.
LEMMA StepHolds == CalendarInv /\ [Next]_vars => CalendarInv'
<1>. SUFFICES ASSUME CalendarInv, [Next]_vars PROVE CalendarInv'
  OBVIOUS
<1>1. CASE UNCHANGED vars
  <2>1. Window' = Window
    BY <1>1, SameWindow DEF vars, upstream
  <2>2. /\ UNCHANGED <<upstream, pc, date, offset, fetched, pages>>
        /\ UNCHANGED <<days, partial, answer>>
    BY <1>1 DEF vars, upstream
  <2>3. TypeOK'
    BY <2>2 DEF CalendarInv, TypeOK, upstream
  <2>4. Places'
    BY <2>1, <2>2 DEF CalendarInv, Places, Merge
  <2>5. Behind'
    BY <2>1, <2>2 DEF CalendarInv, Behind, Merge, Full, upstream
  <2>6. Owed'
    BY <2>1, <2>2 DEF CalendarInv, Owed, LeftOut, ToCome, Merge, upstream
  <2>. QED BY <2>3, <2>4, <2>5, <2>6 DEF CalendarInv
<1>2. CASE Step
  BY <1>2, WalkStep, WalkStopStep, NextDayStep, DayPageStep, DayStopStep,
     DaysDoneStep DEF Step
<1>. QED BY <1>1, <1>2 DEF Next, Done

\* The answer holds the window, or says why not.
LEMMA WhatIsOwed ==
    CalendarInv => Complete /\ ShortWhereSaid
<1>. SUFFICES ASSUME CalendarInv PROVE Complete /\ ShortWhereSaid
  OBVIOUS
<1>1. answer.seen = "failed" => pages = <<>>
  BY DEF CalendarInv, Places
<1>2. ASSUME steady, answer.seen = "ok"
      PROVE  /\ answer.events \subseteq Window
             /\ \A e \in Window : e \in answer.events \/ LeftOut(e)
  <2>1. /\ pages \in Seq(SUBSET Window) /\ days = {} /\ pc = "done"
        /\ answer.events = Merge(pages)
    BY <1>2 DEF CalendarInv, Places, Nothing
  <2>2. Merge(pages) \subseteq Window
    BY <2>1 DEF Merge
  <2>. QED BY <1>2, <2>1, <2>2 DEF CalendarInv, Owed, ToCome
<1>3. Complete
  BY <1>2 DEF Complete, LeftOut
<1>4. ShortWhereSaid
  BY <1>1, <1>2 DEF ShortWhereSaid, LeftOut
<1>. QED BY <1>3, <1>4

\* What is owed is owed throughout the call.
THEOREM CalendarInvariance == Spec => []CalendarInv
<1>. QED BY InitHolds, StepHolds, PTL DEF Spec

\* The walks stay within the window, their budget and their types.
THEOREM TypeCorrect == Spec => []TypeOK
<1>1. CalendarInv => TypeOK
  BY DEF CalendarInv
<1>. QED BY CalendarInvariance, <1>1, PTL

\* An answer that is not marked partial holds every event of the window
\* (calendar.rs walks the crowded dates again by offset).
THEOREM NothingMissing == Spec => []Complete
<1>. QED BY CalendarInvariance, WhatIsOwed, PTL

\* What an answer lacks lies at or after the date its reason names, or on a date
\* with more than a page of events (calendar.rs, partial_reason).
THEOREM OnlyWhatIsSaid == Spec => []ShortWhereSaid
<1>. QED BY CalendarInvariance, WhatIsOwed, PTL

-----------------------------------------------------------------------------
(* That the call gets on. *)

\* One page of the budget is used, or one crowded date; or the call goes on to
\* its next part.
UsesUp ==
    \/ fetched < MaxPages /\ fetched' = fetched + 1
    \/ /\ fetched' = fetched
       /\ \/ pc = "walk"
          \/ days' \subseteq days /\ days' # days
          \/ days' = days /\ <<pc, pc'>> \in {<<"page", "days">>, <<"days", "done">>}

\* Wherever upstream's cursor points, every step uses up some of what is left to
\* do, and the call does not return to its first walk (calendar.rs, MAX_PAGES):
\* there are as many steps as pages, dates and parts.
THEOREM EveryStepUsesUp ==
    Spec => [][/\ pc # "done" /\ UsesUp
               /\ pc' = "walk" => pc = "walk" /\ fetched' = fetched + 1]_vars
<1>1. CalendarInv /\ [Next]_vars =>
        [/\ pc # "done" /\ UsesUp
         /\ pc' = "walk" => pc = "walk" /\ fetched' = fetched + 1]_vars
  <2>. SUFFICES ASSUME CalendarInv, Next, vars' # vars
                PROVE  /\ pc # "done" /\ UsesUp
                       /\ pc' = "walk" => pc = "walk" /\ fetched' = fetched + 1
    OBVIOUS
  <2>. USE DEF UsesUp
  <2>1. fetched \in 0..MaxPages /\ MaxPages \in Nat
    BY CalendarAssumption DEF CalendarInv, TypeOK
  <2>2. CASE WalkCapped \/ WalkFails \/ WalkUnreadable
    BY <2>2 DEF WalkCapped, WalkFails, WalkUnreadable, LeaveWalk, Finish
  <2>3. CASE Walk
    BY <2>1, <2>3 DEF Walk, WalkPage, AtCap, LeaveWalk
  <2>4. CASE NextDay
    BY <2>4 DEF NextDay
  <2>5. CASE DaysDone
    BY <2>5 DEF DaysDone, Finish
  <2>6. CASE DayCapped \/ DayFails
    BY <2>6 DEF DayCapped, DayFails, BreakDates
  <2>7. CASE DayPage
    BY <2>1, <2>7 DEF DayPage, AtCap
  <2>8. ~Done
    BY DEF Done
  <2>. QED BY <2>2, <2>3, <2>4, <2>5, <2>6, <2>7, <2>8 DEF Next, Step
<1>. QED BY <1>1, CalendarInvariance, PTL DEF Spec

=============================================================================
