-------------------------- MODULE OrderWatchProofs --------------------------
(***************************************************************************)
(* The properties of OrderWatch for every zone whose clocks change by an   *)
(* hour at two in the morning, and for any time.                           *)
(***************************************************************************)
EXTENDS OrderWatch, TLAPS

ZoneOK == zone \in Zones

\* Every zone changes two hours into one of its days.
LEMMA ZoneFacts ==
    ASSUME ZoneOK
    PROVE  /\ zone.change \in Nat
           /\ zone.before \in {-5, -4} /\ zone.after \in {-5, -4}
           /\ \E k \in Int : zone.change + zone.before = 24 * k + 2
<1>1. /\ zone.change \in Nat /\ zone.before \in -5..-4 /\ zone.after \in -5..-4
      /\ (zone.change + zone.before) % 24 = 2
    BY ZonesAssumption DEF ZoneOK
<1>2. /\ (zone.change + zone.before) \div 24 \in Int
      /\ zone.change + zone.before = 24 * ((zone.change + zone.before) \div 24) + 2
    BY <1>1
<1>. QED BY <1>1, <1>2

\* Dividing by the hours of a day.
LEMMA DivDay ==
    ASSUME NEW x \in Int, NEW d \in Int
    PROVE  /\ x \div 24 \in Int
           /\ x \div 24 >= d <=> x >= 24 * d
           /\ x \div 24 <= d <=> x <= 24 * d + 23
OBVIOUS

\* The hours the code asks about, 00:00, 20:00 and 23:59:59, come once on every
\* date: comparing with their instants is comparing local times.
LEMMA HourInstant ==
    ASSUME ZoneOK, NEW t \in Int, NEW d \in Int, NEW h \in {0, 20, 23}
    PROVE  /\ NewYorkInstant(d, h) \in Int
           /\ NewYorkInstant(d, h) <= t <=> 24 * d + h <= Local(t)
           /\ t <= NewYorkInstant(d, h) <=> Local(t) <= 24 * d + h
<1>. PICK k \in Int : zone.change + zone.before = 24 * k + 2
    BY ZoneFacts
<1>1. NewYorkInstant(d, h) \in Int
    BY ZoneFacts DEF NewYorkInstant, Offset
<1>2. NewYorkInstant(d, h) <= t <=> 24 * d + h <= Local(t)
    BY ZoneFacts DEF NewYorkInstant, Local, Offset
<1>3. t <= NewYorkInstant(d, h) <=> Local(t) <= 24 * d + h
    BY ZoneFacts DEF NewYorkInstant, Local, Offset
<1>. QED BY <1>1, <1>2, <1>3

LEMMA LocalDate ==
    ASSUME ZoneOK, NEW t \in Int
    PROVE  /\ Local(t) \in Int /\ DateOf(t) \in Int /\ TradingDay(t) \in Int
           /\ 24 * DateOf(t) <= Local(t) /\ Local(t) <= 24 * DateOf(t) + 23
           /\ 24 * TradingDay(t) - 4 <= Local(t)
           /\ Local(t) <= 24 * TradingDay(t) + 19
<1>1. Local(t) \in Int
    BY ZoneFacts DEF Local, Offset
<1>. DEFINE x == Local(t)
<1>2. x \in Int /\ x + 4 \in Int
    BY <1>1
<1>. HIDE DEF x
<1>3. /\ x \div 24 \in Int /\ (x + 4) \div 24 \in Int
      /\ 24 * (x \div 24) <= x /\ x <= 24 * (x \div 24) + 23
      /\ 24 * ((x + 4) \div 24) <= x + 4 /\ x + 4 <= 24 * ((x + 4) \div 24) + 23
    BY <1>2
<1>. QED BY <1>2, <1>3 DEF x, DateOf, TradingDay, OvernightSessionOpen

\* Local time never runs backwards by more than the repeated hour, and never
\* over midnight.
LEMMA DatesAdvance ==
    ASSUME ZoneOK, NEW t \in Int, NEW u \in Int, t <= u
    PROVE  DateOf(t) <= DateOf(u) /\ TradingDay(t) <= TradingDay(u)
<1>1. /\ DateOf(t) \in Int /\ 24 * DateOf(t) + 0 <= Local(t)
      /\ TradingDay(t) - 1 \in Int
      /\ 24 * (TradingDay(t) - 1) + 20 <= Local(t)
    BY LocalDate
<1>2. NewYorkInstant(DateOf(t), 0) <= t /\ NewYorkInstant(DateOf(t), 0) \in Int
    BY <1>1, HourInstant
<1>3. /\ NewYorkInstant(TradingDay(t) - 1, 20) <= t
      /\ NewYorkInstant(TradingDay(t) - 1, 20) \in Int
    BY <1>1, HourInstant
<1>4. /\ NewYorkInstant(DateOf(t), 0) <= u
      /\ NewYorkInstant(TradingDay(t) - 1, 20) <= u
    BY <1>2, <1>3
<1>5. 24 * DateOf(t) + 0 <= Local(u)
    BY <1>1, <1>4, HourInstant
<1>6. 24 * (TradingDay(t) - 1) + 20 <= Local(u)
    BY <1>1, <1>4, HourInstant
<1>. QED BY <1>1, <1>5, <1>6, LocalDate

\* history_orders for bare dates returns the instants of these dates.
LEMMA HistoryIsDates ==
    ASSUME ZoneOK, NEW t \in Int, NEW first \in Int, NEW last \in Int
    PROVE  t \in HistoryRange(first, last) <=>
                first <= DateOf(t) /\ DateOf(t) <= last
<1>1. /\ NewYorkInstant(first, 0) \in Int /\ NewYorkInstant(last, 23) \in Int
      /\ NewYorkInstant(first, 0) <= t <=> 24 * first + 0 <= Local(t)
      /\ t <= NewYorkInstant(last, 23) <=> Local(t) <= 24 * last + 23
    BY HourInstant
<1>2. t \in HistoryRange(first, last) <=>
            24 * first <= Local(t) /\ Local(t) <= 24 * last + 23
    BY <1>1 DEF HistoryRange, EndOfDay
<1>. QED BY <1>2, LocalDate

\* us_today_orders_window holds the rest of today's trading day, what of it
\* traded yesterday evening included.
LEMMA TodayIsTradingDay ==
    ASSUME ZoneOK, NEW t \in Int, now \in Int
    PROVE  t \in TodayWindow <=>
                TradingDay(t) >= DateOf(now) /\ DateOf(t) <= DateOf(now)
<1>1. DateOf(now) \in Int /\ DateOf(now) - 1 \in Int
    BY LocalDate
<1>2. /\ NewYorkInstant(DateOf(now) - 1, 20) \in Int
      /\ NewYorkInstant(DateOf(now), 23) \in Int
      /\ NewYorkInstant(DateOf(now) - 1, 20) <= t <=>
            24 * (DateOf(now) - 1) + 20 <= Local(t)
      /\ t <= NewYorkInstant(DateOf(now), 23) <=>
            Local(t) <= 24 * DateOf(now) + 23
    BY <1>1, HourInstant
<1>3. t \in TodayWindow <=>
            24 * (DateOf(now) - 1) + 20 <= Local(t)
            /\ Local(t) <= 24 * DateOf(now) + 23
    BY <1>2 DEF TodayWindow, EndOfDay, OvernightSessionOpen
<1>. QED BY <1>1, <1>3, LocalDate

-----------------------------------------------------------------------------

\* What is upstream was not there before it was sent.
SentBefore == \A s \in orders : sent # -1 /\ sent <= s

IInv == TypeOK /\ SentBefore

LEMMA Initial == Init => IInv
BY DEF Init, IInv, TypeOK, SentBefore

LEMMA Inductive == IInv /\ [Next]_vars => IInv'
<1>. SUFFICES ASSUME IInv, [Next]_vars PROVE IInv'
    OBVIOUS
<1>. USE DEF IInv, TypeOK, SentBefore
<1>1. CASE Tick
    BY <1>1 DEF Tick
<1>2. CASE Send
    BY <1>2 DEF Send
<1>3. CASE Check
    BY <1>3 DEF Check
<1>4. ASSUME NEW stamp \in {now, now + 1}, Execute(stamp) PROVE IInv'
    BY <1>4 DEF Execute
<1>5. CASE UNCHANGED vars
    BY <1>5 DEF vars
<1>. QED BY <1>1, <1>2, <1>3, <1>4, <1>5 DEF Next

LEMMA Invariance == Spec => []IInv
BY Initial, Inductive, PTL DEF Spec

\* Every reachable state is of the declared types.
THEOREM TypeCorrect == Spec => []TypeOK
<1>1. IInv => TypeOK
    BY DEF IInv
<1>. QED BY <1>1, Invariance, PTL

\* Every order is in the history of its own New York day and of no other, and
\* in today_orders only in its own trading day, whatever the clocks do.
THEOREM OnItsDay == Spec => []ListedOnItsDay
<1>1. ASSUME IInv PROVE ListedOnItsDay
  <2>. SUFFICES ASSUME NEW s \in orders
                PROVE  /\ s \in HistoryRange(DateOf(s), DateOf(s))
                       /\ \A d \in DateOf(s) - 2..DateOf(s) + 2 :
                            s \in HistoryRange(d, d) => d = DateOf(s)
                       /\ s \in TodayWindow => TradingDay(s) >= DateOf(now)
    BY DEF ListedOnItsDay
  <2>1. ZoneOK /\ s \in Int /\ now \in Int
    BY <1>1 DEF IInv, TypeOK, ZoneOK
  <2>2. DateOf(s) \in Int
    BY <2>1, LocalDate
  <2>3. s \in HistoryRange(DateOf(s), DateOf(s))
    BY <2>1, <2>2, HistoryIsDates
  <2>4. ASSUME NEW d \in DateOf(s) - 2..DateOf(s) + 2, s \in HistoryRange(d, d)
        PROVE  d = DateOf(s)
    <3>1. d \in Int
      BY <2>2
    <3>. QED BY <2>1, <2>2, <2>4, <3>1, HistoryIsDates
  <2>5. s \in TodayWindow => TradingDay(s) >= DateOf(now)
    BY <2>1, TodayIsTradingDay
  <2>. QED BY <2>3, <2>4, <2>5
<1>. QED BY <1>1, Invariance, PTL

\* A look, whenever it comes, shows every order executed by then whose stamp is
\* not past a midnight yet to come.
THEOREM LooksAreComplete == Spec => NothingOverlooked
<1>1. ASSUME IInv, Check, NEW s \in orders, ~(DateOf(s) > DateOf(now))
      PROVE  s \in listed'
  <2>1. /\ ZoneOK /\ s \in Int /\ now \in Int /\ sent \in Int
        /\ sent <= s
    BY <1>1 DEF IInv, TypeOK, SentBefore, ZoneOK
  <2>2. /\ DateOf(s) \in Int /\ DateOf(now) \in Int /\ DateOf(sent) \in Int
        /\ TradingDay(s) \in Int /\ TradingDay(now) \in Int
        /\ DateOf(now) - 1 \in Int
    BY <2>1, LocalDate
  <2>3. DateOf(sent) <= DateOf(s) /\ TradingDay(sent) <= TradingDay(s)
    BY <2>1, DatesAdvance
  <2>4. DateOf(s) <= DateOf(now)
    BY <1>1, <2>2
  <2>5. s \in TodayWindow \cup Before
    <3>1. CASE TradingDay(s) >= DateOf(now)
      BY <2>1, <2>4, <3>1, TodayIsTradingDay
    <3>2. CASE ~(TradingDay(s) >= DateOf(now))
      <4>1. TradingDay(now) >= DateOf(now) /\ DateOf(s) <= TradingDay(s)
        BY <2>1, LocalDate
      <4>2. TradingDay(now) # TradingDay(sent)
        BY <2>2, <2>3, <3>2, <4>1
      <4>3. DateOf(s) <= DateOf(now) - 1
        BY <2>2, <3>2, <4>1
      <4>4. s \in HistoryRange(DateOf(sent), DateOf(now) - 1)
        BY <2>1, <2>2, <2>3, <4>3, HistoryIsDates
      <4>. QED BY <4>2, <4>4 DEF Before
    <3>. QED BY <3>1, <3>2
  <2>. QED BY <1>1, <2>5 DEF Check
<1>2. IInv /\ [Next]_vars =>
        [Check => \A s \in orders : s \in listed' \/ DateOf(s) > DateOf(now)]_vars
    BY <1>1
<1>. QED BY <1>2, Invariance, PTL DEF Spec, NothingOverlooked

=============================================================================
