----------------------------- MODULE OrderWatch -----------------------------
(***************************************************************************)
(* A write whose outcome is unknown, on a US account: the client is told   *)
(* to look before it sends the order again, and looks whenever it gets to  *)
(* it: in today_orders, and in history_orders too when the trading day of  *)
(* the write is over.  The order may be executed late, with a stamp        *)
(* slightly ahead of this server's clock, and New York may change its      *)
(* clocks in between.                                                      *)
(*                                                                         *)
(* Time runs in whole hours of UTC, hour 0 being UTC midnight of date 0;   *)
(* 23:59:59 is hour 23 of its day.  How many orders a walk over the pages  *)
(* returns is FillSides' subject; here every order of the window is seen.  *)
(***************************************************************************)
EXTENDS Integers

CONSTANTS
    Zones,   \* ways New York's clocks may behave in these days
    Horizon  \* bound: the last hour the client waits for

\* The clocks change by an hour, at 02:00 local time.
ASSUME ZonesAssumption ==
    \A z \in Zones :
        /\ z.change \in Nat /\ z.before \in -5..-4 /\ z.after \in -5..-4
        /\ (z.change + z.before) % 24 = 2

ASSUME HorizonAssumption == Horizon \in Nat

VARIABLES
    zone,    \* New York's offsets and the hour they change
    now,     \* this server's clock
    sent,    \* when the client sent the order, or -1
    orders,  \* the stamps of its orders upstream
    listed   \* the stamps the client saw when it last looked

vars == <<zone, now, sent, orders, listed>>

-----------------------------------------------------------------------------
(* us_market.rs and parse.rs. *)

\* time_tz's America/New_York.
Offset(t) == IF t < zone.change THEN zone.before ELSE zone.after
Local(t) == t + Offset(t)
DateOf(t) == Local(t) \div 24

\* Slip: the offset of the moment, whatever date is asked about.
NewYorkInstantOfNow(date, hour) == 24 * date + hour - Offset(now)

\* An hour that comes twice is its first occurrence; one that is skipped is
\* read with the offset New York had at UTC midnight of the date.
NewYorkInstant(date, hour) ==
    LET local == 24 * date + hour
    IN CASE local - zone.before < zone.change -> local - zone.before
         [] local - zone.before >= zone.change
            /\ local - zone.after >= zone.change -> local - zone.after
         [] OTHER -> local - Offset(24 * date)

OvernightSessionOpen == 20
EndOfDay == 23

\* Slip: the window opens at midnight.
TodayWindowFromMidnight ==
    NewYorkInstant(DateOf(now), 0)..NewYorkInstant(DateOf(now), EndOfDay)

\* us_today_orders_window
TodayWindow ==
    NewYorkInstant(DateOf(now) - 1, OvernightSessionOpen)
        ..NewYorkInstant(DateOf(now), EndOfDay)

\* Slip: a day is twenty-four hours.
HistoryRangeOf24(first, last) ==
    NewYorkInstant(first, 0)..NewYorkInstant(first, 0) + 24 * (last - first) + EndOfDay

\* history_range of two bare dates.
HistoryRange(first, last) ==
    NewYorkInstant(first, 0)..NewYorkInstant(last, EndOfDay)

-----------------------------------------------------------------------------

Init ==
    /\ zone \in Zones
    /\ now \in 24..47
    /\ sent = -1
    /\ orders = {}
    /\ listed = {}

Tick ==
    /\ now < Horizon
    /\ now' = now + 1
    /\ UNCHANGED <<zone, sent, orders, listed>>

Send ==
    /\ sent = -1
    /\ sent' = now
    /\ UNCHANGED <<zone, now, orders, listed>>

\* Upstream's clock may be ahead.
Execute(stamp) ==
    /\ sent # -1
    /\ orders = {}
    /\ stamp \in {now, now + 1}
    /\ orders' = {stamp}
    /\ UNCHANGED <<zone, now, sent, listed>>

\* The trading day of an instant: from 20:00 on, the next one.
TradingDay(t) == (Local(t) + 24 - OvernightSessionOpen) \div 24

\* history_orders from the day of the write to yesterday.
Before ==
    IF TradingDay(now) = TradingDay(sent) THEN {}
    ELSE HistoryRange(DateOf(sent), DateOf(now) - 1)

\* Slip: order_id filters nothing.
CheckUnfiltered ==
    /\ sent # -1
    /\ listed' = TodayWindow \cup Before
    /\ UNCHANGED <<zone, now, sent, orders>>

Check ==
    /\ sent # -1
    /\ listed' = orders \cap (TodayWindow \cup Before)
    /\ UNCHANGED <<zone, now, sent, orders>>

Next ==
    \/ Tick \/ Send \/ Check
    \/ \E stamp \in {now, now + 1} : Execute(stamp)

Spec == Init /\ [][Next]_vars

-----------------------------------------------------------------------------

TypeOK ==
    /\ zone \in Zones
    /\ now \in Nat
    /\ sent \in -1..now
    /\ orders \subseteq 0..now + 1
    /\ listed \subseteq orders

\* "agents are told to check today_orders before resending an unconfirmed write,
\* and a missing order would invite a duplicate" (trade.rs): a look shows every
\* order executed by then, whenever it comes and whatever the clocks do in
\* between, unless its stamp is past a midnight this server has yet to see.
NothingOverlooked ==
    [][Check => \A s \in orders : s \in listed' \/ DateOf(s) > DateOf(now)]_vars

\* An order is in the history of its own New York day and of no other, be the
\* day 23 or 25 hours long, and today_orders lists none of a trading day gone by.
ListedOnItsDay ==
    \A s \in orders :
        /\ s \in HistoryRange(DateOf(s), DateOf(s))
        /\ \A d \in DateOf(s) - 2..DateOf(s) + 2 :
                s \in HistoryRange(d, d) => d = DateOf(s)
        /\ s \in TodayWindow => TradingDay(s) >= DateOf(now)

=============================================================================
