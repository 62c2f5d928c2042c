-------------------------- MODULE MCResponseLimit --------------------------
(* Instances of ResponseLimit for TLC. *)
EXTENDS ResponseLimit

\* Times of a series of n elements, around Now = 5: none, ascending up to now,
\* ascending into the future, descending.
NoTimes(n) == [i \in 1..n |-> 0]
Past(n) == [i \in 1..n |-> i]
Future(n) == [i \in 1..n |-> i + 5 - n \div 2]
Descending(n) == [i \in 1..n |-> n + 1 - i]

Rows(t) == [i \in DOMAIN t |-> [time |-> t[i], weight |-> 1]]

\* Flat results: five elements of uneven weight.
FlatDocs ==
    {[i \in 1..5 |-> [time |-> t[i], weight |-> w[i], rows |-> <<>>]] :
        t \in {NoTimes(5), Past(5), Future(5), Descending(5)},
        w \in [1..5 -> {1, 4}]}

\* Two or three sections, each with no rows or with three or five; the heaviest
\* sections do not fit even alone and without rows.
RowChoices == {<<>>, Rows(Past(3)), Rows(NoTimes(3)), Rows(Past(5)), Rows(Future(5))}
NestedDocs ==
    UNION {{[i \in 1..n |-> [time |-> t[i], weight |-> w, rows |-> r[i]]] :
               t \in {NoTimes(n), Past(n), Future(n)}, w \in {1, 3, 9},
               r \in [1..n -> RowChoices]} :
           n \in {2, 3}}

MCDocs == FlatDocs \cup NestedDocs

\* A calendar of eight days around now, whose days differ in weight.
CalendarDocs ==
    {[i \in 1..8 |-> [time |-> i + 1, weight |-> w[i], rows |-> <<>>]] :
        w \in [1..8 -> {1, 4}]}

\* Two sections, the second with a series of rows; heavy sections overflow
\* even when their series is cut.
SectionDocs ==
    {[i \in 1..2 |-> [time |-> 0, weight |-> w,
                      rows |-> IF i = 2 THEN Rows(NoTimes(3)) ELSE <<>>]] :
        w \in 1..60}
=============================================================================
