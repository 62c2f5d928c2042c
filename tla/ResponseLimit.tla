--------------------------- MODULE ResponseLimit ---------------------------
(***************************************************************************)
(* limit(): while a JSON result is over MAX_RESPONSE_BYTES, its longest    *)
(* array loses its oldest entries, or its last ones when it is no past     *)
(* time series, and the notice says what was kept of which array.          *)
(*                                                                         *)
(* A document is modelled as one array of sections, each of which holds an *)
(* array of rows (a flat result has sections without rows).  Sections and  *)
(* rows have a time, 0 when they carry none, and a weight in bytes.        *)
(*                                                                         *)
(* Definitions whose comment begins with "Slip" are wrong on purpose: they *)
(* take the place of the next definition in the mutation runs.             *)
(***************************************************************************)
EXTENDS Naturals, Sequences, FiniteSets, FiniteSetsExt

CONSTANTS
    Docs,     \* the documents
    Limit,    \* MAX_RESPONSE_BYTES
    Overhead, \* bytes of a document around its sections
    Now       \* the time at which limit() runs

Row == [time : Nat, weight : Nat]
Section == [time : Nat, weight : Nat, rows : Seq(Row)]

ASSUME ResponseLimitAssumption ==
    /\ Docs \subseteq Seq(Section)
    /\ Limit \in Nat /\ Overhead \in Nat /\ Now \in Nat

VARIABLES
    full, \* the result of the tool
    doc,  \* what is left of it
    cuts, \* the arrays cut so far, as the notice names them
    done

vars == <<full, doc, cuts, done>>

\* An array is named by its path: 0 is the array of sections, i the rows of
\* the section that is at position i now.
Paths(d) == 0..Len(d)
ArrayAt(d, path) == IF path = 0 THEN d ELSE d[path].rows

Cut == [path : Nat, kept : Nat, total : Nat, latest : BOOLEAN]

TypeOK ==
    /\ full \in Docs
    /\ doc \in Seq(Section)
    /\ cuts \in Seq(Cut)
    /\ done \in BOOLEAN

Init ==
    /\ full \in Docs
    /\ doc = full
    /\ cuts = <<>>
    /\ done = FALSE

-----------------------------------------------------------------------------

\* The sum of the numbers w.
Total(w) == MapThenSumSet(LAMBDA i : w[i], DOMAIN w)

Weight(rows) == Total([i \in DOMAIN rows |-> rows[i].weight])

SectionsSize(d) == Total([i \in DOMAIN d |-> d[i].weight + Weight(d[i].rows)])

Size(d) == Overhead + SectionsSize(d)

ArraySize(d, path) ==
    IF path = 0 THEN SectionsSize(d) ELSE Weight(d[path].rows)

\* Slip: arrays of one element are candidates as well.
CandidatesSingle(d) == {p \in Paths(d) : Len(ArrayAt(d, p)) >= 1}

Candidates(d) == {p \in Paths(d) : Len(ArrayAt(d, p)) > 1}

\* The rank of largest_array: the count, then the bytes.
Longer(d, p, q) ==
    \/ Len(ArrayAt(d, p)) > Len(ArrayAt(d, q))
    \/ Len(ArrayAt(d, p)) = Len(ArrayAt(d, q))
       /\ ArraySize(d, p) > ArraySize(d, q)

\* Of the highest rank, the one its traversal comes to first: the outer array,
\* then the rows of the last section.
LargestArray(d) ==
    LET best == {p \in Candidates(d) : \A q \in Candidates(d) : ~Longer(d, q, p)}
    IN  IF 0 \in best THEN 0 ELSE Max(best)

\* keep_tail_by_time: a past series in ascending order.
KeepTail(items) ==
    LET first == items[1].time
        last == items[Len(items)].time
    IN  first # 0 /\ last # 0 /\ first < last /\ last <= Now

\* In proportion to the overshoot, with a margin; at least one element stays
\* and at least one goes.
Keep(total, size) ==
    LET share == (total * Limit * 9) \div (size * 10)
    IN  IF share < 1 THEN 1 ELSE IF share > total - 1 THEN total - 1 ELSE share

\* Slip: always the head.
KeptHead(items, keep) == SubSeq(items, 1, keep)

Kept(items, keep) ==
    IF KeepTail(items) THEN SubSeq(items, Len(items) - keep + 1, Len(items))
    ELSE SubSeq(items, 1, keep)

\* Slip: the shortened array takes the place of the document.
PutWhole(d, path, items) == items

Put(d, path, items) ==
    IF path = 0 THEN items ELSE [d EXCEPT ![path].rows = items]

\* Slip: an array that is cut again keeps its first notice.
NotedOnce(path, keep, items) ==
    IF \E k \in DOMAIN cuts : cuts[k].path = path
    THEN cuts
    ELSE Append(cuts, [path |-> path, kept |-> keep, total |-> Len(items),
                       latest |-> KeepTail(items)])

\* An array that is cut again only has its kept count updated.
Noted(path, keep, items) ==
    IF \E k \in DOMAIN cuts : cuts[k].path = path
    THEN [k \in DOMAIN cuts |->
             IF cuts[k].path = path THEN [cuts[k] EXCEPT !.kept = keep]
             ELSE cuts[k]]
    ELSE Append(cuts, [path |-> path, kept |-> keep, total |-> Len(items),
                       latest |-> KeepTail(items)])

CutLargest ==
    /\ ~done
    /\ Size(doc) > Limit
    /\ Candidates(doc) # {}
    /\ LET path == LargestArray(doc)
           items == ArrayAt(doc, path)
           keep == Keep(Len(items), Size(doc))
       IN  /\ doc' = Put(doc, path, Kept(items, keep))
           /\ cuts' = Noted(path, keep, items)
    /\ UNCHANGED <<full, done>>

\* Slip: one pass has to do.
FinishEarly ==
    /\ ~done
    /\ Size(doc) <= Limit \/ Candidates(doc) = {} \/ cuts # <<>>
    /\ done' = TRUE
    /\ UNCHANGED <<full, doc, cuts>>

Finish ==
    /\ ~done
    /\ Size(doc) <= Limit \/ Candidates(doc) = {}
    /\ done' = TRUE
    /\ UNCHANGED <<full, doc, cuts>>

Next == CutLargest \/ Finish

Spec == Init /\ [][Next]_vars

\* The loop runs to its end without waiting for anything.
FairSpec == Spec /\ WF_vars(Next)

-----------------------------------------------------------------------------
(* Properties. *)

\* "Keeps tool results under the size MCP clients accept": the loop ends, with
\* a document that fits or has nothing left to cut.
Finishes == <>done
FitsOrBare ==
    done => \/ Size(doc) <= Limit
            \/ \A p \in Paths(doc) : Len(ArrayAt(doc, p)) <= 1

Last(items) == items[Len(items)]

IsPastSeries(items) ==
    /\ Len(items) > 1 /\ items[1].time # 0 /\ Last(items).time <= Now
    /\ \A i, j \in DOMAIN items : i < j => items[i].time <= items[j].time

NewestOf(left, items) ==
    IsPastSeries(items) => Last(left).time = Last(items).time

\* "ascending time series keep the newest entries", through any number of cuts
\* of the series and of what holds it: what is left are neighbouring sections,
\* and they and their rows reach as far as before.
NewestKept ==
    /\ NewestOf(doc, full)
    /\ \E skip \in 0..Len(full) - Len(doc) :
          \A i \in DOMAIN doc :
             /\ doc[i].time = full[skip + i].time
             /\ NewestOf(doc[i].rows, full[skip + i].rows)

\* The notice has the two lengths of the array at path if it was cut.
InNotice(path) ==
    Len(ArrayAt(doc, path)) < Len(ArrayAt(full, path)) =>
        \E k \in DOMAIN cuts :
            /\ cuts[k].path = path
            /\ cuts[k].kept = Len(ArrayAt(doc, path))
            /\ cuts[k].total = Len(ArrayAt(full, path))

\* No two sections are in the order of a past series, so that they are cut from
\* the end and keep their positions.
SectionsStay ==
    ~\E i, j \in DOMAIN full :
        /\ i < j /\ full[i].time # 0
        /\ full[i].time < full[j].time /\ full[j].time <= Now

\* "telling the model what was cut": the notice has the sections, and as long as
\* these keep their positions the rows of each of them.
NoticeComplete ==
    /\ InNotice(0)
    /\ Len(doc) = Len(full) \/ SectionsStay =>
          \A path \in Paths(doc) : InNotice(path)

\* "A series that runs into the future ... keeps its head instead".
FutureKeepsHead ==
    (\E i \in DOMAIN full : full[i].time > Now) => doc[1] = full[1]
=============================================================================
