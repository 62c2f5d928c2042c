-------------------------- MODULE MCExecutionGate --------------------------
(* Instances of ExecutionGate for TLC. *)
EXTENDS ExecutionGate, TLC

Ask(tool, object, headline, rest, note, spelling) ==
    [tool |-> tool, object |-> object, headline |-> headline, rest |-> rest,
     note |-> note, spelling |-> spelling]

\* One order in three wordings, and what differs from it in one respect: the
\* price, the attached legs, a missing field; then two cancels of one id (of an
\* order and of an attached leg), and a fund order, which is not validated.
MCRequests ==
    {Ask("submit", "s", "buy 1", "day", "n1", "plain"),
     Ask("submit", "s", "buy 1", "day", "n2", "reworded"),
     Ask("submit", "s", "buy 1", "day", "n1", "odd"),
     Ask("submit", "s", "buy 2", "day", "n1", "plain"),
     Ask("submit", "s", "buy 1", "day, legs", "n1", "plain"),
     Ask("submit", "s", "buy 1", "missing", "n1", "plain"),
     Ask("cancel", "o", "none", "none", "none", "plain"),
     Ask("cancel attached", "o", "none", "none", "none", "plain"),
     Ask("fund", "f", "buy", "amount 5", "n1", "odd")}

\* Requests for the runs about one order: its note may change.
OneOrder ==
    {Ask("submit", "s", "buy 1", "day", note, spelling) :
        note \in {"n1", "n2"}, spelling \in {"plain", "reworded"}}

\* Sixteen bits of a digest; no two agree in the last three digits.
MCDigest ==
    [s \in Scopes |->
        CASE s.tool = "cancel" -> 61001
          [] s.tool = "cancel attached" -> 2
          [] s.tool = "fund" -> 5003
          [] s.headline = "buy 2" -> 999
          [] s.rest = "day" -> 40007
          [] s.rest = "missing" -> 1008
          [] OTHER -> 33000]

\* Instances are interchangeable.
InstanceSymmetry == Permutations(Instances)

ASSUME NoCollision
=============================================================================
