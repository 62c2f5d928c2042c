----------------------------- MODULE MCFxCache -----------------------------
(* Instances of FxCache for TLC. *)
EXTENDS FxCache

\* Calls, URLs of one kind and mutex addresses are interchangeable.
GateSymmetry ==
    Permutations(Calls) \cup Permutations(Locks)
    \cup Permutations(Urls \ SettledUrls)
=============================================================================
