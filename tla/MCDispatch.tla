----------------------------- MODULE MCDispatch -----------------------------
(***************************************************************************)
(* Every registered tool, under every endpoint, region and kind of token.  *)
(***************************************************************************)
EXTENDS Dispatch

AllTools == Registered

\* The hypotheses of the theorems in DispatchProofs, evaluated on the tables.
ASSUME TablesAssumption ==
    /\ PlansFit /\ ReadsLook /\ DirectoryLooks
    /\ ScopesFit /\ ReachFits /\ RatingIsHalves

=============================================================================
