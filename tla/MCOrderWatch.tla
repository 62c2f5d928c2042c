---------------------------- MODULE MCOrderWatch ----------------------------
(* Three days around a change of the clocks, or without one. *)
EXTENDS OrderWatch

Zone(change, before, after) ==
    [change |-> change, before |-> before, after |-> after]

\* Forward and back on date 2, at 02:00 local time, and winter.
MCZones == {Zone(55, -5, -4), Zone(54, -4, -5), Zone(7, -5, -5)}

=============================================================================
