--------------------------- MODULE MCCalendarWalk ---------------------------
(***************************************************************************)
(* Three dates in the window and one after it, with up to five events      *)
(* each, in pages of two: dates that fill no page, one, and several.       *)
(***************************************************************************)
EXTENDS CalendarWalk

=============================================================================
