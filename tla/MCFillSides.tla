---------------------------- MODULE MCFillSides ----------------------------
(* Instances of FillSides for TLC. *)
EXTENDS FillSides

\* Five orders in the window, one with fills from before it, and two that may
\* be placed meanwhile.  o2 is of another symbol, and neither Buy nor Sell.
MCPlaced == <<"o5", "o4", "o3", "o2", "o1">>

MCSymbolOf(o) == IF o = "o2" THEN "B" ELSE "A"
MCSideOf(o) ==
    CASE o \in {"o1", "o4", "old", "n2"} -> "Buy"
      [] o = "o2" -> "none"
      [] OTHER -> "Sell"

MCSymbols == [o \in Orders |-> MCSymbolOf(o)]
MCSides == [o \in Orders |-> MCSideOf(o)]
=============================================================================
