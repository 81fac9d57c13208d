------------------------------ MODULE MCBuyouts ------------------------------
(* A tab whose name is almost a price and a remove-only tab whose name is one. *)
EXTENDS Buyouts

LabelTexts == [l \in {"A", "B"} |-> IF l = "A" THEN NoCurrency ELSE "p1"]
=============================================================================
