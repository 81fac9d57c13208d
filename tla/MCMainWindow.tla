---------------------------- MODULE MCMainWindow ----------------------------
(* One tab with two items, one of them with an icon that is a path.        *)
EXTENDS MainWindow

ItemTabs == (1 :> 1) @@ (2 :> 1)
ItemIcons == (1 :> 1) @@ (2 :> 2)
Accepting == [f \in Filters \ {"priced"} |-> IF f = "colors" THEN {2} ELSE {1}]

Budget(searches, edits, picks, views, prices, refreshes) ==
    [searches |-> searches, edits |-> edits, picks |-> picks,
     views |-> views, prices |-> prices, refreshes |-> refreshes]

(* The form and the bar; the view and the panel of one search; prices; a   *)
(* bit of everything.                                                      *)
SomeBudgets ==
    {Budget(2, 2, 0, 0, 0, 2), Budget(3, 1, 0, 0, 0, 1), Budget(1, 1, 2, 1, 0, 2),
     Budget(1, 1, 3, 1, 0, 1), Budget(1, 2, 1, 0, 1, 2), Budget(2, 0, 1, 1, 1, 1)}
=============================================================================
