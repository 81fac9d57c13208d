------------------------------- MODULE MCLogin -------------------------------
(* Two accounts, two user directories and two leagues for Login; which is which *)
(* makes no difference.                                                         *)
EXTENDS Login, TLC

CONSTANTS a1, a2, d1, d2, l1, l2

AccountNames == {a1, a2}
DirNames == {d1, d2}
LeagueNamesUsed == {l1, l2}
Symmetry == Permutations(AccountNames) \cup Permutations(DirNames)
                \cup Permutations(LeagueNamesUsed)
=============================================================================
