------------------------ MODULE MCItemsManagerWorker ------------------------
(* An account with two stash tabs and one character. *)
EXTENDS LegacyUpdates

CONSTANTS s1, s2

TwoStashes   == {s1, s2}
OneCharacter == {"c1"}
Updates      == [OAUTH |-> 2, LEGACY |-> 1]
OneUpdate    == [OAUTH |-> 1, LEGACY |-> 1]
Alike        == Permutations(TwoStashes)
=============================================================================
