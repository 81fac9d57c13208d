------------------------------- MODULE Search -------------------------------
(***************************************************************************)
(* One search of the main window: its filters, the items they let through, *)
(* the buckets the view lists and the rows they make (search.cpp,          *)
(* filters.cpp, modsfilter.cpp, bucket.cpp, items_model.cpp).              *)
(*                                                                         *)
(* Items and tabs are numbered in the order of the list; 0 is no item and  *)
(* the null location.  Refetching an item makes another object, so that    *)
(* Items stands for the objects and not for what they describe.  A filter  *)
(* is either empty or set to one value.                                    *)
(***************************************************************************)
EXTENDS Integers, FiniteSets, SequencesExt

CONSTANTS
    Items,      \* the Item objects a refresh may bring, positive numbers
    TabOf,      \* [Items -> Tabs]: the location of each
    Tabs,       \* the stash tabs, positive numbers
    Filters,    \* the filters of the form, one of a kind
    Accepts     \* [Filters -> SUBSET Items]: what a set filter lets through, but for
                \* the one that goes by the price

(* The kinds of filter differ in what their widgets do.                    *)
Kinds == {"name", "rarity", "colors", "checked", "priced", "mods"}

ASSUME SearchAssumption ==
    /\ Items \subseteq Nat \ {0} /\ IsFiniteSet(Items)
    /\ Tabs \subseteq Nat \ {0} /\ IsFiniteSet(Tabs)
    /\ TabOf \in [Items -> Tabs]
    /\ Filters \subseteq Kinds
    /\ Accepts \in [Filters \ {"priced"} -> SUBSET Items]

(* Editing the widget changes the search at once, and not after a delay.   *)
Immediate == {"colors", "checked", "priced"}

(* The widget announces a change the program makes like one of the user.   *)
Announcing == {"rarity"}

(* ToForm fills the boxes that are filled in the data and leaves the rest. *)
Kept == {"colors"}

Blank == [f \in Filters |-> FALSE]

Reasons == {"TabCreated", "TabChanged", "SearchFormChanged", "ItemsChanged"}

Searches ==
    [id: Nat, data: [Filters -> BOOLEAN], typed: SUBSET Filters,
     reason: Reasons, mode: {"ByTab", "ByItem"}, descending: BOOLEAN,
     items: SUBSET Items, tabs: SUBSET Tabs, sorted: BOOLEAN]

(* The search with no filter and nothing found.  "typed" is a history: the *)
(* filters the user has ever edited in this search.                        *)
NewSearchNumber(n) ==
    [id |-> n, data |-> Blank, typed |-> {}, reason |-> "TabCreated",
     mode |-> "ByTab", descending |-> TRUE, items |-> {}, tabs |-> {},
     sorted |-> FALSE]

\* Mutant: a combo box is set only if the data has a value for it.
HalfToForm(form, data) ==
    [f \in Filters |-> data[f] \/ (f \in Kept \cup Announcing /\ form[f])]

(* What the widgets show once the data of a search is put in a form.       *)
ToForm(form, data) ==
    [f \in Filters |-> data[f] \/ (f \in Kept /\ form[f])]

(* Whether a filter with or without a value lets an item through.  One of  *)
(* them asks the buyout manager, by which some items are priced now; the   *)
(* others read nothing but the item.                                       *)
Matches(f, filled, i, priced) ==
    filled => IF f = "priced" THEN i \in priced ELSE i \in Accepts[f]

\* Mutant: a search that has found its items is not filtered again.
LazyFilterItems(s, active, items, known, priced) ==
    LET found == {i \in items : \A f \in Filters :
                                    active[f] => Matches(f, s.data[f], i, priced)}
    IN  IF s.reason = "TabChanged" \/ (s.reason = "ItemsChanged" /\ s.items # {})
        THEN s
        ELSE [s EXCEPT !.items = found,
                       !.tabs = {TabOf[i] : i \in found}
                                    \cup (IF found = items THEN known ELSE {}),
                       !.sorted = FALSE]

\* Mutant: the model is not told that its order is no longer sorted.
SortedFilterItems(s, active, items, known, priced) ==
    LET found == {i \in items : \A f \in Filters :
                                    active[f] => Matches(f, s.data[f], i, priced)}
    IN  IF s.reason = "TabChanged"
        THEN s
        ELSE [s EXCEPT !.items = found,
                       !.tabs = {TabOf[i] : i \in found}
                                    \cup (IF found = items THEN known ELSE {})]

(* The filters are asked whether they are active, and they belong to the   *)
(* form: "active" is what the last FromForm or ResetForm has left there.   *)
(* Unless something was filtered out, the empty tabs are listed too.       *)
FilterItems(s, active, items, known, priced) ==
    LET found == {i \in items : \A f \in Filters :
                                    active[f] => Matches(f, s.data[f], i, priced)}
    IN  IF s.reason = "TabChanged"
        THEN s
        ELSE [s EXCEPT !.items = found,
                       !.tabs = {TabOf[i] : i \in found}
                                    \cup (IF found = items THEN known ELSE {}),
                       !.sorted = FALSE]

(* The number the tab of a search shows behind its caption.                *)
GetCaption(s) == <<s.id, Cardinality(s.items)>>

-----------------------------------------------------------------------------
(* The rows of the view: <<b, 0>> is the b-th bucket and <<b, r>> the r-th *)
(* item in it.  Bucket::Sort compares backwards, so that the descending    *)
(* order counts up.                                                        *)

(* The numbers of a set, counting up or down.                              *)
InOrder(S, up) ==
    CHOOSE f \in [1 .. Cardinality(S) -> S] :
        \A j, k \in 1 .. Cardinality(S) :
            j < k => IF up THEN f[j] < f[k] ELSE f[j] > f[k]

Buckets(s) ==
    IF s.mode = "ByTab" THEN InOrder(s.tabs, TRUE) ELSE <<0>>

BucketItems(s, t) ==
    InOrder({i \in s.items : s.mode = "ByTab" => TabOf[i] = t}, s.descending)

Rows(s) ==
    UNION {{<<b, r>> : r \in 0 .. Len(BucketItems(s, Buckets(s)[b]))} :
               b \in 1 .. Len(Buckets(s))}

(* What a row stands for: an item, or a tab.                               *)
ItemThing(i) == <<"item", i>>
TabThing(t) == <<"tab", t>>

Thing(s, row) ==
    LET t == Buckets(s)[row[1]]
    IN  IF row[2] = 0 THEN TabThing(t) ELSE ItemThing(BucketItems(s, t)[row[2]])

(* The rows of an item, at most one.  It is looked for in the buckets with *)
(* its own location: the bucket of the view by item has the null location, *)
(* and nothing is ever found there.                                        *)
index(s, i) ==
    {row \in Rows(s) : i # 0 /\ s.mode = "ByTab" /\ Thing(s, row) = ItemThing(i)}

(* Another order: only the buckets of the current mode are sorted, and the *)
(* other ones when the mode is changed.                                    *)
Reordered(s) == [s EXCEPT !.descending = ~s.descending, !.sorted = TRUE]

(* Another mode: the order is marked as not sorted and sorted with the     *)
(* signals of the model blocked.                                           *)
SetViewMode(s, mode) == [s EXCEPT !.mode = mode, !.sorted = TRUE]
=============================================================================
