------------------------------- MODULE Buyouts -------------------------------
(***************************************************************************)
(* Prices: BuyoutManager (src/buyoutmanager.cpp) with what ItemsManager    *)
(* does to it when items are refreshed (src/itemsmanager.cpp) and what the *)
(* user does to it (src/ui/mainwindow.cpp).  A price is the user's, or it  *)
(* comes from the game: from the name of a tab or the note of an item; an  *)
(* item without a price of its own inherits that of its tab.  A tab is     *)
(* known by its label and an item by its hash, which is made of what the   *)
(* item is and of the label of its tab, so twins in a tab share one entry. *)
(* Prices are saved under three keys of the data store; the program may    *)
(* die between any two writes.                                             *)
(***************************************************************************)
EXTENDS Integers, FiniteSets

CONSTANTS
    Names,           \* what an item is
    Labels,          \* labels of tabs
    Notes,           \* what notes may say
    TextOf,          \* what each label says
    RemoveOnly,      \* labels of remove-only tabs
    Prices,          \* prices; those that are texts are prices of the game
    MaxItems,        \* bound: items at a time
    MaxTabs,         \* bound: labels at a time
    MaxEdits         \* bound: what the user changes

NoPrice == "no price"
NoNote  == "no note"
NotAPrice  == "text"         \* a text that is no price at all
NoKeyword  == "keyword?"     \* a text like ~foo 5 chaos
NoCurrency == "currency?"    \* a text like ~price 5 foo

Texts == Prices \cup {NotAPrice, NoKeyword, NoCurrency}

ASSUME TextsAssumption ==
    /\ Notes \subseteq Texts /\ TextOf \in [Labels -> Texts]
    /\ RemoveOnly \subseteq Labels
    /\ {NotAPrice, NoKeyword, NoCurrency} \cap Prices = {}
    /\ NoNote \notin Texts /\ NoPrice \notin Texts
    /\ MaxItems \in Nat /\ MaxTabs \in Nat /\ MaxEdits \in Nat

VARIABLES
    items,           \* m_items of ItemsManager
    tabs,            \* m_tabs
    buyouts,         \* m_buyouts, by hash()
    oldBuyouts,      \* m_buyouts, by old_hash()
    tabBuyouts,      \* m_tab_buyouts
    unchecked,       \* where m_refresh_checked is false
    locked,          \* m_refresh_locked
    saveNeeded,      \* m_save_needed
    disk,            \* "buyouts", "tab_buyouts" and "refresh_checked_state"
    migrated,        \* "db_version" is 4
    edits            \* changes the user has made

priceVars == <<buyouts, oldBuyouts, tabBuyouts>>
vars == <<items, tabs, priceVars, unchecked, locked, saveNeeded, disk, migrated, edits>>

Item == [name : Names, label : Labels, note : Notes \cup {NoNote}]
Hash == [name : Names, label : Labels]
HashOf(i) == [name |-> i.name, label |-> i.label]

-----------------------------------------------------------------------------
(* Buyouts. *)

Buyout == [type : {"ignore", "priced", "no price", "inherit"}, source : {"manual", "game"},
           price : Prices \cup {NoPrice}, inherited : BOOLEAN]

Manual(type, price) ==
    [type |-> type, source |-> "manual", price |-> price, inherited |-> FALSE]

\* What the entry fields of the main window may hold, a valid buyout.
UserBuyouts ==
    {Manual(type, NoPrice) : type \in {"ignore", "no price", "inherit"}}
        \cup {Manual("priced", price) : price \in Prices}

\* Buyout(), which is also what Get and GetTab return for no entry.
NoBuyout == Manual("inherit", NoPrice)

IsActive(b) == b.type # "inherit" /\ (b.type = "priced" => b.price # NoPrice)
IsInherited(b) == b.inherited \/ b.type = "inherit"
IsGameSet(b) == b.source = "game"
RequiresRefresh(b) == b.type \notin {"ignore", "inherit"}

FromGame(type, price) ==
    [type |-> type, source |-> "game", price |-> price, inherited |-> FALSE]

StringToBuyout(text) ==
    CASE text \in Prices    -> FromGame("priced", text)
      [] text = NoCurrency  -> FromGame("priced", NoPrice)
      [] text = NoKeyword   -> FromGame("inherit", NoPrice)
      [] OTHER              -> NoBuyout

\* Serialize leaves out what IsSavable excludes, and Deserialize reads the rest back.
Serialize(m) == [k \in DOMAIN m |-> IF IsActive(m[k]) THEN m[k] ELSE NoBuyout]

\* Mutant: what was moved is erased by a write of its own, the first.
ErasingWritten(n, d, b, old, t, u) ==
    [buyouts    |-> IF n >= 2 THEN Serialize(b) ELSE d.buyouts,
     oldBuyouts |-> IF n >= 1 THEN Serialize(old) ELSE d.oldBuyouts,
     tabBuyouts |-> IF n >= 2 THEN Serialize(t) ELSE d.tabBuyouts,
     unchecked  |-> IF n >= 3 THEN u ELSE d.unchecked]

\* The three writes of Save, of which only the first n are made, over what d holds.
Written(n, d, b, old, t, u) ==
    [buyouts    |-> IF n >= 1 THEN Serialize(b) ELSE d.buyouts,
     oldBuyouts |-> IF n >= 1 THEN Serialize(old) ELSE d.oldBuyouts,
     tabBuyouts |-> IF n >= 2 THEN Serialize(t) ELSE d.tabBuyouts,
     unchecked  |-> IF n >= 3 THEN u ELSE d.unchecked]

SaveWrites(n) == Written(n, disk, buyouts, oldBuyouts, tabBuyouts, unchecked)

\* A new BuyoutManager over what d holds; no items yet.
Load(d) ==
    /\ disk' = d
    /\ buyouts' = d.buyouts /\ oldBuyouts' = d.oldBuyouts /\ tabBuyouts' = d.tabBuyouts
    /\ unchecked' = d.unchecked
    /\ items' = {} /\ tabs' = {} /\ locked' = {} /\ saveNeeded' = FALSE

\* The data of a new user, or of an old version that knew items by their old hash.
Init ==
    /\ oldBuyouts \in [Hash -> {NoBuyout} \cup {Manual("priced", p) : p \in Prices}]
    /\ buyouts = [k \in Hash |-> NoBuyout] /\ tabBuyouts = [l \in Labels |-> NoBuyout]
    /\ unchecked = {} /\ items = {} /\ tabs = {} /\ locked = {} /\ saveNeeded = FALSE
    /\ disk = [buyouts |-> buyouts, oldBuyouts |-> oldBuyouts, tabBuyouts |-> tabBuyouts,
               unchecked |-> unchecked]
    /\ migrated = FALSE /\ edits = 0

-----------------------------------------------------------------------------
(* The passes over tabs and items when the items are refreshed. *)

\* MigrateBuyouts: the entry under the old hash is moved, but not over a manual one.
ToMigrate(its) ==
    {k \in {HashOf(i) : i \in its} :
        /\ ~migrated /\ oldBuyouts[k] # NoBuyout
        /\ buyouts[k] = NoBuyout \/ IsGameSet(buyouts[k])}

Migrated(its) ==
    [k \in Hash |-> IF k \in ToMigrate(its) THEN oldBuyouts[k] ELSE buyouts[k]]

Unmigrated(its) ==
    [k \in Hash |-> IF k \in ToMigrate(its) THEN NoBuyout ELSE oldBuyouts[k]]

\* ApplyAutoTabBuyouts, with CompressTabBuyouts: tabs that are not there lose their price.
ApplyAutoTabBuyouts(shown) ==
    [l \in Labels |->
        IF l \notin shown THEN NoBuyout
        ELSE IF IsActive(StringToBuyout(TextOf[l])) THEN StringToBuyout(TextOf[l])
        ELSE tabBuyouts[l]]

NotesOf(its, k) == {i.note : i \in {j \in its : HashOf(j) = k}} \ {NoNote}

\* For each hash, the note that has the last word; the items come in any order.
LastNotes(its) ==
    {last \in [{HashOf(i) : i \in its} -> Notes \cup {NoNote}] :
        \A k \in DOMAIN last :
            last[k] \in IF NotesOf(its, k) = {} THEN {NoNote} ELSE NotesOf(its, k)}

\* ApplyAutoItemBuyouts: a note that is no price only clears a price of the game, and
\* after one that looks like nothing there is no such price any more.
ApplyAutoItemBuyouts(its, last) ==
    LET b == Migrated(its)
        read(k) == {StringToBuyout(note) : note \in NotesOf(its, k)}
    IN  [k \in Hash |->
            IF k \notin DOMAIN last \/ NotesOf(its, k) = {} THEN b[k]
            ELSE IF \E buyout \in read(k) : IsActive(buyout) THEN StringToBuyout(last[k])
            ELSE IF ~IsGameSet(b[k]) THEN b[k]
            ELSE IF NoBuyout \in read(k) THEN NoBuyout
            ELSE StringToBuyout(last[k])]

\* What an item inherits in a tab of price t.
InheritedFrom(t) == IF IsActive(t) THEN [t EXCEPT !.inherited = TRUE] ELSE NoBuyout

\* Mutant: a tab without a price leaves its items as they are.
StickyPropagated(b, t, its) ==
    [k \in Hash |->
        IF k \in {HashOf(i) : i \in its} /\ IsInherited(b[k]) /\ IsActive(t[k.label])
        THEN InheritedFrom(t[k.label]) ELSE b[k]]

\* PropagateTabBuyouts, the prices and then the locks.
Propagated(b, t, its) ==
    [k \in Hash |->
        IF k \in {HashOf(i) : i \in its} /\ IsInherited(b[k])
        THEN InheritedFrom(t[k.label]) ELSE b[k]]

\* Mutant: only the price of the tab counts.
TabLocks(b, t, its) ==
    {l \in Labels \ RemoveOnly : \E i \in its : i.label = l /\ RequiresRefresh(t[l])}

Locks(b, t, its) ==
    {l \in Labels \ RemoveOnly :
        \E i \in its : i.label = l /\ (RequiresRefresh(b[HashOf(i)]) \/ RequiresRefresh(t[l]))}

\* The items and tabs that a refresh may bring, each item with its tab.
Shown(its) == {shown \in SUBSET Labels :
                /\ {i.label : i \in its} \subseteq shown
                /\ Cardinality(shown) <= MaxTabs}

Refreshes == {its \in SUBSET Item :
                Cardinality(its) <= MaxItems /\ Shown(its) # {}}

RefreshedBuyouts(its, shown, last) ==
    Propagated(ApplyAutoItemBuyouts(its, last), ApplyAutoTabBuyouts(shown), its)

\* MigrateBuyouts saves at once; the rest is saved when the main window is refreshed.
MigrationWrites(its, n) ==
    IF saveNeeded \/ ToMigrate(its) # {}
    THEN Written(n, disk, Migrated(its), Unmigrated(its), tabBuyouts, unchecked)
    ELSE disk

RefreshWrites(its, b, t, n) ==
    Written(n, IF migrated THEN disk ELSE MigrationWrites(its, 3),
            b, Unmigrated(its), t, unchecked)

-----------------------------------------------------------------------------
(* Handlers. *)

\* ItemsManager::OnItemsRefreshed, and MainWindow::OnItemsRefreshed, which saves.
OnItemsRefreshed ==
    \E its \in Refreshes :
        \E shown \in Shown(its), last \in LastNotes(its) :
            /\ items' = its /\ tabs' = shown
            /\ buyouts' = RefreshedBuyouts(its, shown, last)
            /\ oldBuyouts' = Unmigrated(its)
            /\ tabBuyouts' = ApplyAutoTabBuyouts(shown)
            /\ locked' = Locks(buyouts', tabBuyouts', its)
            /\ disk' = IF saveNeeded \/ priceVars' # priceVars
                       THEN RefreshWrites(its, buyouts', tabBuyouts', 3) ELSE disk
            /\ saveNeeded' = FALSE /\ migrated' = TRUE
            /\ UNCHANGED <<unchecked, edits>>

\* Mutant: the user edits anything.
AlwaysEditable(b) == TRUE

\* The user does not edit what the game has priced.
Editable(b) == ~IsGameSet(b)

\* MainWindow::OnBuyoutChange for the rows selected, of tabs and of items: what the
\* game has priced is left alone.
OnBuyoutChange ==
    /\ edits < MaxEdits /\ edits' = edits + 1
    /\ \E rows \in SUBSET tabs,
          hashes \in SUBSET {HashOf(i) : i \in items}, bo \in UserBuyouts :
        LET t == [l \in Labels |-> IF l \in rows /\ Editable(tabBuyouts[l])
                                   THEN bo ELSE tabBuyouts[l]]
            b == [k \in Hash |-> IF /\ k \in hashes
                                    /\ Editable(tabBuyouts[k.label]) /\ Editable(buyouts[k])
                                 THEN bo ELSE buyouts[k]]
        IN  /\ buyouts' = Propagated(b, t, items)
            /\ tabBuyouts' = t
            /\ locked' = Locks(buyouts', t, items)
            /\ UNCHANGED <<items, tabs, oldBuyouts, unchecked, disk, migrated>>
            /\ saveNeeded' = (saveNeeded \/ priceVars' # priceVars)

\* Mutant: a box that is changed is not saved.
UnsavedSetRefreshChecked ==
    /\ edits < MaxEdits /\ edits' = edits + 1
    /\ \E rows \in SUBSET tabs, value \in BOOLEAN :
        /\ rows # {}
        /\ unchecked' = IF value THEN unchecked \ rows ELSE unchecked \cup rows
        /\ UNCHANGED <<items, tabs, priceVars, locked, saveNeeded, disk, migrated>>

\* The boxes of the tabs, one, the selected ones or all of them.
SetRefreshChecked ==
    /\ edits < MaxEdits /\ edits' = edits + 1
    /\ \E rows \in SUBSET tabs, value \in BOOLEAN :
        /\ rows # {}
        /\ unchecked' = IF value THEN unchecked \ rows ELSE unchecked \cup rows
        /\ saveNeeded' = TRUE
        /\ UNCHANGED <<items, tabs, priceVars, locked, disk, migrated>>

GetRefreshChecked(l) == l \notin unchecked \/ l \in locked

\* Another row or another search is selected.
Save ==
    /\ saveNeeded /\ saveNeeded' = FALSE
    /\ disk' = SaveWrites(3)
    /\ UNCHANGED <<items, tabs, priceVars, unchecked, locked, migrated, edits>>

\* The program is closed, which saves, and started again.
Reopen ==
    /\ Load(IF saveNeeded THEN SaveWrites(3) ELSE disk)
    /\ UNCHANGED <<migrated, edits>>

\* The program dies between two handlers, or between two writes of Save.
Crash ==
    /\ \E n \in 0..2 : Load(IF saveNeeded THEN SaveWrites(n) ELSE disk)
    /\ UNCHANGED <<migrated, edits>>

\* The program dies while items are refreshed: before or after db_version is set.
CrashInMigration(its) ==
    /\ ~migrated
    /\ \E n \in 1..3 : Load(MigrationWrites(its, n))
    /\ UNCHANGED <<migrated, edits>>

CrashInRefresh(its) ==
    /\ \E shown \in Shown(its), last \in LastNotes(its) :
          \E b \in {RefreshedBuyouts(its, shown, last)}, n \in 0..2 :
              Load(RefreshWrites(its, b, ApplyAutoTabBuyouts(shown), n))
    /\ migrated' = TRUE /\ UNCHANGED edits

Next ==
    \/ OnItemsRefreshed
    \/ OnBuyoutChange
    \/ SetRefreshChecked
    \/ Save
    \/ Reopen
    \/ Crash
    \/ \E its \in Refreshes : CrashInMigration(its)
    \/ \E its \in Refreshes : CrashInRefresh(its)

Spec == Init /\ [][Next]_vars

-----------------------------------------------------------------------------
(* Properties. *)

Stored == [buyouts : [Hash -> Buyout], oldBuyouts : [Hash -> Buyout],
            tabBuyouts : [Labels -> Buyout], unchecked : SUBSET Labels]

\* The variables have their types.
TypeOK ==
    /\ items \subseteq Item /\ tabs \subseteq Labels
    /\ buyouts \in [Hash -> Buyout] /\ oldBuyouts \in [Hash -> Buyout]
    /\ tabBuyouts \in [Labels -> Buyout]
    /\ unchecked \subseteq Labels /\ locked \subseteq Labels
    /\ saveNeeded \in BOOLEAN /\ migrated \in BOOLEAN /\ edits \in Nat
    /\ disk \in Stored

(***************************************************************************)
(* What is not to be saved is on the disk: m_save_needed misses no change, *)
(* so closing the program loses none.                                      *)
(***************************************************************************)
DiskIsCurrent == ~saveNeeded => disk = SaveWrites(3)

\* The types, and that what needs no saving has been saved.
BuyoutsInv == TypeOK /\ DiskIsCurrent

(***************************************************************************)
(* An item has a price of its own or that of its tab, never one that its   *)
(* tab has lost or another tab had.                                        *)
(***************************************************************************)
InheritedFollowsTab ==
    \A i \in items :
        IsInherited(buyouts[HashOf(i)]) =>
            buyouts[HashOf(i)] = InheritedFrom(tabBuyouts[i.label])

(***************************************************************************)
(* A tab with a priced item, or a price, is refreshed whatever the user    *)
(* unchecked: what is for sale is not left out of date.                    *)
(***************************************************************************)
PricedIsRefreshed ==
    \A i \in items :
        /\ i.label \notin RemoveOnly
        /\ RequiresRefresh(buyouts[HashOf(i)]) \/ RequiresRefresh(tabBuyouts[i.label])
        => GetRefreshChecked(i.label)

(***************************************************************************)
(* "First format we need to honor is ascendency pricing formats which is   *)
(* top priority": a price in a note or in the name of a tab is the price,  *)
(* whatever the user enters.                                               *)
(***************************************************************************)
GamePriceWins ==
    /\ \A l \in tabs : TextOf[l] \in Prices => tabBuyouts[l] = FromGame("priced", TextOf[l])
    /\ \A i \in items : NotesOf(items, HashOf(i)) = {i.note} /\ i.note \in Prices
                            => buyouts[HashOf(i)] = FromGame("priced", i.note)

\* The price a user gave an item, under the new hash or not yet migrated.
IsOwn(b) == IsActive(b) /\ ~b.inherited /\ b.source = "manual"
OwnBuyout(k) == IF IsOwn(buyouts[k]) \/ migrated THEN buyouts[k] ELSE oldBuyouts[k]
Died == Crash \/ \E its \in Refreshes : CrashInMigration(its) \/ CrashInRefresh(its)
WasSaved(k) == buyouts[k] = disk.buyouts[k] /\ oldBuyouts[k] = disk.oldBuyouts[k]

(***************************************************************************)
(* Nothing but the user and a price in a note takes away a price the user  *)
(* gave an item: no refresh, no price of the tab, no migration, wherever   *)
(* the program dies.  (A price that was not saved yet may die with it; one *)
(* under the old hash is migrated if its item is there the first time.)    *)
(***************************************************************************)
OwnPriceSurvives ==
    [][\A k \in Hash :
          /\ IsOwn(OwnBuyout(k))
          /\ migrated' = migrated \/ IsOwn(buyouts[k]) \/ k \in {HashOf(i) : i \in items'}
          => \/ OwnBuyout(k)' = OwnBuyout(k)
             \/ NotesOf(items', k) \cap Prices # {}
             \/ edits' # edits
             \/ ~WasSaved(k) /\ Died
             \/ \E its \in Refreshes : NotesOf(its, k) \cap Prices # {} /\ CrashInRefresh(its)]_vars

=============================================================================
