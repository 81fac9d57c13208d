---------------------------- MODULE BuyoutsProofs ----------------------------
(***************************************************************************)
(* For any items, labels, notes and prices, any number of refreshes, edits *)
(* and deaths of the program: what a price says and which price survives.  *)
(***************************************************************************)
EXTENDS Buyouts, TLAPS

\* What is on the disk has been through Serialize, so that reading it and writing it
\* again changes nothing.
Serialized(d) ==
    /\ Serialize(d.buyouts) = d.buyouts
    /\ Serialize(d.oldBuyouts) = d.oldBuyouts
    /\ Serialize(d.tabBuyouts) = d.tabBuyouts

DiskIsSerialized == Serialized(disk)

\* Prices that the user gave, or none.
UserOwn(b) == \A k \in Hash : b[k] = NoBuyout \/ IsOwn(b[k])

\* Until the migration there are no items to edit: what there is was priced by the user.
Unopened ==
    ~migrated =>
        /\ items = {} /\ tabs = {} /\ ~saveNeeded
        /\ UserOwn(buyouts) /\ UserOwn(oldBuyouts)

\* The locks of the tabs were set for the prices there are.
LocksAreCurrent ==
    \A i \in items :
        /\ i.label \notin RemoveOnly
        /\ RequiresRefresh(buyouts[HashOf(i)]) \/ RequiresRefresh(tabBuyouts[i.label])
        => i.label \in locked

ItemsInv == InheritedFollowsTab /\ LocksAreCurrent /\ GamePriceWins

PricesIInv == TypeOK /\ DiskIsCurrent /\ DiskIsSerialized /\ Unopened /\ ItemsInv

-----------------------------------------------------------------------------
LEMMA ManualTypes ==
    ASSUME NEW type \in {"ignore", "priced", "no price", "inherit"},
           NEW price \in Prices \cup {NoPrice}
    PROVE  Manual(type, price) \in Buyout
BY DEF Manual, Buyout

LEMMA BuyoutTypes ==
    /\ NoBuyout \in Buyout /\ ~IsActive(NoBuyout) /\ ~IsOwn(NoBuyout)
    /\ ~IsGameSet(NoBuyout)
<1>1. NoBuyout \in Buyout
  BY ManualTypes DEF NoBuyout
<1>2. NoBuyout.type = "inherit" /\ NoBuyout.source = "manual"
  BY DEF NoBuyout, Manual
<1> QED
  BY <1>1, <1>2 DEF IsActive, IsOwn, IsGameSet

LEMMA UserBuyoutTypes == UserBuyouts \subseteq Buyout
BY ManualTypes DEF UserBuyouts

LEMMA FromGameTypes ==
    ASSUME NEW price \in Prices
    PROVE  /\ FromGame("priced", price) \in Buyout
           /\ IsActive(FromGame("priced", price)) /\ IsGameSet(FromGame("priced", price))
           /\ ~IsInherited(FromGame("priced", price))
BY TextsAssumption DEF FromGame, Buyout, IsActive, IsGameSet, IsInherited, Texts

\* Only a price of the game is a price.
LEMMA StringIsPrice ==
    ASSUME NEW text
    PROVE  /\ StringToBuyout(text) \in Buyout
           /\ text \in Prices => StringToBuyout(text) = FromGame("priced", text)
           /\ text \notin Prices => ~IsActive(StringToBuyout(text))
<1>1. FromGame("priced", NoPrice) \in Buyout /\ FromGame("inherit", NoPrice) \in Buyout
  BY DEF FromGame, Buyout
<1>2. ~IsActive(FromGame("priced", NoPrice)) /\ ~IsActive(FromGame("inherit", NoPrice))
  BY DEF FromGame, IsActive
<1>3. CASE text \in Prices
  <2>1. text # NoCurrency /\ text # NoKeyword
    BY <1>3, TextsAssumption
  <2>2. StringToBuyout(text) = FromGame("priced", text)
    BY <1>3, <2>1 DEF StringToBuyout
  <2> QED
    BY <1>3, <2>2, FromGameTypes
<1>4. CASE text = NoCurrency
  <2>1. text \notin Prices /\ NoCurrency # NoKeyword
    BY <1>4, TextsAssumption DEF NoCurrency, NoKeyword
  <2>2. StringToBuyout(text) = FromGame("priced", NoPrice)
    BY <1>4, <2>1 DEF StringToBuyout
  <2> QED
    BY <1>1, <1>2, <2>1, <2>2
<1>5. CASE text = NoKeyword
  <2>1. text \notin Prices /\ NoCurrency # NoKeyword
    BY <1>5, TextsAssumption DEF NoCurrency, NoKeyword
  <2>2. StringToBuyout(text) = FromGame("inherit", NoPrice)
    BY <1>5, <2>1 DEF StringToBuyout
  <2> QED
    BY <1>1, <1>2, <2>1, <2>2
<1>6. CASE text \notin Prices /\ text # NoCurrency /\ text # NoKeyword
  <2>1. StringToBuyout(text) = NoBuyout
    BY <1>6 DEF StringToBuyout
  <2> QED
    BY <1>6, <2>1, BuyoutTypes
<1> QED
  BY <1>3, <1>4, <1>5, <1>6

LEMMA InheritedTypes ==
    ASSUME NEW t \in Buyout
    PROVE  InheritedFrom(t) \in Buyout /\ IsInherited(InheritedFrom(t))
BY DEF InheritedFrom, Buyout, NoBuyout, Manual, IsInherited

LEMMA OwnFacts ==
    ASSUME NEW b \in Buyout, IsOwn(b)
    PROVE  IsActive(b) /\ ~IsInherited(b) /\ ~IsGameSet(b) /\ b # NoBuyout
BY BuyoutTypes DEF IsOwn, IsInherited, IsGameSet, IsActive

\* An active price is what Serialize keeps.
LEMMA SerializeFacts ==
    ASSUME NEW S, NEW m \in [S -> Buyout]
    PROVE  /\ Serialize(m) \in [S -> Buyout]
           /\ \A k \in S : Serialize(m)[k] = IF IsActive(m[k]) THEN m[k] ELSE NoBuyout
           /\ Serialize(Serialize(m)) = Serialize(m)
BY BuyoutTypes DEF Serialize

LEMMA HashOfItem ==
    ASSUME NEW i \in Item
    PROVE  HashOf(i) \in Hash /\ HashOf(i).label = i.label /\ i.label \in Labels
BY DEF Item, Hash, HashOf

-----------------------------------------------------------------------------
(* What the writes leave on the disk. *)

LEMMA WrittenFacts ==
    ASSUME NEW n \in 0..3, NEW d \in Stored, Serialized(d),
           NEW b \in [Hash -> Buyout], NEW old \in [Hash -> Buyout],
           NEW t \in [Labels -> Buyout], NEW u \in SUBSET Labels
    PROVE  /\ Written(n, d, b, old, t, u) \in Stored
           /\ Serialized(Written(n, d, b, old, t, u))
<1>1. /\ Serialize(b) \in [Hash -> Buyout] /\ Serialize(Serialize(b)) = Serialize(b)
      /\ Serialize(old) \in [Hash -> Buyout] /\ Serialize(Serialize(old)) = Serialize(old)
      /\ Serialize(t) \in [Labels -> Buyout] /\ Serialize(Serialize(t)) = Serialize(t)
  BY SerializeFacts
<1>2. Written(n, d, b, old, t, u) \in Stored
  BY <1>1 DEF Written, Stored
<1>3. Serialized(Written(n, d, b, old, t, u))
  BY <1>1 DEF Written, Stored, Serialized
<1> QED
  BY <1>2, <1>3

LEMMA AllWritten ==
    ASSUME NEW d, NEW b, NEW old, NEW t, NEW u
    PROVE  Written(3, d, b, old, t, u) =
             [buyouts |-> Serialize(b), oldBuyouts |-> Serialize(old),
              tabBuyouts |-> Serialize(t), unchecked |-> u]
BY DEF Written

\* Serializing leaves the user's prices as they are.
LEMMA SerializedOwn ==
    ASSUME NEW b \in [Hash -> Buyout], UserOwn(b)
    PROVE  UserOwn(Serialize(b)) /\ Serialize(b) = b
<1>1. Serialize(b) \in [Hash -> Buyout]
      /\ \A k \in Hash : Serialize(b)[k] = IF IsActive(b[k]) THEN b[k] ELSE NoBuyout
  BY SerializeFacts
<1>2. \A k \in Hash : Serialize(b)[k] = b[k]
  BY <1>1, BuyoutTypes DEF UserOwn, IsOwn
<1>3. Serialize(b) = b
  BY <1>1, <1>2
<1> QED
  BY <1>3

\* A program that starts over what a disk holds.
LEMMA LoadKeeps ==
    ASSUME NEW d \in Stored, Serialized(d), Load(d),
           migrated' \in BOOLEAN, edits' \in Nat,
           ~migrated' => UserOwn(d.buyouts) /\ UserOwn(d.oldBuyouts)
    PROVE  PricesIInv'
<1>1. /\ disk' = d /\ buyouts' = d.buyouts /\ oldBuyouts' = d.oldBuyouts
      /\ tabBuyouts' = d.tabBuyouts /\ unchecked' = d.unchecked
      /\ items' = {} /\ tabs' = {} /\ locked' = {} /\ saveNeeded' = FALSE
  BY DEF Load
<1>2. TypeOK'
  BY <1>1 DEF TypeOK, Stored
<1>3. DiskIsCurrent'
  <2>1. SaveWrites(3)' = [buyouts |-> Serialize(d.buyouts), oldBuyouts |-> Serialize(d.oldBuyouts),
                          tabBuyouts |-> Serialize(d.tabBuyouts), unchecked |-> d.unchecked]
    BY <1>1 DEF SaveWrites, Written
  <2>2. SaveWrites(3)' = d
    BY <2>1 DEF Serialized, Stored
  <2> QED
    BY <1>1, <2>2 DEF DiskIsCurrent
<1>4. DiskIsSerialized'
  BY <1>1 DEF DiskIsSerialized, Serialized, Serialize, IsActive
<1>5. Unopened'
  BY <1>1 DEF Unopened, UserOwn
<1>6. ItemsInv'
  BY <1>1 DEF ItemsInv, InheritedFollowsTab, LocksAreCurrent, GamePriceWins
<1> QED
  BY <1>2, <1>3, <1>4, <1>5, <1>6 DEF PricesIInv

-----------------------------------------------------------------------------
(* The passes of a refresh. *)

LEMMA MigratedFacts ==
    ASSUME TypeOK, NEW its
    PROVE  /\ Migrated(its) \in [Hash -> Buyout] /\ Unmigrated(its) \in [Hash -> Buyout]
           /\ UserOwn(buyouts) /\ UserOwn(oldBuyouts)
                => UserOwn(Migrated(its)) /\ UserOwn(Unmigrated(its))
           /\ \A k \in Hash : k \notin ToMigrate(its) =>
                Migrated(its)[k] = buyouts[k] /\ Unmigrated(its)[k] = oldBuyouts[k]
           /\ \A k \in Hash : k \in ToMigrate(its) =>
                Migrated(its)[k] = oldBuyouts[k] /\ Unmigrated(its)[k] = NoBuyout
<1>1. Migrated(its) \in [Hash -> Buyout] /\ Unmigrated(its) \in [Hash -> Buyout]
  BY BuyoutTypes DEF TypeOK, Migrated, Unmigrated
<1>2. \A k \in Hash : k \notin ToMigrate(its) =>
                Migrated(its)[k] = buyouts[k] /\ Unmigrated(its)[k] = oldBuyouts[k]
  BY DEF Migrated, Unmigrated
<1>3. \A k \in Hash : k \in ToMigrate(its) =>
                Migrated(its)[k] = oldBuyouts[k] /\ Unmigrated(its)[k] = NoBuyout
  BY DEF Migrated, Unmigrated
<1>4. UserOwn(buyouts) /\ UserOwn(oldBuyouts)
                => UserOwn(Migrated(its)) /\ UserOwn(Unmigrated(its))
  BY <1>2, <1>3 DEF UserOwn
<1> QED
  BY <1>1, <1>2, <1>3, <1>4

\* The user's price of an item is not replaced by the migration.
LEMMA OwnIsNotMigrated ==
    ASSUME TypeOK, NEW its, NEW k \in Hash, IsOwn(buyouts[k])
    PROVE  k \notin ToMigrate(its)
<1>1. buyouts[k] \in Buyout
  BY DEF TypeOK
<1>2. buyouts[k] # NoBuyout /\ ~IsGameSet(buyouts[k])
  BY <1>1, OwnFacts
<1> QED
  BY <1>2 DEF ToMigrate

LEMMA TabBuyoutTypes ==
    ASSUME TypeOK, NEW shown
    PROVE  /\ ApplyAutoTabBuyouts(shown) \in [Labels -> Buyout]
           /\ \A l \in Labels : l \in shown /\ TextOf[l] \in Prices
                => ApplyAutoTabBuyouts(shown)[l] = FromGame("priced", TextOf[l])
<1>1. ApplyAutoTabBuyouts(shown) \in [Labels -> Buyout]
  BY StringIsPrice, BuyoutTypes DEF TypeOK, ApplyAutoTabBuyouts
<1>2. ASSUME NEW l \in Labels, l \in shown, TextOf[l] \in Prices
      PROVE  ApplyAutoTabBuyouts(shown)[l] = FromGame("priced", TextOf[l])
  <2>1. StringToBuyout(TextOf[l]) = FromGame("priced", TextOf[l])
        /\ IsActive(FromGame("priced", TextOf[l]))
    BY <1>2, StringIsPrice, FromGameTypes
  <2> QED
    BY <1>2, <2>1 DEF ApplyAutoTabBuyouts
<1> QED
  BY <1>1, <1>2

\* What LastNotes says of one of the items.
LEMMA LastNoteFacts ==
    ASSUME NEW its \in SUBSET Item, NEW last \in LastNotes(its)
    PROVE  /\ DOMAIN last = {HashOf(i) : i \in its}
           /\ \A k \in DOMAIN last : last[k] # NoNote => last[k] \in NotesOf(its, k)
           /\ \A k \in DOMAIN last : NotesOf(its, k) # {} => last[k] \in NotesOf(its, k)
           /\ \A k : NoNote \notin NotesOf(its, k)
<1>1. DOMAIN last = {HashOf(i) : i \in its}
  BY DEF LastNotes
<1>2. \A k \in DOMAIN last :
        last[k] \in IF NotesOf(its, k) = {} THEN {NoNote} ELSE NotesOf(its, k)
  BY DEF LastNotes
<1>3. \A k : NoNote \notin NotesOf(its, k)
  BY DEF NotesOf
<1> QED
  BY <1>1, <1>2, <1>3

LEMMA ItemBuyoutTypes ==
    ASSUME TypeOK, NEW its, NEW last
    PROVE  ApplyAutoItemBuyouts(its, last) \in [Hash -> Buyout]
<1>1. Migrated(its) \in [Hash -> Buyout]
  BY MigratedFacts
<1>2. NoBuyout \in Buyout /\ \A text : StringToBuyout(text) \in Buyout
  BY StringIsPrice, BuyoutTypes
<1> QED
  BY <1>1, <1>2 DEF ApplyAutoItemBuyouts

\* A note with a price is the price.
LEMMA NoteIsPrice ==
    ASSUME TypeOK, NEW its \in SUBSET Item, NEW last \in LastNotes(its), NEW i \in its,
           NotesOf(its, HashOf(i)) = {i.note}, i.note \in Prices
    PROVE  ApplyAutoItemBuyouts(its, last)[HashOf(i)] = FromGame("priced", i.note)
<1>1. HashOf(i) \in DOMAIN last /\ HashOf(i) \in Hash
  BY LastNoteFacts, HashOfItem
<1>2. last[HashOf(i)] = i.note
  BY <1>1, LastNoteFacts
<1>3. i.note # NoNote
  BY TextsAssumption DEF Texts
<1>4. StringToBuyout(i.note) = FromGame("priced", i.note)
      /\ IsActive(FromGame("priced", i.note))
  BY StringIsPrice, FromGameTypes
<1> QED
  BY <1>1, <1>2, <1>3, <1>4 DEF ApplyAutoItemBuyouts

\* Without a price in a note, the user's price stays.
LEMMA NoNoteKeepsOwn ==
    ASSUME TypeOK, NEW its \in SUBSET Item, NEW last \in LastNotes(its), NEW k \in Hash,
           IsOwn(Migrated(its)[k]), NotesOf(its, k) \cap Prices = {}
    PROVE  ApplyAutoItemBuyouts(its, last)[k] = Migrated(its)[k]
<1>1. ~IsGameSet(Migrated(its)[k])
  <2>1. Migrated(its)[k] \in Buyout
    BY MigratedFacts
  <2> QED
    BY <2>1, OwnFacts
<1>2. \A note \in NotesOf(its, k) : ~IsActive(StringToBuyout(note))
  BY StringIsPrice
<1>3. k \in DOMAIN last /\ last[k] # NoNote => ~IsActive(StringToBuyout(last[k]))
  BY <1>2, LastNoteFacts
<1> QED
  BY <1>1, <1>2, <1>3 DEF ApplyAutoItemBuyouts

\* After the propagation an item has its own price or that of its tab.
LEMMA PropagatedFacts ==
    ASSUME NEW b \in [Hash -> Buyout], NEW t \in [Labels -> Buyout], NEW its \in SUBSET Item
    PROVE  /\ Propagated(b, t, its) \in [Hash -> Buyout]
           /\ \A k \in Hash : ~IsInherited(b[k]) => Propagated(b, t, its)[k] = b[k]
           /\ \A i \in its : IsInherited(Propagated(b, t, its)[HashOf(i)]) =>
                    Propagated(b, t, its)[HashOf(i)] = InheritedFrom(t[i.label])
<1>1. \A k \in Hash : k.label \in Labels
  BY DEF Hash
<1>2. Propagated(b, t, its) \in [Hash -> Buyout]
  BY <1>1, InheritedTypes DEF Propagated
<1>3. \A k \in Hash : ~IsInherited(b[k]) => Propagated(b, t, its)[k] = b[k]
  BY DEF Propagated
<1>4. ASSUME NEW i \in its, IsInherited(Propagated(b, t, its)[HashOf(i)])
      PROVE  Propagated(b, t, its)[HashOf(i)] = InheritedFrom(t[i.label])
  <2>1. HashOf(i) \in Hash /\ HashOf(i).label = i.label
    BY HashOfItem
  <2>2. IsInherited(b[HashOf(i)])
    BY <1>3, <1>4, <2>1
  <2> QED
    BY <2>1, <2>2 DEF Propagated
<1> QED
  BY <1>2, <1>3, <1>4

\* Items whose prices are propagated and whose locks are set.
LEMMA PropagatedItems ==
    ASSUME NEW b \in [Hash -> Buyout], NEW t \in [Labels -> Buyout], NEW its \in SUBSET Item,
           items' = its, tabBuyouts' = t, buyouts' = Propagated(b, t, its),
           locked' = Locks(buyouts', t, its)
    PROVE  InheritedFollowsTab' /\ LocksAreCurrent'
<1>1. InheritedFollowsTab'
  BY PropagatedFacts DEF InheritedFollowsTab, IsInherited, HashOf, InheritedFrom, IsActive, NoBuyout
<1>2. LocksAreCurrent'
  <2>1. \A i \in its : i.label \in Labels
    BY HashOfItem
  <2> QED
    BY <2>1 DEF LocksAreCurrent, Locks, RequiresRefresh, HashOf
<1> QED
  BY <1>1, <1>2

LEMMA RefreshTypes ==
    ASSUME TypeOK, NEW its \in SUBSET Item, NEW shown, NEW last \in LastNotes(its)
    PROVE  /\ RefreshedBuyouts(its, shown, last) \in [Hash -> Buyout]
           /\ \A k \in Hash :
                IsOwn(Migrated(its)[k]) /\ NotesOf(its, k) \cap Prices = {}
                => RefreshedBuyouts(its, shown, last)[k] = Migrated(its)[k]
<1> DEFINE b == ApplyAutoItemBuyouts(its, last)
           t == ApplyAutoTabBuyouts(shown)
<1>1. b \in [Hash -> Buyout] /\ t \in [Labels -> Buyout]
  BY ItemBuyoutTypes, TabBuyoutTypes
<1>2. RefreshedBuyouts(its, shown, last) = Propagated(b, t, its)
  BY DEF RefreshedBuyouts
<1>3. RefreshedBuyouts(its, shown, last) \in [Hash -> Buyout]
  BY <1>1, <1>2, PropagatedFacts
<1>4. ASSUME NEW k \in Hash, IsOwn(Migrated(its)[k]), NotesOf(its, k) \cap Prices = {}
      PROVE  RefreshedBuyouts(its, shown, last)[k] = Migrated(its)[k]
  <2>1. b[k] = Migrated(its)[k]
    BY <1>4, NoNoteKeepsOwn
  <2>2. b[k] \in Buyout
    BY <1>1
  <2>3. ~IsInherited(b[k])
    BY <1>4, <2>1, <2>2, OwnFacts
  <2> HIDE DEF b, t
  <2> QED
    BY <1>1, <1>2, <2>1, <2>3, PropagatedFacts
<1> QED
  BY <1>3, <1>4

LEMMA MigrationWritesFacts ==
    ASSUME TypeOK, DiskIsSerialized, NEW its, NEW n \in 1..3
    PROVE  MigrationWrites(its, n) \in Stored /\ Serialized(MigrationWrites(its, n))
<1>1. disk \in Stored /\ Serialized(disk) /\ tabBuyouts \in [Labels -> Buyout]
      /\ unchecked \in SUBSET Labels /\ n \in 0..3
  BY DEF TypeOK, DiskIsSerialized
<1>2. Migrated(its) \in [Hash -> Buyout] /\ Unmigrated(its) \in [Hash -> Buyout]
  BY MigratedFacts
<1>3. Written(n, disk, Migrated(its), Unmigrated(its), tabBuyouts, unchecked) \in Stored
      /\ Serialized(Written(n, disk, Migrated(its), Unmigrated(its), tabBuyouts, unchecked))
  BY <1>1, <1>2, WrittenFacts
<1> QED
  BY <1>1, <1>3 DEF MigrationWrites

LEMMA RefreshWritesFacts ==
    ASSUME TypeOK, DiskIsSerialized, NEW its, NEW n \in 0..3,
           NEW b \in [Hash -> Buyout], NEW t \in [Labels -> Buyout]
    PROVE  RefreshWrites(its, b, t, n) \in Stored /\ Serialized(RefreshWrites(its, b, t, n))
<1> DEFINE d == IF migrated THEN disk ELSE MigrationWrites(its, 3)
<1>1. d \in Stored /\ Serialized(d)
  BY MigrationWritesFacts DEF TypeOK, DiskIsSerialized
<1>2. Unmigrated(its) \in [Hash -> Buyout] /\ unchecked \in SUBSET Labels
  BY MigratedFacts DEF TypeOK
<1>3. RefreshWrites(its, b, t, n) = Written(n, d, b, Unmigrated(its), t, unchecked)
  BY DEF RefreshWrites
<1> HIDE DEF d
<1> QED
  BY <1>1, <1>2, <1>3, WrittenFacts

-----------------------------------------------------------------------------
(* The steps. *)

LEMMA InitHolds == Init => PricesIInv
<1> SUFFICES ASSUME Init PROVE PricesIInv
  OBVIOUS
<1>1. \A p \in Prices : Manual("priced", p) \in Buyout /\ IsOwn(Manual("priced", p))
                           /\ IsActive(Manual("priced", p))
  <2>1. \A p \in Prices : Manual("priced", p) \in Buyout
    BY ManualTypes
  <2>2. \A p \in Prices : p # NoPrice
    BY TextsAssumption DEF Texts
  <2> QED
    BY <2>1, <2>2 DEF Manual, IsOwn, IsActive
<1>2. /\ buyouts \in [Hash -> Buyout] /\ oldBuyouts \in [Hash -> Buyout]
      /\ tabBuyouts \in [Labels -> Buyout]
  BY <1>1, BuyoutTypes DEF Init
<1>3. disk = [buyouts |-> buyouts, oldBuyouts |-> oldBuyouts, tabBuyouts |-> tabBuyouts,
              unchecked |-> unchecked]
  BY DEF Init
<1>4. TypeOK
  <2>1. disk \in Stored
    BY <1>2, <1>3 DEF Init, Stored
  <2>2. saveNeeded \in BOOLEAN /\ migrated \in BOOLEAN
    BY DEF Init
  <2> QED
    BY <1>2, <2>1, <2>2 DEF Init, TypeOK
<1>5. UserOwn(buyouts) /\ UserOwn(oldBuyouts)
  BY <1>1 DEF Init, UserOwn
<1>6. Serialize(buyouts) = buyouts /\ Serialize(oldBuyouts) = oldBuyouts
  BY <1>2, <1>5, SerializedOwn
<1>7. Serialize(tabBuyouts) = tabBuyouts
  BY DEF Init, Serialize
<1>8. DiskIsCurrent /\ DiskIsSerialized
  BY <1>3, <1>6, <1>7 DEF DiskIsCurrent, DiskIsSerialized, SaveWrites, Written, Serialized
<1>9. Unopened
  BY <1>5 DEF Unopened, Init
<1>10. ItemsInv
  BY DEF Init, ItemsInv, InheritedFollowsTab, LocksAreCurrent, GamePriceWins
<1> QED
  BY <1>4, <1>8, <1>9, <1>10 DEF PricesIInv

LEMMA RefreshStep ==
    PricesIInv /\ OnItemsRefreshed => PricesIInv'
<1> SUFFICES ASSUME PricesIInv, OnItemsRefreshed PROVE PricesIInv'
  OBVIOUS
<1>1. TypeOK /\ DiskIsCurrent /\ DiskIsSerialized
  BY DEF PricesIInv
<1>2. PICK its \in Refreshes :
        \E shown \in Shown(its), last \in LastNotes(its) :
            /\ items' = its /\ tabs' = shown
            /\ buyouts' = RefreshedBuyouts(its, shown, last)
            /\ oldBuyouts' = Unmigrated(its)
            /\ tabBuyouts' = ApplyAutoTabBuyouts(shown)
            /\ locked' = Locks(buyouts', tabBuyouts', its)
            /\ disk' = IF saveNeeded \/ priceVars' # priceVars
                       THEN RefreshWrites(its, buyouts', tabBuyouts', 3) ELSE disk
            /\ saveNeeded' = FALSE /\ migrated' = TRUE
            /\ UNCHANGED <<unchecked, edits>>
  BY DEF OnItemsRefreshed
<1>3. PICK shown \in Shown(its), last \in LastNotes(its) :
            /\ items' = its /\ tabs' = shown
            /\ buyouts' = RefreshedBuyouts(its, shown, last)
            /\ oldBuyouts' = Unmigrated(its)
            /\ tabBuyouts' = ApplyAutoTabBuyouts(shown)
            /\ locked' = Locks(buyouts', tabBuyouts', its)
            /\ disk' = IF saveNeeded \/ priceVars' # priceVars
                       THEN RefreshWrites(its, buyouts', tabBuyouts', 3) ELSE disk
            /\ saveNeeded' = FALSE /\ migrated' = TRUE
            /\ UNCHANGED <<unchecked, edits>>
  BY <1>2
<1>4. its \in SUBSET Item /\ shown \in SUBSET Labels
      /\ \A i \in its : i.label \in shown
  BY DEF Refreshes, Shown
<1> DEFINE b == ApplyAutoItemBuyouts(its, last)
           t == ApplyAutoTabBuyouts(shown)
<1>5. b \in [Hash -> Buyout] /\ t \in [Labels -> Buyout]
      /\ buyouts' = Propagated(b, t, its) /\ tabBuyouts' = t
  BY <1>1, <1>3, ItemBuyoutTypes, TabBuyoutTypes DEF RefreshedBuyouts
<1>6. buyouts' \in [Hash -> Buyout] /\ tabBuyouts' \in [Labels -> Buyout]
      /\ oldBuyouts' \in [Hash -> Buyout]
  BY <1>1, <1>3, <1>4, RefreshTypes, TabBuyoutTypes, MigratedFacts
<1>7. disk' \in Stored /\ Serialized(disk')
  <2>1. RefreshWrites(its, buyouts', tabBuyouts', 3) \in Stored
        /\ Serialized(RefreshWrites(its, buyouts', tabBuyouts', 3))
    BY <1>1, <1>6, RefreshWritesFacts
  <2> QED
    BY <1>1, <1>3, <2>1 DEF TypeOK, DiskIsSerialized
<1>8. locked' \subseteq Labels
  BY <1>3 DEF Locks
<1>9. TypeOK'
  BY <1>1, <1>3, <1>4, <1>6, <1>7, <1>8 DEF TypeOK
<1>10. DiskIsCurrent'
  <2>1. SaveWrites(3)' =
          [buyouts |-> Serialize(buyouts'), oldBuyouts |-> Serialize(oldBuyouts'),
           tabBuyouts |-> Serialize(tabBuyouts'), unchecked |-> unchecked']
    BY DEF SaveWrites, Written, Serialize, IsActive
  <2>2. CASE saveNeeded \/ priceVars' # priceVars
    <3>1. RefreshWrites(its, buyouts', tabBuyouts', 3) =
          [buyouts |-> Serialize(buyouts'), oldBuyouts |-> Serialize(oldBuyouts'),
           tabBuyouts |-> Serialize(tabBuyouts'), unchecked |-> unchecked']
      BY <1>3, AllWritten DEF RefreshWrites
    <3> QED
      BY <1>3, <2>1, <2>2, <3>1 DEF DiskIsCurrent
  <2>3. CASE ~saveNeeded /\ priceVars' = priceVars
    <3>1. disk = SaveWrites(3) /\ disk' = disk
      BY <1>1, <1>3, <2>3 DEF DiskIsCurrent
    <3>2. SaveWrites(3) = [buyouts |-> Serialize(buyouts), oldBuyouts |-> Serialize(oldBuyouts),
                           tabBuyouts |-> Serialize(tabBuyouts), unchecked |-> unchecked]
      BY AllWritten DEF SaveWrites
    <3>3. buyouts' = buyouts /\ oldBuyouts' = oldBuyouts /\ tabBuyouts' = tabBuyouts
      BY <2>3 DEF priceVars
    <3> QED
      BY <1>3, <2>1, <3>1, <3>2, <3>3 DEF DiskIsCurrent
  <2> QED
    BY <2>2, <2>3
<1>11. DiskIsSerialized'
  BY <1>7 DEF DiskIsSerialized, Serialized, Serialize, IsActive
<1>12. Unopened'
  BY <1>3 DEF Unopened
<1>13. InheritedFollowsTab' /\ LocksAreCurrent'
  <2> HIDE DEF b, t
  <2> QED
    BY <1>3, <1>4, <1>5, PropagatedItems
<1>14. GamePriceWins'
  <2>1. \A l \in tabs' : TextOf[l] \in Prices => tabBuyouts'[l] = FromGame("priced", TextOf[l])
    BY <1>1, <1>3, <1>4, TabBuyoutTypes
  <2>2. ASSUME NEW i \in its, NotesOf(its, HashOf(i)) = {i.note}, i.note \in Prices
        PROVE  buyouts'[HashOf(i)] = FromGame("priced", i.note)
    <3>1. b[HashOf(i)] = FromGame("priced", i.note)
      BY <1>1, <1>4, <2>2, NoteIsPrice
    <3>2. ~IsInherited(b[HashOf(i)]) /\ HashOf(i) \in Hash
      BY <1>4, <2>2, <3>1, FromGameTypes, HashOfItem
    <3> HIDE DEF b, t
    <3> QED
      BY <1>4, <1>5, <3>1, <3>2, PropagatedFacts
  <2> QED
    BY <1>3, <2>1, <2>2 DEF GamePriceWins, NotesOf, HashOf, FromGame
<1> QED
  BY <1>9, <1>10, <1>11, <1>12, <1>13, <1>14 DEF PricesIInv, ItemsInv

\* The user changes nothing the game has priced, and nothing before there are items.
LEMMA EditStep ==
    PricesIInv /\ OnBuyoutChange => PricesIInv'
<1> SUFFICES ASSUME PricesIInv, OnBuyoutChange PROVE PricesIInv'
  OBVIOUS
<1>1. /\ TypeOK /\ DiskIsCurrent /\ DiskIsSerialized /\ Unopened
      /\ InheritedFollowsTab /\ GamePriceWins
  BY DEF PricesIInv, ItemsInv
<1>2. PICK rows \in SUBSET tabs,
          hashes \in SUBSET {HashOf(i) : i \in items}, bo \in UserBuyouts :
        LET t == [l \in Labels |-> IF l \in rows /\ Editable(tabBuyouts[l])
                                   THEN bo ELSE tabBuyouts[l]]
            b == [k \in Hash |-> IF /\ k \in hashes
                                    /\ Editable(tabBuyouts[k.label]) /\ Editable(buyouts[k])
                                 THEN bo ELSE buyouts[k]]
        IN  /\ buyouts' = Propagated(b, t, items)
            /\ tabBuyouts' = t
            /\ locked' = Locks(buyouts', t, items)
            /\ UNCHANGED <<items, tabs, oldBuyouts, unchecked, disk, migrated>>
            /\ saveNeeded' = (saveNeeded \/ priceVars' # priceVars)
  BY DEF OnBuyoutChange
<1> DEFINE t == [l \in Labels |-> IF l \in rows /\ Editable(tabBuyouts[l])
                                  THEN bo ELSE tabBuyouts[l]]
           b == [k \in Hash |-> IF /\ k \in hashes
                                   /\ Editable(tabBuyouts[k.label]) /\ Editable(buyouts[k])
                                THEN bo ELSE buyouts[k]]
<1>3. /\ buyouts' = Propagated(b, t, items)
      /\ tabBuyouts' = t
      /\ locked' = Locks(buyouts', t, items)
      /\ items' = items /\ tabs' = tabs /\ oldBuyouts' = oldBuyouts
      /\ unchecked' = unchecked /\ disk' = disk /\ migrated' = migrated
      /\ saveNeeded' = (saveNeeded \/ priceVars' # priceVars)
  BY <1>2
<1>4. b \in [Hash -> Buyout] /\ t \in [Labels -> Buyout] /\ items \in SUBSET Item
  BY <1>1, UserBuyoutTypes DEF TypeOK
<1>5. \A l \in Labels : IsGameSet(tabBuyouts[l]) => t[l] = tabBuyouts[l]
  BY DEF Editable
<1>6. \A k \in Hash : IsGameSet(buyouts[k]) => b[k] = buyouts[k]
  BY DEF Editable
<1>7. hashes = {} /\ rows = {} => b = buyouts /\ t = tabBuyouts
  BY <1>1 DEF TypeOK
<1> HIDE DEF b, t
<1>8. TypeOK'
  <2>1. buyouts' \in [Hash -> Buyout]
    BY <1>3, <1>4, PropagatedFacts
  <2>2. locked' \subseteq Labels
    BY <1>3 DEF Locks
  <2>3. saveNeeded' \in BOOLEAN
    BY <1>1, <1>3 DEF TypeOK
  <2>4. edits' \in Nat
    BY <1>1 DEF TypeOK, OnBuyoutChange
  <2> QED
    BY <1>1, <1>3, <1>4, <2>1, <2>2, <2>3, <2>4 DEF TypeOK
<1>9. DiskIsCurrent'
  <2>1. ASSUME ~saveNeeded' PROVE disk' = SaveWrites(3)'
    <3>1. ~saveNeeded /\ priceVars' = priceVars
      BY <1>3, <2>1
    <3>2. buyouts' = buyouts /\ oldBuyouts' = oldBuyouts /\ tabBuyouts' = tabBuyouts
      BY <3>1 DEF priceVars
    <3>3. disk = SaveWrites(3)
      BY <1>1, <3>1 DEF DiskIsCurrent
    <3> QED
      BY <1>3, <3>2, <3>3 DEF SaveWrites, Written, Serialize, IsActive
  <2> QED
    BY <2>1 DEF DiskIsCurrent
<1>10. DiskIsSerialized'
  BY <1>1, <1>3 DEF DiskIsSerialized, Serialized, Serialize, IsActive
<1>11. Unopened'
  <2>1. ASSUME ~migrated PROVE buyouts' = buyouts /\ tabBuyouts' = tabBuyouts
    <3>1. items = {} /\ tabs = {}
      BY <1>1, <2>1 DEF Unopened
    <3>2. b = buyouts /\ t = tabBuyouts
      BY <1>7, <3>1
    <3>3. Propagated(b, t, items) = b
      BY <1>4, <3>1 DEF Propagated
    <3> QED
      BY <1>3, <3>2, <3>3
  <2>2. ASSUME ~migrated PROVE ~saveNeeded'
    <3>1. ~saveNeeded
      BY <1>1, <2>2 DEF Unopened
    <3> QED
      BY <1>3, <2>1, <2>2, <3>1 DEF priceVars
  <2> QED
    BY <1>1, <1>3, <2>1, <2>2 DEF Unopened, UserOwn
<1>12. InheritedFollowsTab' /\ LocksAreCurrent'
  BY <1>3, <1>4, PropagatedItems
<1>13. GamePriceWins'
  <2>1. ASSUME NEW l \in tabs, TextOf[l] \in Prices
        PROVE  tabBuyouts'[l] = FromGame("priced", TextOf[l])
    <3>1. l \in Labels /\ tabBuyouts[l] = FromGame("priced", TextOf[l])
      BY <1>1, <2>1 DEF TypeOK, GamePriceWins
    <3>2. IsGameSet(tabBuyouts[l])
      BY <2>1, <3>1, FromGameTypes
    <3> QED
      BY <1>3, <1>5, <3>1, <3>2
  <2>2. ASSUME NEW i \in items, NotesOf(items, HashOf(i)) = {i.note}, i.note \in Prices
        PROVE  buyouts'[HashOf(i)] = FromGame("priced", i.note)
    <3>1. HashOf(i) \in Hash /\ buyouts[HashOf(i)] = FromGame("priced", i.note)
      BY <1>1, <1>4, <2>2, HashOfItem DEF GamePriceWins
    <3>2. IsGameSet(buyouts[HashOf(i)]) /\ ~IsInherited(buyouts[HashOf(i)])
      BY <2>2, <3>1, FromGameTypes
    <3>3. b[HashOf(i)] = buyouts[HashOf(i)]
      BY <1>6, <3>1, <3>2
    <3>4. Propagated(b, t, items)[HashOf(i)] = b[HashOf(i)]
      BY <1>4, <3>1, <3>2, <3>3, PropagatedFacts
    <3> QED
      BY <1>3, <3>1, <3>3, <3>4
  <2> QED
    BY <1>3, <2>1, <2>2 DEF GamePriceWins, NotesOf, HashOf, FromGame
<1> QED
  BY <1>8, <1>9, <1>10, <1>11, <1>12, <1>13 DEF PricesIInv, ItemsInv

LEMMA CheckStep ==
    PricesIInv /\ SetRefreshChecked => PricesIInv'
<1> SUFFICES ASSUME PricesIInv, SetRefreshChecked PROVE PricesIInv'
  OBVIOUS
<1>1. TypeOK /\ DiskIsCurrent /\ DiskIsSerialized /\ Unopened /\ ItemsInv
  BY DEF PricesIInv
<1>2. PICK rows \in SUBSET tabs, value \in BOOLEAN :
        /\ rows # {}
        /\ unchecked' = IF value THEN unchecked \ rows ELSE unchecked \cup rows
        /\ saveNeeded' = TRUE
        /\ UNCHANGED <<items, tabs, priceVars, locked, disk, migrated>>
  BY DEF SetRefreshChecked
<1>3. /\ items' = items /\ tabs' = tabs /\ locked' = locked /\ disk' = disk
      /\ migrated' = migrated /\ buyouts' = buyouts /\ oldBuyouts' = oldBuyouts
      /\ tabBuyouts' = tabBuyouts
  BY <1>2 DEF priceVars
<1>4. unchecked' \subseteq Labels
  BY <1>1, <1>2 DEF TypeOK
<1>5. edits' \in Nat
  BY <1>1 DEF TypeOK, SetRefreshChecked
<1>6. TypeOK'
  BY <1>1, <1>2, <1>3, <1>4, <1>5 DEF TypeOK
<1>7. DiskIsCurrent'
  BY <1>2 DEF DiskIsCurrent
<1>8. DiskIsSerialized'
  BY <1>1, <1>3 DEF DiskIsSerialized, Serialized, Serialize, IsActive
<1>9. migrated
  BY <1>1, <1>2 DEF Unopened
<1>10. Unopened'
  BY <1>3, <1>9 DEF Unopened
<1>11. ItemsInv'
  BY <1>1, <1>3 DEF ItemsInv, InheritedFollowsTab, LocksAreCurrent, GamePriceWins,
       RequiresRefresh, IsInherited, InheritedFrom, IsActive, HashOf, NotesOf, FromGame,
       NoBuyout, Manual
<1> QED
  BY <1>6, <1>7, <1>8, <1>10, <1>11 DEF PricesIInv

LEMMA SaveStep ==
    PricesIInv /\ Save => PricesIInv'
<1> SUFFICES ASSUME PricesIInv, Save PROVE PricesIInv'
  OBVIOUS
<1>1. TypeOK /\ DiskIsCurrent /\ DiskIsSerialized /\ Unopened /\ ItemsInv
  BY DEF PricesIInv
<1>2. /\ items' = items /\ tabs' = tabs /\ locked' = locked /\ disk' = SaveWrites(3)
      /\ migrated' = migrated /\ buyouts' = buyouts /\ oldBuyouts' = oldBuyouts
      /\ tabBuyouts' = tabBuyouts /\ unchecked' = unchecked /\ edits' = edits
      /\ saveNeeded' = FALSE
  BY DEF Save, priceVars
<1>3. SaveWrites(3) \in Stored /\ Serialized(SaveWrites(3))
  BY <1>1, WrittenFacts DEF TypeOK, DiskIsSerialized, SaveWrites
<1>4. TypeOK'
  BY <1>1, <1>2, <1>3 DEF TypeOK
<1>5. DiskIsCurrent'
  <2>1. SaveWrites(3)' = SaveWrites(3)
    BY <1>2 DEF SaveWrites, Written, Serialize, IsActive
  <2> QED
    BY <1>2, <2>1 DEF DiskIsCurrent
<1>6. DiskIsSerialized'
  BY <1>2, <1>3 DEF DiskIsSerialized, Serialized, Serialize, IsActive
<1>7. migrated
  BY <1>1 DEF Unopened, Save
<1>8. Unopened'
  BY <1>2, <1>7 DEF Unopened
<1>9. ItemsInv'
  BY <1>1, <1>2 DEF ItemsInv, InheritedFollowsTab, LocksAreCurrent, GamePriceWins,
       RequiresRefresh, IsInherited, InheritedFrom, IsActive, HashOf, NotesOf, FromGame,
       NoBuyout, Manual
<1> QED
  BY <1>4, <1>5, <1>6, <1>8, <1>9 DEF PricesIInv

\* Until the migration the disk holds what the program holds.
LEMMA UnopenedDisk ==
    ASSUME PricesIInv, ~migrated
    PROVE  UserOwn(disk.buyouts) /\ UserOwn(disk.oldBuyouts)
<1>1. TypeOK /\ disk = SaveWrites(3) /\ UserOwn(buyouts) /\ UserOwn(oldBuyouts)
  BY DEF PricesIInv, DiskIsCurrent, Unopened
<1>2. disk.buyouts = Serialize(buyouts) /\ disk.oldBuyouts = Serialize(oldBuyouts)
  BY <1>1 DEF SaveWrites, Written
<1> QED
  BY <1>1, <1>2, SerializedOwn DEF TypeOK

LEMMA RestartStep ==
    PricesIInv /\ (Reopen \/ Crash) => PricesIInv'
<1> SUFFICES ASSUME PricesIInv, Reopen \/ Crash PROVE PricesIInv'
  OBVIOUS
<1>1. TypeOK /\ DiskIsSerialized /\ Unopened
  BY DEF PricesIInv
<1>2. PICK n \in 0..3 : Load(IF saveNeeded THEN SaveWrites(n) ELSE disk)
  <2>1. CASE Reopen
    BY <2>1 DEF Reopen
  <2>2. CASE Crash
    <3>1. PICK m \in 0..2 : Load(IF saveNeeded THEN SaveWrites(m) ELSE disk)
      BY <2>2 DEF Crash
    <3>2. m \in 0..3
      OBVIOUS
    <3> QED
      BY <3>1, <3>2
  <2> QED
    BY <2>1, <2>2
<1>3. migrated' = migrated /\ edits' = edits
  BY DEF Reopen, Crash
<1> DEFINE d == IF saveNeeded THEN SaveWrites(n) ELSE disk
<1>4. d \in Stored /\ Serialized(d)
  <2>1. SaveWrites(n) \in Stored /\ Serialized(SaveWrites(n))
    BY <1>1, WrittenFacts DEF TypeOK, DiskIsSerialized, SaveWrites
  <2> QED
    BY <1>1, <2>1 DEF TypeOK, DiskIsSerialized
<1>5. ~migrated => UserOwn(d.buyouts) /\ UserOwn(d.oldBuyouts)
  BY <1>1, UnopenedDisk DEF Unopened
<1>6. migrated' \in BOOLEAN
  BY <1>1, <1>3 DEF TypeOK
<1>7. edits' \in Nat
  BY <1>1, <1>3 DEF TypeOK
<1>8. Load(d)
  BY <1>2
<1> HIDE DEF d
<1> QED
  BY <1>3, <1>4, <1>5, <1>6, <1>7, <1>8, LoadKeeps

LEMMA MigrationCrashStep ==
    PricesIInv /\ (\E its \in Refreshes : CrashInMigration(its)) => PricesIInv'
<1> SUFFICES ASSUME PricesIInv, NEW its \in Refreshes, CrashInMigration(its) PROVE PricesIInv'
  OBVIOUS
<1>1. TypeOK /\ DiskIsSerialized /\ Unopened
  BY DEF PricesIInv
<1>2. PICK n \in 1..3 : Load(MigrationWrites(its, n))
  BY DEF CrashInMigration
<1>3. ~migrated /\ migrated' = migrated /\ edits' = edits
  BY DEF CrashInMigration
<1> DEFINE d == MigrationWrites(its, n)
<1>4. d \in Stored /\ Serialized(d)
  BY <1>1, MigrationWritesFacts
<1>5. UserOwn(d.buyouts) /\ UserOwn(d.oldBuyouts)
  <2>1. /\ Migrated(its) \in [Hash -> Buyout] /\ Unmigrated(its) \in [Hash -> Buyout]
        /\ UserOwn(Migrated(its)) /\ UserOwn(Unmigrated(its))
    BY <1>1, <1>3, MigratedFacts DEF Unopened
  <2>2. UserOwn(Serialize(Migrated(its))) /\ UserOwn(Serialize(Unmigrated(its)))
    BY <2>1, SerializedOwn
  <2>3. n >= 1
    OBVIOUS
  <2>4. \/ d = disk
        \/ /\ d.buyouts = Serialize(Migrated(its))
           /\ d.oldBuyouts = Serialize(Unmigrated(its))
    BY <2>3 DEF MigrationWrites, Written
  <2> QED
    BY <1>3, <2>2, <2>4, UnopenedDisk
<1>6. migrated' \in BOOLEAN
  BY <1>1, <1>3 DEF TypeOK
<1>7. edits' \in Nat
  BY <1>1, <1>3 DEF TypeOK
<1>8. Load(d)
  BY <1>2
<1> HIDE DEF d
<1> QED
  BY <1>4, <1>5, <1>6, <1>7, <1>8, LoadKeeps

LEMMA RefreshCrashStep ==
    PricesIInv /\ (\E its \in Refreshes : CrashInRefresh(its)) => PricesIInv'
<1> SUFFICES ASSUME PricesIInv, NEW its \in Refreshes, CrashInRefresh(its) PROVE PricesIInv'
  OBVIOUS
<1>1. TypeOK /\ DiskIsSerialized
  BY DEF PricesIInv
<1>2. PICK shown \in Shown(its), last \in LastNotes(its), n \in 0..2 :
        Load(RefreshWrites(its, RefreshedBuyouts(its, shown, last),
                           ApplyAutoTabBuyouts(shown), n))
  BY DEF CrashInRefresh
<1>3. migrated' = TRUE /\ edits' = edits
  BY DEF CrashInRefresh
<1> DEFINE d == RefreshWrites(its, RefreshedBuyouts(its, shown, last),
                              ApplyAutoTabBuyouts(shown), n)
<1>4. d \in Stored /\ Serialized(d)
  <2>1. its \in SUBSET Item /\ n \in 0..3
    BY DEF Refreshes
  <2>2. RefreshedBuyouts(its, shown, last) \in [Hash -> Buyout]
        /\ ApplyAutoTabBuyouts(shown) \in [Labels -> Buyout]
    BY <1>1, <2>1, RefreshTypes, TabBuyoutTypes
  <2> QED
    BY <1>1, <2>1, <2>2, RefreshWritesFacts
<1>5. edits' \in Nat
  BY <1>1, <1>3 DEF TypeOK
<1>6. Load(d)
  BY <1>2
<1> HIDE DEF d
<1> QED
  BY <1>3, <1>4, <1>5, <1>6, LoadKeeps

LEMMA StutterStep ==
    PricesIInv /\ UNCHANGED vars => PricesIInv'
<1> SUFFICES ASSUME PricesIInv, UNCHANGED vars PROVE PricesIInv'
  OBVIOUS
<1>1. TypeOK /\ DiskIsCurrent /\ DiskIsSerialized /\ Unopened /\ ItemsInv
  BY DEF PricesIInv
<1>2. /\ items' = items /\ tabs' = tabs /\ locked' = locked /\ disk' = disk
      /\ migrated' = migrated /\ buyouts' = buyouts /\ oldBuyouts' = oldBuyouts
      /\ tabBuyouts' = tabBuyouts /\ unchecked' = unchecked /\ edits' = edits
      /\ saveNeeded' = saveNeeded
  BY DEF vars, priceVars
<1>3. TypeOK'
  BY <1>1, <1>2 DEF TypeOK
<1>4. DiskIsCurrent'
  BY <1>1, <1>2 DEF DiskIsCurrent, SaveWrites, Written, Serialize, IsActive
<1>5. DiskIsSerialized'
  BY <1>1, <1>2 DEF DiskIsSerialized, Serialized, Serialize, IsActive
<1>6. Unopened'
  BY <1>1, <1>2 DEF Unopened, UserOwn
<1>7. ItemsInv'
  BY <1>1, <1>2 DEF ItemsInv, InheritedFollowsTab, LocksAreCurrent, GamePriceWins,
       RequiresRefresh, IsInherited, InheritedFrom, IsActive, HashOf, NotesOf, FromGame,
       NoBuyout, Manual
<1> QED
  BY <1>3, <1>4, <1>5, <1>6, <1>7 DEF PricesIInv

LEMMA PricesIInvIsInductive ==
    PricesIInv /\ [Next]_vars => PricesIInv'
BY RefreshStep, EditStep, CheckStep, SaveStep, RestartStep, MigrationCrashStep,
   RefreshCrashStep, StutterStep DEF Next

LEMMA PricesIInvHolds == Spec => []PricesIInv
<1>1. Init => PricesIInv
  BY InitHolds
<1>2. PricesIInv /\ [Next]_vars => PricesIInv'
  BY PricesIInvIsInductive
<1> QED
  BY <1>1, <1>2, PTL DEF Spec

-----------------------------------------------------------------------------
(* What is on the disk is what BuyoutManager holds unless m_save_needed    *)
(* says otherwise, wherever the program dies: no write is forgotten.       *)
THEOREM BuyoutsInvHolds == Spec => []BuyoutsInv
<1>1. PricesIInv => BuyoutsInv
  BY DEF PricesIInv, BuyoutsInv
<1> QED
  BY <1>1, PricesIInvHolds, PTL

(* PropagateTabBuyouts leaves no item the price of another tab, or one     *)
(* that its tab has lost.                                                  *)
THEOREM InheritedFollowsTabHolds == Spec => []InheritedFollowsTab
<1>1. PricesIInv => InheritedFollowsTab
  BY DEF PricesIInv, ItemsInv
<1> QED
  BY <1>1, PricesIInvHolds, PTL

(* SetRefreshLocked is called for each tab with something for sale, so     *)
(* that GetRefreshChecked never leaves it out of a refresh.                *)
THEOREM PricedIsRefreshedHolds == Spec => []PricedIsRefreshed
<1>1. PricesIInv => PricedIsRefreshed
  BY DEF PricesIInv, ItemsInv, LocksAreCurrent, PricedIsRefreshed, GetRefreshChecked
<1> QED
  BY <1>1, PricesIInvHolds, PTL

(* A price in a note or in the name of a tab is the price: neither the     *)
(* user nor PropagateTabBuyouts nor the migration replaces it.             *)
THEOREM GamePriceWinsHolds == Spec => []GamePriceWins
<1>1. PricesIInv => GamePriceWins
  BY DEF PricesIInv, ItemsInv
<1> QED
  BY <1>1, PricesIInvHolds, PTL

-----------------------------------------------------------------------------
(* The user's price survives. *)

\* What may become of the price that the user gave item k.
Survives(k) ==
    /\ IsOwn(OwnBuyout(k))
    /\ migrated' = migrated \/ IsOwn(buyouts[k]) \/ k \in {HashOf(i) : i \in items'}
    => \/ OwnBuyout(k)' = OwnBuyout(k)
       \/ NotesOf(items', k) \cap Prices # {}
       \/ edits' # edits
       \/ ~WasSaved(k) /\ Died
       \/ \E its \in Refreshes : NotesOf(its, k) \cap Prices # {} /\ CrashInRefresh(its)

\* A price under either hash that is not touched is the same price afterwards.
LEMMA UntouchedIsKept ==
    ASSUME NEW k \in Hash, buyouts'[k] = buyouts[k], oldBuyouts'[k] = oldBuyouts[k],
           migrated' = migrated
    PROVE  OwnBuyout(k)' = OwnBuyout(k)
BY DEF OwnBuyout, IsOwn, IsActive

\* Serialize keeps a price of the user's.
LEMMA SerializeKeepsOwn ==
    ASSUME NEW m \in [Hash -> Buyout], NEW k \in Hash, IsOwn(m[k])
    PROVE  Serialize(m)[k] = m[k]
<1>1. IsActive(m[k])
  BY DEF IsOwn
<1> QED
  BY <1>1, SerializeFacts

\* The price that MigrateBuyouts is to keep, of an item that is there the first time.
LEMMA MigratedOwn ==
    ASSUME TypeOK, Unopened, NEW its, NEW k \in Hash, IsOwn(OwnBuyout(k)),
           IsOwn(buyouts[k]) \/ k \in {HashOf(i) : i \in its}
    PROVE  Migrated(its)[k] = OwnBuyout(k)
<1>1. CASE IsOwn(buyouts[k])
  <2>1. k \notin ToMigrate(its)
    BY <1>1, OwnIsNotMigrated
  <2> QED
    BY <1>1, <2>1, MigratedFacts DEF OwnBuyout
<1>2. CASE ~IsOwn(buyouts[k])
  <2>1. ~migrated /\ OwnBuyout(k) = oldBuyouts[k]
    BY <1>2 DEF OwnBuyout
  <2>2. buyouts[k] = NoBuyout
    BY <1>2, <2>1 DEF Unopened, UserOwn
  <2>3. oldBuyouts[k] # NoBuyout
    BY <2>1, BuyoutTypes
  <2>4. k \in ToMigrate(its)
    BY <1>2, <2>1, <2>2, <2>3 DEF ToMigrate
  <2> QED
    BY <2>1, <2>4, MigratedFacts
<1> QED
  BY <1>1, <1>2

LEMMA RefreshSurvives ==
    ASSUME PricesIInv, OnItemsRefreshed, NEW k \in Hash
    PROVE  Survives(k)
<1> SUFFICES ASSUME IsOwn(OwnBuyout(k)),
                    migrated' = migrated \/ IsOwn(buyouts[k])
                        \/ k \in {HashOf(i) : i \in items'},
                    NotesOf(items', k) \cap Prices = {}
             PROVE  OwnBuyout(k)' = OwnBuyout(k)
  BY DEF Survives
<1>1. TypeOK /\ Unopened
  BY DEF PricesIInv
<1>2. PICK its \in Refreshes :
        \E shown \in Shown(its), last \in LastNotes(its) :
            /\ items' = its
            /\ buyouts' = RefreshedBuyouts(its, shown, last)
            /\ migrated' = TRUE
  BY DEF OnItemsRefreshed
<1>3. PICK shown \in Shown(its), last \in LastNotes(its) :
            /\ items' = its
            /\ buyouts' = RefreshedBuyouts(its, shown, last)
            /\ migrated' = TRUE
  BY <1>2
<1>4. IsOwn(buyouts[k]) \/ k \in {HashOf(i) : i \in its}
  <2>1. CASE migrated' = migrated
    BY <1>3, <2>1 DEF OwnBuyout
  <2>2. CASE IsOwn(buyouts[k]) \/ k \in {HashOf(i) : i \in items'}
    BY <1>3, <2>2 DEF HashOf
  <2> QED
    BY <2>1, <2>2
<1>5. Migrated(its)[k] = OwnBuyout(k)
  BY <1>1, <1>4, MigratedOwn
<1>6. NotesOf(its, k) \cap Prices = {}
  BY <1>3 DEF NotesOf, HashOf
<1>7. its \in SUBSET Item
  BY DEF Refreshes
<1>8. buyouts'[k] = OwnBuyout(k)
  BY <1>1, <1>3, <1>5, <1>6, <1>7, RefreshTypes
<1> QED
  BY <1>3, <1>8 DEF OwnBuyout

\* Serialize changes no price that counts, so that a program that is closed and
\* started again has them all.
LEMMA SerializedIsKept ==
    ASSUME PricesIInv, NEW k \in Hash, IsOwn(OwnBuyout(k)),
           buyouts'[k] = Serialize(buyouts)[k], oldBuyouts'[k] = Serialize(oldBuyouts)[k],
           migrated' = migrated
    PROVE  OwnBuyout(k)' = OwnBuyout(k)
<1>1. TypeOK /\ Unopened
  BY DEF PricesIInv
<1>2. CASE IsOwn(buyouts[k])
  <2>1. buyouts'[k] = buyouts[k]
    BY <1>1, <1>2, SerializeKeepsOwn DEF TypeOK
  <2>2. OwnBuyout(k) = buyouts[k]
    BY <1>2 DEF OwnBuyout
  <2>3. OwnBuyout(k)' = buyouts'[k]
    BY <1>2, <2>1 DEF OwnBuyout, IsOwn, IsActive
  <2> QED
    BY <2>1, <2>2, <2>3
<1>3. CASE ~IsOwn(buyouts[k])
  <2>1. ~migrated /\ IsOwn(oldBuyouts[k])
    BY <1>3 DEF OwnBuyout
  <2>2. oldBuyouts'[k] = oldBuyouts[k]
    BY <1>1, <2>1, SerializeKeepsOwn DEF TypeOK
  <2>3. Serialize(buyouts) = buyouts
    BY <1>1, <2>1, SerializedOwn DEF TypeOK, Unopened
  <2>4. buyouts'[k] = buyouts[k]
    BY <2>3
  <2> QED
    BY <2>2, <2>4, UntouchedIsKept
<1> QED
  BY <1>2, <1>3

LEMMA ReopenSurvives ==
    ASSUME PricesIInv, Reopen, NEW k \in Hash
    PROVE  Survives(k)
<1> SUFFICES ASSUME IsOwn(OwnBuyout(k)) PROVE OwnBuyout(k)' = OwnBuyout(k)
  BY DEF Survives
<1>1. Load(SaveWrites(3)) /\ migrated' = migrated
  BY DEF Reopen, PricesIInv, DiskIsCurrent
<1>2. /\ SaveWrites(3).buyouts = Serialize(buyouts)
      /\ SaveWrites(3).oldBuyouts = Serialize(oldBuyouts)
  BY DEF SaveWrites, Written
<1>3. buyouts' = Serialize(buyouts) /\ oldBuyouts' = Serialize(oldBuyouts)
  BY <1>1, <1>2 DEF Load
<1> QED
  BY <1>1, <1>3, SerializedIsKept

\* A price that was saved is on the disk after any of the three writes.
LEMMA SavedStays ==
    ASSUME TypeOK, DiskIsSerialized, NEW k \in Hash, WasSaved(k), NEW n
    PROVE  SaveWrites(n).buyouts[k] = buyouts[k] /\ SaveWrites(n).oldBuyouts[k] = oldBuyouts[k]
<1>1. disk \in Stored /\ buyouts \in [Hash -> Buyout] /\ oldBuyouts \in [Hash -> Buyout]
  BY DEF TypeOK
<1>2. disk.buyouts \in [Hash -> Buyout] /\ disk.oldBuyouts \in [Hash -> Buyout]
  BY <1>1 DEF Stored
<1>3. Serialize(buyouts)[k] = Serialize(disk.buyouts)[k]
      /\ Serialize(oldBuyouts)[k] = Serialize(disk.oldBuyouts)[k]
  BY <1>1, <1>2, SerializeFacts DEF WasSaved
<1>4. Serialize(buyouts)[k] = buyouts[k] /\ Serialize(oldBuyouts)[k] = oldBuyouts[k]
  BY <1>3 DEF DiskIsSerialized, Serialized, WasSaved
<1> QED
  BY <1>4 DEF SaveWrites, Written, WasSaved

LEMMA CrashSurvives ==
    ASSUME PricesIInv, Crash, NEW k \in Hash
    PROVE  Survives(k)
<1> SUFFICES ASSUME WasSaved(k) PROVE OwnBuyout(k)' = OwnBuyout(k)
  BY DEF Survives, Died
<1>1. TypeOK /\ DiskIsSerialized
  BY DEF PricesIInv
<1>2. PICK n \in 0..2 : Load(IF saveNeeded THEN SaveWrites(n) ELSE disk)
  BY DEF Crash
<1>3. buyouts'[k] = buyouts[k] /\ oldBuyouts'[k] = oldBuyouts[k]
  BY <1>1, <1>2, SavedStays DEF Load, WasSaved
<1>4. migrated' = migrated
  BY DEF Crash
<1> QED
  BY <1>3, <1>4, UntouchedIsKept

LEMMA MigrationCrashSurvives ==
    ASSUME PricesIInv, NEW its \in Refreshes, CrashInMigration(its), NEW k \in Hash
    PROVE  Survives(k)
<1> SUFFICES ASSUME WasSaved(k), IsOwn(OwnBuyout(k)) PROVE OwnBuyout(k)' = OwnBuyout(k)
  BY DEF Survives, Died
<1>1. TypeOK /\ Unopened /\ ~migrated /\ migrated' = migrated /\ ~saveNeeded
  BY DEF PricesIInv, CrashInMigration, Unopened
<1>2. PICK n \in 1..3 : Load(MigrationWrites(its, n))
  BY DEF CrashInMigration
<1>3. CASE k \notin ToMigrate(its)
  <2>1. Migrated(its)[k] = buyouts[k] /\ Unmigrated(its)[k] = oldBuyouts[k]
        /\ Migrated(its) \in [Hash -> Buyout] /\ Unmigrated(its) \in [Hash -> Buyout]
    BY <1>1, <1>3, MigratedFacts
  <2>2. Serialize(Migrated(its))[k] = buyouts[k] /\ Serialize(Unmigrated(its))[k] = oldBuyouts[k]
    <3>1. UserOwn(Migrated(its)) /\ UserOwn(Unmigrated(its))
      BY <1>1, MigratedFacts DEF Unopened
    <3> QED
      BY <2>1, <3>1, SerializedOwn
  <2>3. buyouts'[k] = buyouts[k] /\ oldBuyouts'[k] = oldBuyouts[k]
    <3>1. CASE ToMigrate(its) = {}
      BY <1>1, <1>2, <3>1 DEF Load, MigrationWrites, WasSaved
    <3>2. CASE ToMigrate(its) # {}
      BY <1>1, <1>2, <2>2, <3>2 DEF Load, MigrationWrites, Written
    <3> QED
      BY <3>1, <3>2
  <2> QED
    BY <1>1, <2>3, UntouchedIsKept
<1>4. CASE k \in ToMigrate(its)
  <2>1. buyouts[k] \in Buyout /\ (buyouts[k] = NoBuyout \/ IsGameSet(buyouts[k]))
    BY <1>1, <1>4 DEF ToMigrate, TypeOK
  <2>2. ~IsOwn(buyouts[k])
    BY <2>1, OwnFacts
  <2>3. OwnBuyout(k) = oldBuyouts[k]
    BY <1>1, <2>2 DEF OwnBuyout
  <2>4. Migrated(its)[k] = oldBuyouts[k] /\ Migrated(its) \in [Hash -> Buyout]
    BY <1>1, <1>4, MigratedFacts
  <2>5. Serialize(Migrated(its))[k] = oldBuyouts[k]
    BY <2>3, <2>4, SerializeKeepsOwn
  <2>6. buyouts'[k] = oldBuyouts[k]
    BY <1>2, <1>4, <2>5 DEF Load, MigrationWrites, Written
  <2>7. IsOwn(buyouts'[k])
    BY <2>3, <2>6
  <2> QED
    BY <2>3, <2>6, <2>7 DEF OwnBuyout, IsOwn, IsActive
<1> QED
  BY <1>3, <1>4

LEMMA RefreshCrashSurvives ==
    ASSUME PricesIInv, NEW its \in Refreshes, CrashInRefresh(its), NEW k \in Hash
    PROVE  Survives(k)
<1>1. TypeOK /\ DiskIsSerialized /\ Unopened /\ its \in SUBSET Item
  BY DEF PricesIInv, Refreshes
<1>2. PICK shown \in Shown(its), last \in LastNotes(its), n \in 0..2 :
        Load(RefreshWrites(its, RefreshedBuyouts(its, shown, last),
                           ApplyAutoTabBuyouts(shown), n))
  BY DEF CrashInRefresh
<1>3. migrated' = TRUE /\ items' = {}
  BY <1>2 DEF CrashInRefresh, Load
<1> SUFFICES ASSUME WasSaved(k), IsOwn(OwnBuyout(k)), NotesOf(its, k) \cap Prices = {},
                    migrated' = migrated \/ IsOwn(buyouts[k])
                        \/ k \in {HashOf(i) : i \in items'}
             PROVE  OwnBuyout(k)' = OwnBuyout(k)
  BY DEF Survives, Died
<1>4. IsOwn(buyouts[k]) /\ OwnBuyout(k) = buyouts[k]
  BY <1>3 DEF OwnBuyout
<1>5. Migrated(its)[k] = buyouts[k] /\ Migrated(its) \in [Hash -> Buyout]
  BY <1>1, <1>4, MigratedFacts, OwnIsNotMigrated
<1> DEFINE b == RefreshedBuyouts(its, shown, last)
           t == ApplyAutoTabBuyouts(shown)
<1>6. b \in [Hash -> Buyout] /\ b[k] = buyouts[k]
  BY <1>1, <1>4, <1>5, RefreshTypes
<1>7. Serialize(b)[k] = buyouts[k] /\ Serialize(Migrated(its))[k] = buyouts[k]
  BY <1>4, <1>5, <1>6, SerializeKeepsOwn
<1>8. disk.buyouts[k] = buyouts[k]
  BY DEF WasSaved
<1>9. MigrationWrites(its, 3).buyouts[k] = buyouts[k]
  BY <1>7, <1>8 DEF MigrationWrites, Written
<1>10. Load(RefreshWrites(its, b, t, n))
  BY <1>2
<1> HIDE DEF b, t
<1>11. RefreshWrites(its, b, t, n).buyouts[k] = buyouts[k]
  BY <1>7, <1>8, <1>9 DEF RefreshWrites, Written
<1>12. buyouts'[k] = buyouts[k]
  BY <1>10, <1>11 DEF Load
<1> QED
  BY <1>3, <1>4, <1>12 DEF OwnBuyout

LEMMA EverythingSurvives ==
    ASSUME PricesIInv, [Next]_vars, NEW k \in Hash
    PROVE  Survives(k)
<1>1. CASE OnBuyoutChange \/ SetRefreshChecked
  <2>1. edits' = edits + 1 /\ edits \in Nat
    BY <1>1 DEF OnBuyoutChange, SetRefreshChecked, PricesIInv, TypeOK
  <2> QED
    BY <2>1 DEF Survives
<1>2. CASE Save \/ UNCHANGED vars
  <2>1. buyouts' = buyouts /\ oldBuyouts' = oldBuyouts /\ migrated' = migrated
    BY <1>2 DEF Save, vars, priceVars
  <2> QED
    BY <2>1, UntouchedIsKept DEF Survives
<1> QED
  BY <1>1, <1>2, RefreshSurvives, ReopenSurvives, CrashSurvives, MigrationCrashSurvives,
     RefreshCrashSurvives DEF Next

(* No refresh, no price of a tab, no migration and no death of the program *)
(* takes away a price the user gave an item, but a price in its note and   *)
(* the user do: neither ApplyAutoItemBuyouts nor PropagateTabBuyouts nor   *)
(* MigrateBuyouts overwrites it.                                           *)
THEOREM OwnPriceSurvivesHolds == Spec => OwnPriceSurvives
<1> DEFINE A == \A k \in Hash : Survives(k)
<1>1. PricesIInv /\ [Next]_vars => [A]_vars
  BY EverythingSurvives
<1>2. [][A]_vars => OwnPriceSurvives
  BY DEF OwnPriceSurvives, Survives
<1> HIDE DEF A
<1> QED
  BY <1>1, <1>2, PricesIInvHolds, PTL DEF Spec
=============================================================================
