-------------------------- MODULE MainWindowProofs --------------------------
(***************************************************************************)
(* For any items, tabs, filters and icons, any number of searches and any  *)
(* budget of what the user does: the bar, the view, the selection and the  *)
(* panel stay with what they are of.                                       *)
(*                                                                         *)
(* The handlers are operators from one window to the next and call each    *)
(* other, so that the lemmas are about a window w, and the invariant is a  *)
(* predicate on windows, Settled.                                          *)
(***************************************************************************)
EXTENDS MainWindow, FiniteSetTheorems, WellFoundedInduction, SequenceTheorems, TLAPS

-----------------------------------------------------------------------------
(* Sets of numbers can be put in order.  Induction over finite sets is by  *)
(* a least counterexample.                                                 *)

\* A property of finite sets of naturals that is false of one is false of a least one.
LEMMA LeastSet ==
    ASSUME NEW T \in SUBSET FiniteSubsetsOf(Nat), T # {}
    PROVE  \E X \in T : \A Y \in T : ~(Y \subseteq X /\ Y # X)
<1>1. PICK X \in T : \A Y \in T : ~(<<Y, X>> \in StrictSubsetOrdering(Nat))
  BY FS_StrictSubsetOrderingWellFounded, WFMin
<1>2. ASSUME NEW Y \in T, Y \subseteq X /\ Y # X PROVE FALSE
  <2>1. X \in SUBSET Nat /\ Y \in SUBSET Nat
    BY DEF FiniteSubsetsOf
  <2> QED
    BY <1>1, <1>2, <2>1 DEF StrictSubsetOrdering
<1> QED
  BY <1>2

\* A finite set of naturals without one of its elements is a smaller one.
LEMMA Smaller ==
    ASSUME NEW X \in FiniteSubsetsOf(Nat), NEW x \in X
    PROVE  /\ X \ {x} \in FiniteSubsetsOf(Nat) /\ x \in Nat
           /\ X \ {x} # X /\ X \ {x} \subseteq X
           /\ Cardinality(X \ {x}) \in Nat
           /\ Cardinality(X) = Cardinality(X \ {x}) + 1
<1>1. X \subseteq Nat /\ IsFiniteSet(X)
  BY DEF FiniteSubsetsOf
<1>2. IsFiniteSet(X \ {x}) /\ Cardinality(X \ {x}) = Cardinality(X) - 1
  BY <1>1, FS_RemoveElement
<1>3. Cardinality(X \ {x}) \in Nat /\ Cardinality(X) \in Nat
  BY <1>1, <1>2, FS_CardinalityType
<1> QED
  BY <1>1, <1>2, <1>3 DEF FiniteSubsetsOf

\* A finite set of naturals that is not empty has a greatest element.
LEMMA HasGreatest ==
    ASSUME NEW S \in FiniteSubsetsOf(Nat), S # {}
    PROVE  \E m \in S : \A x \in S : x <= m
<1> DEFINE T == {X \in FiniteSubsetsOf(Nat) : X # {} /\ ~ \E m \in X : \A x \in X : x <= m}
<1> SUFFICES ASSUME T # {} PROVE FALSE
  OBVIOUS
<1>1. T \in SUBSET FiniteSubsetsOf(Nat)
  OBVIOUS
<1>2. PICK X \in T : \A Y \in T : ~(Y \subseteq X /\ Y # X)
  <2> HIDE DEF T
  <2> QED
    BY <1>1, LeastSet
<1>3. PICK x : x \in X
  OBVIOUS
<1>4. X \in FiniteSubsetsOf(Nat) /\ X \subseteq Nat
  BY DEF FiniteSubsetsOf
<1>5. X \ {x} \notin T /\ X \ {x} \in FiniteSubsetsOf(Nat)
  BY <1>2, <1>3, <1>4, Smaller
<1>6. CASE X \ {x} = {}
  BY <1>3, <1>4, <1>6
<1>7. CASE X \ {x} # {}
  <2>1. PICK m \in X \ {x} : \A y \in X \ {x} : y <= m
    BY <1>5, <1>7
  <2>2. m \in Nat /\ x \in Nat
    BY <1>3, <1>4
  <2>3. CASE x <= m
    BY <1>3, <1>4, <2>1, <2>3
  <2>4. CASE m < x
    <3>1. \A y \in X : y <= x
      BY <1>4, <2>1, <2>2, <2>4
    <3> QED
      BY <1>3, <3>1
  <2> QED
    BY <2>2, <2>3, <2>4
<1> QED
  BY <1>6, <1>7

Sorts(f, S) ==
    /\ f \in [1 .. Cardinality(S) -> S]
    /\ \A j, k \in 1 .. Cardinality(S) : j < k => f[j] < f[k]

\* A finite set of naturals can be counted up.
LEMMA CountsUp ==
    ASSUME NEW S \in FiniteSubsetsOf(Nat)
    PROVE  \E f : Sorts(f, S)
<1> DEFINE T == {X \in FiniteSubsetsOf(Nat) : ~ \E f : Sorts(f, X)}
<1> SUFFICES ASSUME T # {} PROVE FALSE
  OBVIOUS
<1>1. T \in SUBSET FiniteSubsetsOf(Nat)
  OBVIOUS
<1>2. PICK X \in T : \A Y \in T : ~(Y \subseteq X /\ Y # X)
  <2> HIDE DEF T
  <2> QED
    BY <1>1, LeastSet
<1>3. X \in FiniteSubsetsOf(Nat) /\ X \subseteq Nat
  BY DEF FiniteSubsetsOf
<1>4. CASE X = {}
  <2>1. Cardinality(X) = 0
    BY <1>4, FS_EmptySet
  <2>2. Sorts([k \in 1..0 |-> 0], X)
    BY <2>1 DEF Sorts
  <2> QED
    BY <2>2
<1>5. CASE X # {}
  <2>1. PICK m \in X : \A x \in X : x <= m
    BY <1>3, <1>5, HasGreatest
  <2> DEFINE Y == X \ {m}
             n == Cardinality(Y)
  <2>2. /\ Y \in FiniteSubsetsOf(Nat) /\ Y # X /\ Y \subseteq X
        /\ n \in Nat /\ Cardinality(X) = n + 1
    BY <1>3, Smaller
  <2>3. Y \notin T
    BY <1>2, <2>2
  <2>4. PICK f : Sorts(f, Y)
    BY <2>2, <2>3
  <2> DEFINE g == [k \in 1 .. n + 1 |-> IF k <= n THEN f[k] ELSE m]
  <2>5. \A k \in 1 .. n : f[k] \in X /\ f[k] < m
    <3>1. f \in [1 .. n -> Y]
      BY <2>4 DEF Sorts
    <3> HIDE DEF n
    <3>2. SUFFICES ASSUME NEW k \in 1 .. n PROVE f[k] \in X /\ f[k] < m
      OBVIOUS
    <3>3. f[k] \in X /\ f[k] # m
      BY <3>1
    <3>4. f[k] \in Nat /\ m \in Nat /\ f[k] <= m
      BY <1>3, <2>1, <3>3
    <3> QED
      BY <3>3, <3>4
  <2>6. \A j, k \in 1 .. n : j < k => f[j] < f[k]
    BY <2>4 DEF Sorts
  <2>7. g \in [1 .. n + 1 -> X]
    BY <2>2, <2>5
  <2> HIDE DEF n
  <2>8. \A j, k \in 1 .. n + 1 : j < k => g[j] < g[k]
    BY <2>2, <2>5, <2>6
  <2>9. Sorts(g, X)
    BY <2>2, <2>7, <2>8 DEF Sorts
  <2> QED
    BY <2>9
<1> QED
  BY <1>4, <1>5

\* InOrder is a sequence of the elements of the set, one for each.
LEMMA InOrderProperties ==
    ASSUME NEW S \in FiniteSubsetsOf(Nat), NEW up \in BOOLEAN
    PROVE  InOrder(S, up) \in [1 .. Cardinality(S) -> S]
<1> DEFINE n == Cardinality(S)
<1>1. PICK f : Sorts(f, S)
  BY CountsUp
<1>2. n \in Nat /\ S \subseteq Nat
  BY FS_CardinalityType DEF FiniteSubsetsOf
<1> DEFINE g == [k \in 1 .. n |-> f[n + 1 - k]]
<1> HIDE DEF n
<1>3. f \in [1..n -> S] /\ \A j, k \in 1 .. n : j < k => f[j] < f[k]
  BY <1>1 DEF Sorts, n
<1>4. g \in [1 .. n -> S] /\ \A j, k \in 1 .. n : j < k => g[j] > g[k]
  <2>1. \A k \in 1 .. n : n + 1 - k \in 1 .. n
    BY <1>2
  <2>2. g \in [1 .. n -> S]
    BY <1>3, <2>1
  <2>3. ASSUME NEW j \in 1 .. n, NEW k \in 1 .. n, j < k PROVE g[j] > g[k]
    <3>1. n + 1 - k < n + 1 - j
      BY <1>2, <2>3
    <3>2. f[n + 1 - k] < f[n + 1 - j]
      BY <1>3, <2>1, <3>1
    <3>3. g[j] \in Nat /\ g[k] \in Nat
      BY <1>2, <2>2
    <3> QED
      BY <3>2, <3>3
  <2> QED
    BY <2>2, <2>3
<1>5. \E h \in [1 .. n -> S] :
         \A j, k \in 1 .. n : j < k => IF up THEN h[j] < h[k] ELSE h[j] > h[k]
  BY <1>3, <1>4
<1> QED
  BY <1>5 DEF InOrder, n

-----------------------------------------------------------------------------
(* A search. *)

\* Any items and any tabs are a finite set of naturals, no larger than all of them.
LEMMA SubsetsAreFinite ==
    /\ \A S \in SUBSET Items : S \in FiniteSubsetsOf(Nat) /\ Cardinality(S) \in 0..Cardinality(Items)
    /\ \A S \in SUBSET Tabs : S \in FiniteSubsetsOf(Nat) /\ Cardinality(S) \in 0..Cardinality(Tabs)
    /\ Cardinality(Items) \in Nat /\ Cardinality(Tabs) \in Nat
<1>1. ASSUME NEW T \in {Items, Tabs}, NEW S \in SUBSET T
      PROVE  /\ S \in FiniteSubsetsOf(Nat) /\ Cardinality(S) \in 0..Cardinality(T)
             /\ Cardinality(T) \in Nat
  <2>1. IsFiniteSet(T) /\ T \subseteq Nat
    BY <1>1, SearchAssumption
  <2>2. IsFiniteSet(S) /\ Cardinality(S) <= Cardinality(T)
    BY <2>1, FS_Subset
  <2>3. Cardinality(S) \in Nat /\ Cardinality(T) \in Nat
    BY <2>1, <2>2, FS_CardinalityType
  <2> QED
    BY <2>1, <2>2, <2>3 DEF FiniteSubsetsOf
<1> QED
  BY <1>1

\* What the active filters of a search let through, by some prices.
Passing(s, active, items, priced) ==
    {i \in items : \A x \in Filters : active[x] => Matches(x, s.data[x], i, priced)}

\* FilterItems changes only what was found, and nothing if the tab was only chosen.
OnlyFilters(s, f, passing) ==
    /\ f \in Searches
    /\ f.id = s.id /\ f.data = s.data /\ f.typed = s.typed
    /\ f.reason = s.reason /\ f.mode = s.mode /\ f.descending = s.descending
    /\ s.reason = "TabChanged" => f = s
    /\ s.reason # "TabChanged" => f.sorted = FALSE /\ f.items = passing

\* Search::FilterItems finds what the active filters let through.
LEMMA FilterItemsFacts ==
    ASSUME NEW s \in Searches, NEW active \in [Filters -> BOOLEAN],
           NEW items \in SUBSET Items, NEW tabs \in SUBSET Tabs, NEW priced
    PROVE  OnlyFilters(s, FilterItems(s, active, items, tabs, priced),
                       Passing(s, active, items, priced))
<1> DEFINE found == Passing(s, active, items, priced)
           listed == {TabOf[i] : i \in found} \cup (IF found = items THEN tabs ELSE {})
<1>1. found \in SUBSET Items /\ listed \in SUBSET Tabs
  BY SearchAssumption DEF Passing
<1>2. FilterItems(s, active, items, tabs, priced) =
        IF s.reason = "TabChanged" THEN s
        ELSE [s EXCEPT !.items = found, !.tabs = listed, !.sorted = FALSE]
  BY DEF FilterItems, Passing
<1> HIDE DEF found, listed
<1>3. [s EXCEPT !.items = found, !.tabs = listed, !.sorted = FALSE] \in Searches
  BY <1>1 DEF Searches
<1>4. FilterItems(s, active, items, tabs, priced) \in Searches
  BY <1>2, <1>3
<1> QED
  BY <1>2, <1>4 DEF Searches, found, OnlyFilters

\* Every row of a search stands for a tab or an item.
LEMMA RowsFacts ==
    ASSUME NEW s \in Searches, NEW row \in Rows(s)
    PROVE  /\ row \in AllRows /\ Thing(s, row) \in Things
           /\ row[2] > 0 => Thing(s, row)[2] \in Items
<1>1. PICK b \in 1 .. Len(Buckets(s)) :
         row \in {<<b, r>> : r \in 0 .. Len(BucketItems(s, Buckets(s)[b]))}
  BY DEF Rows
<1>2. Len(Buckets(s)) <= Cardinality(Tabs) + 1 /\ Len(Buckets(s)) \in Nat /\ Buckets(s)[b] \in Tabs \cup {0}
  <2>1. CASE s.mode = "ByTab"
    <3>1. s.tabs \in SUBSET Tabs
      BY DEF Searches
    <3>2. InOrder(s.tabs, TRUE) \in [1 .. Cardinality(s.tabs) -> s.tabs]
      BY <3>1, SubsetsAreFinite, InOrderProperties
    <3>3. Cardinality(s.tabs) \in 0..Cardinality(Tabs) /\ Cardinality(Tabs) \in Nat
      BY <3>1, SubsetsAreFinite
    <3>4. Buckets(s) \in [1 .. Cardinality(s.tabs) -> s.tabs]
      BY <2>1, <3>2 DEF Buckets
    <3>5. Len(Buckets(s)) = Cardinality(s.tabs)
      BY <3>3, <3>4
    <3> QED
      BY <1>1, <3>1, <3>3, <3>4, <3>5
  <2>2. CASE s.mode # "ByTab"
    BY <1>1, <2>2, SubsetsAreFinite DEF Buckets
  <2> QED
    BY <2>1, <2>2
<1> DEFINE t == Buckets(s)[b]
           inside == {i \in s.items : s.mode = "ByTab" => TabOf[i] = t}
<1>3. /\ BucketItems(s, t) \in [1 .. Cardinality(inside) -> inside]
      /\ Cardinality(inside) \in 0..Cardinality(Items) /\ Cardinality(Items) \in Nat
  <2>1. inside \in SUBSET Items /\ s.descending \in BOOLEAN
    BY DEF Searches
  <2>2. InOrder(inside, s.descending) \in [1 .. Cardinality(inside) -> inside]
    BY <2>1, SubsetsAreFinite, InOrderProperties
  <2> QED
    BY <2>1, <2>2, SubsetsAreFinite DEF BucketItems
<1>4. Len(BucketItems(s, t)) = Cardinality(inside)
  BY <1>3
<1>5. inside \subseteq Items
  BY DEF Searches
<1> HIDE DEF t, inside
<1>6. PICK r \in 0 .. Cardinality(inside) : row = <<b, r>>
  BY <1>1, <1>4 DEF t
<1>7. row[1] = b /\ row[2] = r
  BY <1>6
<1>8. row \in AllRows
  BY <1>2, <1>3, <1>6, SubsetsAreFinite DEF AllRows
<1>9. CASE r = 0
  <2>1. Thing(s, row) = TabThing(t)
    BY <1>7, <1>9 DEF Thing, t
  <2> QED
    BY <1>2, <1>7, <1>8, <1>9, <2>1 DEF Things, t
<1>10. CASE r # 0
  <2>1. Thing(s, row) = ItemThing(BucketItems(s, t)[r])
    BY <1>7, <1>10 DEF Thing, t
  <2>2. BucketItems(s, t)[r] \in Items
    BY <1>3, <1>5, <1>6, <1>10
  <2> QED
    BY <1>8, <2>1, <2>2 DEF Things, ItemThing
<1> QED
  BY <1>9, <1>10

-----------------------------------------------------------------------------
(* Windows, settled and on their way. *)

\* The types of the members, in the middle of a handler too: the text of a new tab is
\* not set at once.
Shapes ==
    [items: SUBSET Items, known: SUBSET Tabs,
     priced: SUBSET Items, repriced: SUBSET Items, boxes: Nat,
     form: [Filters -> BOOLEAN], active: [Filters -> BOOLEAN], wired: BOOLEAN,
     searches: Seq(Searches), current: Nat, at: Nat, bar: Seq(Nat \X Int),
     made: Nat, shown: Nat,
     selection: SUBSET AllRows, cursor: AllRows \cup {NoRow},
     item: Items \cup {NoItem}, panel: Things \cup {Empty},
     image: Urls \cup {Empty, Loading}, searching: BOOLEAN, updating: BOOLEAN]

\* Searches are told apart by their numbers.
Numbered(w) ==
    /\ \A n \in DOMAIN w.searches : w.searches[n].id \in 1 .. w.made
    /\ \A m, n \in DOMAIN w.searches : w.searches[m].id = w.searches[n].id => m = n

Named(w, n) == w.bar[n] = GetCaption(w.searches[n])

\* The filters of a search, and the form that will be its filters, are the user's.
Own(s) == \A f \in Filters \ Kept : s.data[f] => f \in s.typed
FormIsOwn(w) == \A f \in Filters \ Kept : w.form[f] => f \in Current(w).typed

\* What some of the filters of the current search let through.
LetThrough(w, kinds) ==
    {i \in w.items : \A f \in kinds : Matches(f, Current(w).data[f], i, w.priced)}

\* The current search lists what its filters let through, but for changed prices.
Filtered(w) ==
    w.boxes = 0 /\ Current(w).reason # "TabChanged" =>
        /\ Current(w).items \ w.repriced = LetThrough(w, Filters) \ w.repriced
        /\ Current(w).items \subseteq LetThrough(w, Filters \ {"priced"})

PanelTells(w) ==
    w.item # NoItem /\ ~w.updating =>
        w.panel = ItemThing(w.item) /\ w.image \in {Loading, Compared(w.item)}

\* What holds in the middle of a handler.
Listed(w) ==
    /\ w \in Shapes /\ Len(w.bar) = Len(w.searches)
    /\ Numbered(w) /\ PanelTells(w)
    /\ \A n \in DOMAIN w.searches : Own(w.searches[n])

\* Ready for ModelViewRefresh: the current search is that of the current tab, the
\* other tabs have their texts, and the form is the current search's.
Ready(w) ==
    /\ Listed(w)
    /\ w.current = w.at /\ w.at \in DOMAIN w.searches
    /\ \A n \in DOMAIN w.searches \ {w.at} : Named(w, n)
    /\ FormIsOwn(w)

\* Between two handlers,
Settled(w) ==
    /\ Ready(w) /\ Named(w, w.at)
    /\ w.shown = Current(w).id
    /\ Filtered(w)

\* and when the window has not heard of the items yet.
Unheard(w) == Ready(w) /\ Named(w, w.at) /\ w.shown = Current(w).id

WindowIInv == Settled(window) /\ fetching \subseteq Urls /\ cached \subseteq Urls

\* Parts of a window that a handler leaves alone.
SameStock(v, w) ==
    v.items = w.items /\ v.known = w.known /\ v.priced = w.priced /\ v.boxes = w.boxes
SameItems(v, w) ==
    /\ v.items = w.items /\ v.known = w.known /\ v.priced = w.priced
    /\ v.boxes = w.boxes /\ v.repriced = w.repriced
SameForm(v, w) ==
    v.form = w.form /\ v.active = w.active /\ v.wired = w.wired /\ v.searching = w.searching
SameList(v, w) ==
    /\ v.searches = w.searches /\ v.current = w.current /\ v.at = w.at
    /\ v.bar = w.bar /\ v.made = w.made
SameView(v, w) == v.shown = w.shown /\ v.selection = w.selection /\ v.cursor = w.cursor
SamePanel(v, w) ==
    v.item = w.item /\ v.panel = w.panel /\ v.image = w.image /\ v.updating = w.updating

\* The current item is the same, and the panel, or there is none any more.
PanelKept(v, w) == SamePanel(v, w) \/ v.item = NoItem

\* The text of a tab is the number of a search and a number of items.
LEMMA CaptionType ==
    ASSUME NEW s \in Searches
    PROVE  GetCaption(s) \in Nat \X (0 .. Cardinality(Items)) /\ GetCaption(s) \in Nat \X Int
<1>1. s.items \in SUBSET Items /\ s.id \in Nat
  BY DEF Searches
<1>2. Cardinality(s.items) \in 0 .. Cardinality(Items) /\ Cardinality(Items) \in Nat
  BY <1>1, SubsetsAreFinite
<1> QED
  BY <1>1, <1>2 DEF GetCaption

\* A panel that told of the current item still does.
LEMMA PanelStaysTold ==
    ASSUME NEW v \in Shapes, NEW w \in Shapes, PanelTells(w), PanelKept(v, w)
    PROVE  PanelTells(v)
  BY DEF PanelTells, PanelKept, SamePanel

\* There is a current search.
LEMMA CurrentIsASearch ==
    ASSUME NEW w \in Shapes, w.current \in DOMAIN w.searches
    PROVE  Current(w) \in Searches
<1>1. w.searches \in Seq(Searches)
  BY DEF Shapes
<1> QED
  BY <1>1, ElementOfSeq DEF Current

\* OnLayoutChanged selects the current item, or forgets it.
LEMMA LayoutFacts ==
    ASSUME NEW w \in Shapes, w.current \in DOMAIN w.searches
    PROVE  LET v == OnLayoutChanged(w)
           IN  /\ v \in Shapes
               /\ SameItems(v, w) /\ SameForm(v, w) /\ SameList(v, w) /\ PanelKept(v, w)
               /\ v.shown = w.shown
               /\ v.selection = IF w.item = NoItem THEN w.selection
                                ELSE index(Current(w), w.item)
<1> DEFINE places == index(Current(w), w.item)
           reset == [w EXCEPT !.selection = places, !.cursor = NoRow]
           gone == [[reset EXCEPT !.item = NoItem] EXCEPT !.panel = Empty, !.image = Empty]
<1>1. places \in SUBSET AllRows
  BY CurrentIsASearch, RowsFacts DEF index
<1>2. OnLayoutChanged(w) =
        IF w.item = NoItem THEN w ELSE IF places = {} THEN gone ELSE reset
  BY DEF OnLayoutChanged, ClearCurrentItem
<1> HIDE DEF places
<1>3. reset \in Shapes
  BY <1>1 DEF Shapes
<1>4. gone \in Shapes
  BY <1>3 DEF Shapes
<1>5. w \in Shapes
  OBVIOUS
<1>6. CASE w.item = NoItem
  BY <1>2, <1>6 DEF SameItems, SameForm, SameList, SamePanel, PanelKept
<1>7. CASE w.item # NoItem /\ places # {}
  <2>1. OnLayoutChanged(w) = reset
    BY <1>2, <1>7
  <2>2. /\ SameItems(reset, w) /\ SameForm(reset, w) /\ SameList(reset, w)
        /\ PanelKept(reset, w) /\ reset.shown = w.shown /\ reset.selection = places
    BY DEF SameItems, SameForm, SameList, SamePanel, PanelKept, Shapes
  <2> HIDE DEF reset
  <2> QED
    BY <1>3, <1>7, <2>1, <2>2 DEF places
<1>8. CASE w.item # NoItem /\ places = {}
  <2>1. OnLayoutChanged(w) = gone
    BY <1>2, <1>8
  <2>2. /\ SameItems(gone, w) /\ SameForm(gone, w) /\ SameList(gone, w)
        /\ PanelKept(gone, w) /\ gone.shown = w.shown /\ gone.selection = places
    BY DEF SameItems, SameForm, SameList, SamePanel, PanelKept, Shapes
  <2> HIDE DEF gone
  <2> QED
    BY <1>4, <1>8, <2>1, <2>2 DEF places
<1> QED
  BY <1>6, <1>7, <1>8

\* The current search as ModelViewRefresh leaves it, but for its order.
Found(w) ==
    FilterItems([Current(w) EXCEPT !.data = w.form], w.form, w.items, w.known, w.priced)

\* The current search has the form as its filters, and what they let through.
LEMMA FoundFacts ==
    ASSUME NEW w \in Shapes, w.current \in DOMAIN w.searches
    PROVE  /\ Found(w) \in Searches /\ [Found(w) EXCEPT !.sorted = TRUE] \in Searches
           /\ Found(w).id = Current(w).id /\ Found(w).data = w.form
           /\ Found(w).typed = Current(w).typed /\ Found(w).reason = Current(w).reason
           /\ Found(w).mode = Current(w).mode /\ Found(w).descending = Current(w).descending
           /\ Current(w).reason = "TabChanged" =>
                 Found(w).items = Current(w).items /\ Found(w).tabs = Current(w).tabs
           /\ Current(w).reason # "TabChanged" =>
                 /\ Found(w).sorted = FALSE
                 /\ Found(w).items = {i \in w.items : \A f \in Filters :
                                                 Matches(f, w.form[f], i, w.priced)}
<1> DEFINE read == [Current(w) EXCEPT !.data = w.form]
<1>1. /\ w.form \in [Filters -> BOOLEAN] /\ w.items \in SUBSET Items /\ w.known \in SUBSET Tabs
      /\ Current(w) \in Searches
  BY CurrentIsASearch DEF Shapes
<1>2. /\ read \in Searches /\ read.data = w.form /\ read.id = Current(w).id
      /\ read.typed = Current(w).typed /\ read.reason = Current(w).reason
      /\ read.mode = Current(w).mode /\ read.descending = Current(w).descending
      /\ read.items = Current(w).items /\ read.tabs = Current(w).tabs
  BY <1>1 DEF Searches
<1> HIDE DEF read
<1>3. Found(w) = FilterItems(read, w.form, w.items, w.known, w.priced)
  BY DEF Found, read
<1> DEFINE found == Found(w)
<1> HIDE DEF found
<1>4. OnlyFilters(read, found, Passing(read, w.form, w.items, w.priced))
  <2>1. found = FilterItems(read, w.form, w.items, w.known, w.priced)
    BY <1>3 DEF found
  <2>2. /\ w.form \in [Filters -> BOOLEAN] /\ w.items \in SUBSET Items
        /\ w.known \in SUBSET Tabs /\ read \in Searches
    BY <1>1, <1>2
  <2> QED
    BY <2>1, <2>2, FilterItemsFacts
<1>5. [found EXCEPT !.sorted = TRUE] \in Searches
  BY <1>4 DEF Searches, OnlyFilters
<1>6. Passing(read, w.form, w.items, w.priced)
        = {i \in w.items : \A f \in Filters : Matches(f, w.form[f], i, w.priced)}
  BY <1>2 DEF Matches, Passing
<1> QED
  BY <1>2, <1>4, <1>5, <1>6 DEF found, OnlyFilters

\* What ModelViewRefresh leaves selected: what the view of the same search had, if its
\* rows are the same or nobody cares, or the current item, or nothing.
Reselected(v, w) ==
    \/ v.selection = {}
    \/ w.item # NoItem /\ v.selection = index(Current(v), w.item)
    \/ /\ v.selection = w.selection /\ w.shown = Current(w).id
       /\ w.item = NoItem \/ Current(w).reason \in {"TabChanged", "TabCreated"}

\* ModelViewRefresh changes the current search, the text of the current tab, what is
\* active and selected, and nothing else.
LEMMA RefreshFacts ==
    ASSUME NEW w \in Shapes, w.current \in DOMAIN w.searches, w.at \in DOMAIN w.bar
    PROVE  LET v == ModelViewRefresh(w)
           IN  /\ v \in Shapes
               /\ SameStock(v, w) /\ v.repriced = {} /\ PanelKept(v, w)
               /\ v.form = w.form /\ v.made = w.made /\ v.current = w.current /\ v.at = w.at
               /\ v.searches = [w.searches EXCEPT ![w.current] =
                                    [Found(w) EXCEPT !.sorted = TRUE]]
               /\ v.bar = [w.bar EXCEPT ![w.at] = GetCaption(Found(w))]
               /\ v.shown = Current(w).id
               /\ Reselected(v, w)
<1> DEFINE c == w.current
           after == [Found(w) EXCEPT !.sorted = TRUE]
           kept == w.shown = Found(w).id
           selection == IF kept THEN w.selection ELSE {}
           cursor == IF kept THEN w.cursor ELSE NoRow
           viewed == [w EXCEPT !.active = w.form, !.repriced = {},
                               !.searches[c] = after,
                               !.shown = Found(w).id, !.selection = selection,
                               !.cursor = cursor]
           laid == Found(w).sorted \/ Found(w).reason = "TabCreated"
           sorted == IF laid THEN viewed ELSE OnLayoutChanged(viewed)
<1>1. ModelViewRefresh(w) = [sorted EXCEPT !.bar[w.at] = GetCaption(Found(w))]
  BY DEF ModelViewRefresh, Found
<1>2. /\ after \in Searches /\ Found(w) \in Searches /\ Found(w).id \in Nat
      /\ selection \in SUBSET AllRows /\ cursor \in AllRows \cup {NoRow}
      /\ [w.searches EXCEPT ![c] = after] \in Seq(Searches)
      /\ w.form \in [Filters -> BOOLEAN]
  <2>1. after \in Searches /\ Found(w) \in Searches
    BY FoundFacts
  <2>2. w.searches \in Seq(Searches)
    BY DEF Shapes
  <2>3. [w.searches EXCEPT ![c] = after] \in Seq(Searches)
    BY <2>1, <2>2, ExceptSeq
  <2> QED
    BY <2>1, <2>3 DEF Shapes, Searches
<1> HIDE DEF after, selection, cursor
<1>3. /\ viewed \in Shapes /\ SameStock(viewed, w) /\ SamePanel(viewed, w)
      /\ viewed.repriced = {} /\ viewed.form = w.form /\ viewed.made = w.made /\ viewed.current = c
      /\ viewed.at = w.at /\ viewed.searches = [w.searches EXCEPT ![c] = after]
      /\ viewed.bar = w.bar /\ viewed.shown = Found(w).id /\ viewed.selection = selection
  BY <1>2 DEF Shapes, SameStock, SamePanel
<1> HIDE DEF viewed
<1>4. viewed.current \in DOMAIN viewed.searches
  BY <1>3
<1>5. /\ sorted \in Shapes /\ SameStock(sorted, w) /\ PanelKept(sorted, w)
      /\ sorted.repriced = {} /\ sorted.form = w.form /\ sorted.made = w.made /\ sorted.current = c
      /\ sorted.at = w.at /\ sorted.searches = [w.searches EXCEPT ![c] = after]
      /\ sorted.bar = w.bar /\ sorted.shown = Found(w).id
  <2>1. CASE laid
    BY <1>3, <2>1 DEF PanelKept
  <2>2. CASE ~laid
    BY <1>3, <1>4, <2>2, LayoutFacts
       DEF SameItems, SameStock, SameList, SameForm, PanelKept, SamePanel
  <2> QED
    BY <2>1, <2>2
<1> DEFINE v == ModelViewRefresh(w)
<1>6. [w.bar EXCEPT ![w.at] = GetCaption(Found(w))] \in Seq(Nat \X Int)
  <2>1. w.bar \in Seq(Nat \X Int)
    BY DEF Shapes
  <2>2. GetCaption(Found(w)) \in Nat \X Int
    BY <1>2, CaptionType
  <2> QED
    BY <2>1, <2>2, ExceptSeq
<1>7. \/ sorted.selection = {}
      \/ w.item # NoItem /\ sorted.selection = index(Current(viewed), w.item)
      \/ sorted.selection = w.selection /\ kept /\ (w.item = NoItem \/ laid)
  <2>1. CASE laid
    BY <1>3, <2>1 DEF selection
  <2>2. CASE ~laid
    BY <1>3, <1>4, <2>2, LayoutFacts DEF SamePanel, selection
  <2> QED
    BY <2>1, <2>2
<1>8. laid => Current(w).reason \in {"TabChanged", "TabCreated"}
  BY FoundFacts
<1> HIDE DEF sorted, laid, kept
<1>9. /\ v \in Shapes /\ SameStock(v, w) /\ v.repriced = {} /\ PanelKept(v, w)
      /\ v.form = w.form /\ v.made = w.made /\ v.current = c
      /\ v.at = w.at /\ v.searches = [w.searches EXCEPT ![c] = after]
      /\ v.bar = [w.bar EXCEPT ![w.at] = GetCaption(Found(w))]
      /\ v.shown = Found(w).id /\ v.selection = sorted.selection
  <2> DEFINE texts == [w.bar EXCEPT ![w.at] = GetCaption(Found(w))]
  <2> HIDE DEF texts
  <2>1. v = [sorted EXCEPT !.bar = texts]
    BY <1>1, <1>5 DEF texts
  <2>2. texts \in Seq(Nat \X Int)
    BY <1>6 DEF texts
  <2>3. v \in Shapes
    BY <1>5, <2>1, <2>2 DEF Shapes
  <2>4. v.bar = texts
    BY <1>5, <2>1 DEF Shapes
  <2>5. /\ SameStock(v, w) /\ v.repriced = {} /\ PanelKept(v, w)
        /\ v.form = w.form /\ v.made = w.made /\ v.current = c
        /\ v.at = w.at /\ v.searches = [w.searches EXCEPT ![c] = after]
        /\ v.shown = Found(w).id /\ v.selection = sorted.selection
    BY <1>5, <2>1 DEF SameStock, PanelKept, SamePanel
  <2> QED
    BY <2>3, <2>4, <2>5 DEF texts
<1> HIDE DEF v
<1>10. Current(v) = Current(viewed)
  BY <1>3, <1>9 DEF Current
<1>11. kept => w.shown = Current(w).id
  BY FoundFacts DEF kept
<1>12. Found(w).id = Current(w).id
  BY FoundFacts
<1> QED
  BY <1>7, <1>8, <1>9, <1>10, <1>11, <1>12 DEF v, after, Reselected

\* Two searches that list the same rows.
SameFinds(s, t) ==
    s.mode = t.mode /\ s.descending = t.descending /\ s.items = t.items /\ s.tabs = t.tabs

\* Two searches that list the same have the same things in the same rows.
LEMMA SameRows ==
    ASSUME NEW s, NEW t, SameFinds(s, t)
    PROVE  /\ Rows(s) = Rows(t) /\ \A row : Thing(s, row) = Thing(t, row)
           /\ \A i : index(s, i) = index(t, i)
<1>1. Buckets(s) = Buckets(t)
  BY DEF SameFinds, Buckets
<1>2. \A k : BucketItems(s, k) = BucketItems(t, k)
  BY DEF SameFinds, BucketItems
<1>3. Rows(s) = Rows(t)
  BY <1>1, <1>2 DEF Rows
<1>4. \A row : Thing(s, row) = Thing(t, row)
  BY <1>1, <1>2 DEF Thing
<1>5. \A i : index(s, i) = index(t, i)
  BY <1>3, <1>4 DEF index, SameFinds
<1> QED
  BY <1>3, <1>4, <1>5

\* A search that is only brought to the front lists what it listed.
LEMMA FrontFacts ==
    ASSUME NEW w \in Shapes, w.current \in DOMAIN w.searches, w.at \in DOMAIN w.bar,
           Current(w).reason = "TabChanged"
    PROVE  SameFinds(Current(ModelViewRefresh(w)), Current(w))
<1> DEFINE v == ModelViewRefresh(w)
           after == [Found(w) EXCEPT !.sorted = TRUE]
<1>1. /\ v.current = w.current
      /\ v.searches = [w.searches EXCEPT ![w.current] = after]
  BY RefreshFacts
<1> HIDE DEF v
<1>2. Current(v) = after
  BY <1>1 DEF Current
<1>3. SameFinds(after, Current(w))
  BY FoundFacts DEF SameFinds, Searches
<1> QED
  BY <1>2, <1>3 DEF v

\* ModelViewRefresh keeps the searches apart, and their filters their own.
LEMMA RefreshLists ==
    ASSUME NEW w, Listed(w), FormIsOwn(w),
           w.current \in DOMAIN w.searches, w.at \in DOMAIN w.searches
    PROVE  LET v == ModelViewRefresh(w)
           IN  /\ Listed(v)
               /\ DOMAIN v.searches = DOMAIN w.searches /\ Len(v.searches) = Len(w.searches)
               /\ Current(v) = [Found(w) EXCEPT !.sorted = TRUE]
               /\ \A n \in DOMAIN w.searches \ {w.current} : v.searches[n] = w.searches[n]
               /\ \A n \in DOMAIN w.searches : v.searches[n].id = w.searches[n].id
<1> DEFINE v == ModelViewRefresh(w)
           after == [Found(w) EXCEPT !.sorted = TRUE]
           c == w.current
<1>1. /\ w \in Shapes /\ w.searches \in Seq(Searches) /\ w.bar \in Seq(Nat \X Int)
      /\ Len(w.bar) = Len(w.searches)
  BY DEF Listed, Shapes
<1>2. DOMAIN w.bar = DOMAIN w.searches /\ DOMAIN w.searches = 1 .. Len(w.searches)
      /\ DOMAIN w.bar = 1 .. Len(w.bar)
  BY <1>1
<1>3. /\ after \in Searches
      /\ after.id = Current(w).id /\ after.data = w.form /\ after.typed = Current(w).typed
  BY <1>1, FoundFacts DEF Searches
<1>4. /\ v \in Shapes /\ PanelKept(v, w) /\ v.made = w.made /\ v.current = c
      /\ v.searches = [w.searches EXCEPT ![c] = after]
      /\ v.bar = [w.bar EXCEPT ![w.at] = GetCaption(Found(w))]
  BY <1>1, <1>2, RefreshFacts
<1> HIDE DEF v, after
<1>5. /\ DOMAIN v.searches = DOMAIN w.searches /\ Len(v.searches) = Len(w.searches)
      /\ v.searches[c] = after /\ Current(v) = after
      /\ \A n \in DOMAIN w.searches \ {c} : v.searches[n] = w.searches[n]
      /\ \A n \in DOMAIN w.searches : v.searches[n].id = w.searches[n].id
  <2>1. v.searches \in Seq(Searches)
    BY <1>4 DEF Shapes
  <2>2. DOMAIN v.searches = DOMAIN w.searches /\ v.searches[c] = after
        /\ \A n \in DOMAIN w.searches \ {c} : v.searches[n] = w.searches[n]
    BY <1>1, <1>4
  <2>3. Len(v.searches) = Len(w.searches)
    BY <1>1, <2>1, <2>2
  <2>4. w.searches[c].id = after.id
    BY <1>1, <1>3 DEF Current
  <2>5. \A n \in DOMAIN w.searches : v.searches[n].id = w.searches[n].id
    BY <2>2, <2>4
  <2> QED
    BY <1>4, <2>2, <2>3, <2>5 DEF Current
<1>6. Len(v.bar) = Len(w.bar)
  <2>1. v.bar \in Seq(Nat \X Int)
    BY <1>4 DEF Shapes
  <2>2. DOMAIN v.bar = DOMAIN w.bar
    BY <1>1, <1>4
  <2> QED
    BY <1>1, <2>1, <2>2
<1>7. Numbered(v)
  BY <1>4, <1>5 DEF Listed, Numbered
<1>8. PanelTells(v)
  BY <1>1, <1>4, PanelStaysTold DEF Listed
<1>9. \A n \in DOMAIN v.searches : Own(v.searches[n])
  <2>1. Own(after)
    BY <1>3 DEF Own, FormIsOwn
  <2> QED
    BY <1>5, <2>1 DEF Listed
<1>10. Listed(v)
  BY <1>1, <1>4, <1>5, <1>6, <1>7, <1>8, <1>9 DEF Listed
<1> QED
  BY <1>5, <1>10 DEF v, after

\* After ModelViewRefresh the window is settled.
LEMMA RefreshSettles ==
    ASSUME NEW w, Ready(w)
    PROVE  Settled(ModelViewRefresh(w))
<1> DEFINE v == ModelViewRefresh(w)
           after == [Found(w) EXCEPT !.sorted = TRUE]
<1>1. /\ w \in Shapes /\ w.current \in DOMAIN w.searches /\ w.current = w.at
      /\ w.searches \in Seq(Searches) /\ w.bar \in Seq(Nat \X Int)
      /\ Len(w.bar) = Len(w.searches)
  BY DEF Ready, Listed, Shapes
<1>2. DOMAIN w.bar = DOMAIN w.searches /\ DOMAIN w.searches = 1 .. Len(w.searches)
      /\ DOMAIN w.bar = 1 .. Len(w.bar)
  BY <1>1
<1>3. /\ after \in Searches
      /\ after.id = Current(w).id /\ after.data = w.form /\ after.typed = Current(w).typed
      /\ after.reason = Current(w).reason /\ after.items = Found(w).items
  BY <1>1, FoundFacts DEF Searches
<1>4. /\ v \in Shapes
      /\ SameStock(v, w) /\ v.repriced = {} /\ PanelKept(v, w)
      /\ v.form = w.form /\ v.made = w.made /\ v.current = w.current /\ v.at = w.at
      /\ v.searches = [w.searches EXCEPT ![w.at] = after]
      /\ v.bar = [w.bar EXCEPT ![w.at] = GetCaption(Found(w))]
      /\ v.shown = Current(w).id
  BY <1>1, <1>2, RefreshFacts
<1> HIDE DEF v, after
<1>5. /\ Listed(v) /\ DOMAIN v.searches = DOMAIN w.searches
      /\ v.searches[w.at] = after /\ Current(v) = after
      /\ \A n \in DOMAIN w.searches \ {w.at} : v.searches[n] = w.searches[n]
  BY <1>1, <1>4, RefreshLists DEF Ready, v, after, Current
<1>6. /\ v.bar[w.at] = GetCaption(after)
      /\ \A n \in DOMAIN w.searches \ {w.at} : v.bar[n] = w.bar[n]
  <2>1. GetCaption(Found(w)) = GetCaption(after)
    BY <1>1, <1>3, FoundFacts DEF GetCaption
  <2> QED
    BY <1>1, <1>2, <1>4, <2>1
<1>7. \A n \in DOMAIN v.searches : Named(v, n)
  BY <1>5, <1>6 DEF Ready, Named
<1>8. FormIsOwn(v)
  BY <1>3, <1>4, <1>5 DEF FormIsOwn, Ready
<1>9. Filtered(v)
  <2>1. /\ v.items = w.items /\ v.priced = w.priced /\ Current(v).data = w.form
        /\ Current(v).items = Found(w).items /\ Current(v).reason = Current(w).reason
    BY <1>3, <1>4, <1>5 DEF SameStock
  <2>2. Current(w).reason # "TabChanged" =>
          Found(w).items = {i \in w.items : \A f \in Filters :
                                                Matches(f, w.form[f], i, w.priced)}
    BY <1>1, FoundFacts
  <2>3. {i \in w.items : \A f \in Filters : Matches(f, w.form[f], i, w.priced)}
          = LetThrough(v, Filters)
    BY <2>1 DEF LetThrough
  <2>4. LetThrough(v, Filters) \subseteq LetThrough(v, Filters \ {"priced"})
    BY DEF LetThrough
  <2> QED
    BY <1>4, <2>1, <2>2, <2>3, <2>4 DEF Filtered
<1>10. v.current = v.at /\ v.at \in DOMAIN v.searches /\ v.shown = Current(v).id
  BY <1>1, <1>3, <1>4, <1>5
<1> QED
  BY <1>5, <1>7, <1>8, <1>9, <1>10 DEF Settled, Ready, v

\* Another reason for the next FilterItems, and other members that are not the list's.
LEMMA ReasonFacts ==
    ASSUME NEW w \in Shapes, w.current \in DOMAIN w.searches, NEW reason \in Reasons
    PROVE  LET v == SetRefreshReason(w, reason)
               s == [Current(w) EXCEPT !.reason = reason]
           IN  /\ v \in Shapes /\ SameItems(v, w) /\ SameForm(v, w) /\ SameView(v, w)
               /\ SamePanel(v, w)
               /\ v.current = w.current /\ v.at = w.at /\ v.bar = w.bar /\ v.made = w.made
               /\ v.searches = [w.searches EXCEPT ![w.current] = s]
               /\ s \in Searches /\ Current(v) = s
<1> DEFINE s == [Current(w) EXCEPT !.reason = reason]
           list == [w.searches EXCEPT ![w.current] = s]
<1>1. w.searches \in Seq(Searches) /\ w.searches[w.current] \in Searches
  BY CurrentIsASearch DEF Shapes, Current
<1>2. s \in Searches
  BY <1>1 DEF Searches, Current
<1>3. list \in Seq(Searches) /\ list[w.current] = s
  BY <1>1, <1>2, ExceptSeq
<1>4. SetRefreshReason(w, reason) = [w EXCEPT !.searches = list]
  BY <1>1 DEF SetRefreshReason, Current, Shapes
<1> HIDE DEF s, list
<1>5. [w EXCEPT !.searches = list] \in Shapes
  BY <1>3 DEF Shapes
<1> DEFINE v == [w EXCEPT !.searches = list]
<1>6. /\ SameItems(v, w) /\ SameForm(v, w) /\ SameView(v, w) /\ SamePanel(v, w)
      /\ v.current = w.current /\ v.at = w.at /\ v.bar = w.bar /\ v.made = w.made
      /\ v.searches = list /\ Current(v) = s
  BY <1>3 DEF SameItems, SameForm, SameView, SamePanel, Shapes, Current
<1> QED
  BY <1>2, <1>4, <1>5, <1>6 DEF s, list

-----------------------------------------------------------------------------
(* Tabs. *)

\* A form with new contents changes nothing else but its timer.
LEMMA FormFacts ==
    ASSUME NEW w \in Shapes, NEW form \in [Filters -> BOOLEAN]
    PROVE  LET v == WithForm(w, form)
           IN  /\ v \in Shapes /\ SameItems(v, w) /\ SameList(v, w) /\ SameView(v, w)
               /\ SamePanel(v, w) /\ v.form = form
<1> DEFINE searching == w.searching \/ \E f \in Filters \cap Announcing : form[f] # w.form[f]
<1>1. searching \in BOOLEAN
  BY DEF Shapes
<1>2. WithForm(w, form) = [w EXCEPT !.form = form, !.searching = searching]
  BY DEF WithForm, Shapes
<1> HIDE DEF searching
<1>3. [w EXCEPT !.form = form, !.searching = searching] \in Shapes
  BY <1>1 DEF Shapes
<1> QED
  BY <1>2, <1>3 DEF SameItems, SameList, SameView, SamePanel, Shapes

Rewire(u, wired, active) == [u EXCEPT !.wired = wired, !.active = active]

\* The form's own members change nothing else.
LEMMA Rewired ==
    ASSUME NEW u \in Shapes, NEW wired \in BOOLEAN, NEW active \in [Filters -> BOOLEAN]
    PROVE  LET v == Rewire(u, wired, active)
           IN  /\ v \in Shapes /\ SameItems(v, u) /\ SameList(v, u) /\ SameView(v, u)
               /\ SamePanel(v, u) /\ v.form = u.form
<1>1. [u EXCEPT !.wired = wired, !.active = active] \in Shapes
  BY DEF Shapes
<1> QED
  BY <1>1 DEF Rewire, SameItems, SameList, SameView, SamePanel, Shapes

Enlist(u, made, bar, searches, current) ==
    [u EXCEPT !.made = made, !.bar = bar, !.searches = searches, !.current = current]

\* Another list of searches and tabs changes nothing else.
LEMMA Enlisted ==
    ASSUME NEW u \in Shapes, NEW made \in Nat, NEW bar \in Seq(Nat \X Int),
           NEW searches \in Seq(Searches), NEW current \in Nat
    PROVE  LET v == Enlist(u, made, bar, searches, current)
           IN  /\ v \in Shapes /\ SameItems(v, u) /\ SameForm(v, u) /\ SameView(v, u)
               /\ SamePanel(v, u) /\ v.at = u.at
               /\ v.made = made /\ v.bar = bar /\ v.searches = searches /\ v.current = current
<1>1. [u EXCEPT !.made = made, !.bar = bar, !.searches = searches,
                !.current = current] \in Shapes
  BY DEF Shapes
<1> QED
  BY <1>1 DEF Enlist, SameItems, SameForm, SameView, SamePanel, Shapes

\* ResetForm empties the form.
LEMMA ResetFormFacts ==
    ASSUME NEW w \in Shapes
    PROVE  LET v == ResetForm(w)
           IN  /\ v \in Shapes /\ SameItems(v, w) /\ SameList(v, w) /\ SameView(v, w)
               /\ SamePanel(v, w) /\ v.form = Blank
<1> DEFINE u == WithForm(w, Blank)
<1>1. Blank \in [Filters -> BOOLEAN]
  BY DEF Blank
<1>2. /\ u \in Shapes /\ SameItems(u, w) /\ SameList(u, w) /\ SameView(u, w)
      /\ SamePanel(u, w) /\ u.form = Blank
  BY <1>1, FormFacts
<1> HIDE DEF u
<1> DEFINE v == Rewire(u, TRUE, Blank)
<1>3. ResetForm(w) = v
  BY DEF ResetForm, Rewire, u
<1>4. /\ v \in Shapes /\ SameItems(v, u) /\ SameList(v, u) /\ SameView(v, u)
      /\ SamePanel(v, u) /\ v.form = u.form
  BY <1>1, <1>2, Rewired
<1> HIDE DEF v
<1>5. /\ SameItems(v, w) /\ SameList(v, w) /\ SameView(v, w) /\ SamePanel(v, w)
      /\ v.form = Blank
  BY <1>2, <1>4 DEF SameItems, SameList, SameView, SamePanel
<1> QED
  BY <1>3, <1>4, <1>5 DEF v

\* PutForm shows the data of a search in the form.
LEMMA PutFormFacts ==
    ASSUME NEW w \in Shapes, NEW s \in Searches
    PROVE  LET v == PutForm(w, s)
           IN  /\ v \in Shapes /\ SameItems(v, w) /\ SameList(v, w) /\ SameView(v, w)
               /\ SamePanel(v, w) /\ v.form = ToForm(w.form, s.data)
<1> DEFINE form == ToForm(w.form, s.data)
           u == WithForm(w, form)
           wired == "mods" \in Filters => ~s.data["mods"]
           active == [f \in Filters |-> f # "mods" /\ u.active[f]]
<1>1. w.form \in [Filters -> BOOLEAN] /\ s.data \in [Filters -> BOOLEAN]
  BY DEF Shapes, Searches
<1>2. form \in [Filters -> BOOLEAN]
  BY <1>1 DEF ToForm
<1> HIDE DEF form
<1>3. /\ u \in Shapes /\ SameItems(u, w) /\ SameList(u, w) /\ SameView(u, w)
      /\ SamePanel(u, w) /\ u.form = form
  BY <1>2, FormFacts
<1> HIDE DEF u
<1>4. wired \in BOOLEAN /\ active \in [Filters -> BOOLEAN]
  BY <1>3 DEF Shapes
<1>5. PutForm(w, s) = Rewire(u, wired, active)
  BY <1>3 DEF PutForm, Rewire, u, form, Shapes
<1> HIDE DEF wired, active
<1> DEFINE v == Rewire(u, wired, active)
<1>6. /\ v \in Shapes /\ SameItems(v, u) /\ SameList(v, u) /\ SameView(v, u)
      /\ SamePanel(v, u) /\ v.form = u.form
  BY <1>3, <1>4, Rewired
<1> HIDE DEF v
<1>7. /\ SameItems(v, w) /\ SameList(v, w) /\ SameView(v, w) /\ SamePanel(v, w)
      /\ v.form = form
  BY <1>3, <1>6 DEF SameItems, SameList, SameView, SamePanel
<1> QED
  BY <1>5, <1>6, <1>7 DEF v, form

\* The window NewSearch gives to ModelViewRefresh.
WithSearch(w) ==
    [ResetForm(w) EXCEPT !.made = w.made + 1,
                         !.bar = Append(@, <<w.made + 1, -1>>),
                         !.searches = Append(@, NewSearchNumber(w.made + 1)),
                         !.current = Len(w.searches) + 1]

\* A new search is the current one, at the end of the list.
LEMMA WithSearchFacts ==
    ASSUME NEW w \in Shapes
    PROVE  LET v == WithSearch(w)
           IN  /\ NewSearch(w) = ModelViewRefresh(v)
               /\ v \in Shapes /\ SameItems(v, w) /\ SameView(v, w) /\ SamePanel(v, w)
               /\ v.form = Blank /\ v.made = w.made + 1 /\ v.at = w.at
               /\ v.current = Len(w.searches) + 1
               /\ v.bar = Append(w.bar, <<w.made + 1, -1>>)
               /\ v.searches = Append(w.searches, NewSearchNumber(w.made + 1))
               /\ NewSearchNumber(w.made + 1) \in Searches
<1> DEFINE u == ResetForm(w)
           n == w.made + 1
           bar == Append(w.bar, <<n, -1>>)
           searches == Append(w.searches, NewSearchNumber(n))
           c == Len(w.searches) + 1
           v == Enlist(u, n, bar, searches, c)
<1>1. /\ u \in Shapes /\ SameItems(u, w) /\ SameList(u, w) /\ SameView(u, w)
      /\ SamePanel(u, w) /\ u.form = Blank
  BY ResetFormFacts
<1>2. /\ n \in Nat /\ c \in Nat
      /\ w.bar \in Seq(Nat \X Int) /\ w.searches \in Seq(Searches)
  BY DEF Shapes
<1>3. NewSearchNumber(n) \in Searches
  BY <1>2 DEF NewSearchNumber, Searches, Blank, Reasons
<1>4. bar \in Seq(Nat \X Int) /\ searches \in Seq(Searches)
  BY <1>2, <1>3, AppendProperties
<1>5. WithSearch(w) = v
  <2>1. u.bar = w.bar /\ u.searches = w.searches
    BY <1>1 DEF SameList
  <2> QED
    BY <1>1, <2>1 DEF WithSearch, Enlist, Shapes
<1>6. NewSearch(w) = ModelViewRefresh(WithSearch(w))
  BY DEF NewSearch, WithSearch
<1> HIDE DEF u, n, bar, searches, c
<1>7. /\ v \in Shapes /\ SameItems(v, u) /\ SameForm(v, u) /\ SameView(v, u)
      /\ SamePanel(v, u) /\ v.at = u.at
      /\ v.made = n /\ v.bar = bar /\ v.searches = searches
      /\ v.current = c
  <2>1. /\ u \in Shapes /\ n \in Nat /\ bar \in Seq(Nat \X Int)
        /\ searches \in Seq(Searches) /\ c \in Nat
    BY <1>1, <1>2, <1>4
  <2> QED
    BY <2>1, Enlisted
<1> HIDE DEF v
<1>8. /\ SameItems(v, w) /\ SameView(v, w) /\ SamePanel(v, w)
      /\ v.form = Blank /\ v.at = w.at
  BY <1>1, <1>7 DEF SameItems, SameForm, SameView, SameList, SamePanel
<1> QED
  BY <1>3, <1>5, <1>6, <1>7, <1>8 DEF bar, searches, n, c

\* A search made from a form that is empty has no filter but the user's.
LEMMA WithSearchListed ==
    ASSUME NEW w, Listed(w)
    PROVE  LET v == WithSearch(w)
           IN  /\ Listed(v) /\ FormIsOwn(v)
               /\ v.current \in DOMAIN v.searches /\ Len(v.searches) = Len(w.searches) + 1
               /\ \A n \in DOMAIN w.searches :
                     /\ v.searches[n] = w.searches[n] /\ v.bar[n] = w.bar[n]
                     /\ n \in DOMAIN v.searches
               /\ DOMAIN v.searches = DOMAIN w.searches \cup {v.current}
               /\ v.current \notin DOMAIN w.searches
               /\ Current(v).id = w.made + 1
<1> DEFINE v == WithSearch(w)
           s == NewSearchNumber(w.made + 1)
           c == Len(w.searches) + 1
<1>1. /\ w \in Shapes /\ w.searches \in Seq(Searches) /\ w.bar \in Seq(Nat \X Int)
      /\ w.made \in Nat /\ Len(w.bar) = Len(w.searches) /\ Len(w.searches) \in Nat
  BY DEF Listed, Shapes
<1>2. /\ v \in Shapes /\ SamePanel(v, w) /\ v.form = Blank /\ v.made = w.made + 1
      /\ v.current = c /\ v.bar = Append(w.bar, <<w.made + 1, -1>>)
      /\ v.searches = Append(w.searches, s) /\ s \in Searches
  BY <1>1, WithSearchFacts
<1> HIDE DEF v
<1>3. s.id = w.made + 1 /\ s.data = Blank
  BY DEF NewSearchNumber
<1> HIDE DEF s
<1>4. /\ Len(v.searches) = c /\ DOMAIN v.searches = 1 .. c
      /\ DOMAIN w.searches = 1 .. Len(w.searches)
      /\ v.searches[c] = s
      /\ \A n \in 1 .. Len(w.searches) : v.searches[n] = w.searches[n]
  BY <1>1, <1>2, AppendProperties
<1>5. Len(v.bar) = c /\ \A n \in 1 .. Len(w.searches) : v.bar[n] = w.bar[n]
  BY <1>1, <1>2, AppendProperties
<1>6. Numbered(v)
  <2>1. /\ \A n \in 1 .. Len(w.searches) : w.searches[n].id \in 1 .. w.made
        /\ \A m, n \in 1 .. Len(w.searches) :
               w.searches[m].id = w.searches[n].id => m = n
    BY <1>4 DEF Listed, Numbered
  <2>2. \A n \in 1 .. c : n = c \/ n \in 1 .. Len(w.searches)
    BY <1>1
  <2>3. \A n \in 1 .. c : v.searches[n].id = IF n = c THEN w.made + 1 ELSE w.searches[n].id
    BY <1>3, <1>4, <2>2
  <2>4. ASSUME NEW k \in 1 .. c, k # c
        PROVE  v.searches[k].id \in 1 .. w.made /\ v.searches[k].id = w.searches[k].id
    <3>1. k \in 1 .. Len(w.searches)
      BY <2>2, <2>4
    <3>2. w.searches[k].id \in 1 .. w.made
      BY <2>1, <3>1
    <3>3. v.searches[k].id = w.searches[k].id
      BY <2>3, <2>4
    <3> QED
      BY <3>2, <3>3
  <2>5. v.searches[c].id = w.made + 1 /\ w.made + 1 \notin 1 .. w.made
    BY <1>1, <1>3, <1>4
  <2>6. \A k \in 1 .. w.made : k \in 1 .. w.made + 1
    BY <1>1
  <2>7. \A n \in 1 .. c : v.searches[n].id \in 1 .. w.made + 1
    BY <1>1, <2>4, <2>5, <2>6
  <2>8. ASSUME NEW m \in 1 .. c, NEW n \in 1 .. c, v.searches[m].id = v.searches[n].id
        PROVE  m = n
    <3>1. CASE m # c /\ n # c
      BY <2>1, <2>2, <2>4, <2>8, <3>1
    <3>2. CASE m = c \/ n = c
      BY <2>4, <2>5, <2>8, <3>2
    <3> QED
      BY <3>1, <3>2
  <2> QED
    BY <1>2, <1>4, <2>7, <2>8 DEF Numbered
<1>7. PanelTells(v)
  BY <1>1, <1>2, PanelStaysTold DEF Listed, PanelKept
<1>8. Own(s)
  BY <1>3 DEF Own, Blank
<1>9. \A n \in DOMAIN v.searches : Own(v.searches[n])
  <2>1. \A n \in 1 .. c : n = c \/ n \in 1 .. Len(w.searches)
    BY <1>1
  <2>2. \A n \in 1 .. Len(w.searches) : Own(w.searches[n])
    BY <1>4 DEF Listed
  <2> QED
    BY <1>4, <1>8, <2>1, <2>2
<1>10. FormIsOwn(v)
  BY <1>2 DEF FormIsOwn, Blank
<1>11. Listed(v)
  BY <1>2, <1>4, <1>5, <1>6, <1>7, <1>9 DEF Listed
<1>12. DOMAIN v.searches = DOMAIN w.searches \cup {v.current} /\ v.current \notin DOMAIN w.searches
  BY <1>1, <1>2, <1>4
<1>13. Current(v).id = w.made + 1
  BY <1>2, <1>3, <1>4 DEF Current
<1> QED
  BY <1>1, <1>2, <1>4, <1>5, <1>10, <1>11, <1>12, <1>13 DEF v

\* The window at another tab, before and after its search is the current one.
At(w, n) == [w EXCEPT !.at = n]
Goto(w, n) == [At(w, n) EXCEPT !.current = n]

\* Going to another tab changes nothing else.
LEMMA Moved ==
    ASSUME NEW w \in Shapes, NEW n \in Nat
    PROVE  LET v == At(w, n)
               u == Goto(w, n)
           IN  /\ v \in Shapes /\ SameItems(v, w) /\ SameForm(v, w) /\ SameView(v, w)
               /\ SamePanel(v, w) /\ v.at = n /\ v.searches = w.searches
               /\ v.current = w.current /\ v.bar = w.bar /\ v.made = w.made
               /\ u \in Shapes /\ SameItems(u, w) /\ SameForm(u, w) /\ SameView(u, w)
               /\ SamePanel(u, w) /\ u.at = n /\ u.searches = w.searches
               /\ u.current = n /\ u.bar = w.bar /\ u.made = w.made
<1> DEFINE v == [w EXCEPT !.at = n]
<1>1. /\ v \in Shapes /\ SameItems(v, w) /\ SameForm(v, w) /\ SameView(v, w)
      /\ SamePanel(v, w) /\ v.at = n /\ v.searches = w.searches
      /\ v.current = w.current /\ v.bar = w.bar /\ v.made = w.made
  BY DEF SameItems, SameForm, SameView, SamePanel, Shapes
<1> HIDE DEF v
<1> DEFINE u == [v EXCEPT !.current = n]
<1>2. u \in Shapes
  BY <1>1 DEF Shapes
<1>3. /\ SameItems(u, v) /\ SameForm(u, v) /\ SameView(u, v) /\ SamePanel(u, v)
      /\ u.at = v.at /\ u.searches = v.searches
      /\ u.current = n /\ u.bar = v.bar /\ u.made = v.made
  BY <1>1 DEF SameItems, SameForm, SameView, SamePanel, Shapes
<1> HIDE DEF u
<1>4. /\ SameItems(u, w) /\ SameForm(u, w) /\ SameView(u, w) /\ SamePanel(u, w)
  BY <1>1, <1>3 DEF SameItems, SameForm, SameView, SamePanel
<1> QED
  BY <1>1, <1>2, <1>3, <1>4 DEF v, u, At, Goto

\* What stays selected when tab n is chosen and the view has the model of search id.
Carried(v, w, id) ==
    \/ v.selection = {}
    \/ w.item # NoItem /\ v.selection = index(Current(v), w.item)
    \/ v.selection = w.selection /\ w.shown = id

\* OnTabChange to the tab of a search settles the window.
LEMMA ChosenFacts ==
    ASSUME NEW w, Listed(w), NEW n \in DOMAIN w.searches,
           \A m \in DOMAIN w.searches \ {n} : Named(w, m)
    PROVE  LET v == OnTabChange(w, n)
           IN  /\ Settled(v) /\ PanelKept(v, w)
               /\ SameFinds(Current(v), w.searches[n])
               /\ Carried(v, w, w.searches[n].id)
<1> DEFINE u == Goto(w, n)
           chosen == SetRefreshReason(u, "TabChanged")
           s == [w.searches[n] EXCEPT !.reason = "TabChanged"]
           put == PutForm(chosen, s)
<1>1. /\ w \in Shapes /\ w.searches \in Seq(Searches) /\ n \in Nat
      /\ n \in 1 .. Len(w.searches) /\ n # Len(w.searches) + 1
      /\ DOMAIN w.searches = 1 .. Len(w.searches)
      /\ w.bar \in Seq(Nat \X Int) /\ Len(w.bar) = Len(w.searches)
      /\ DOMAIN w.bar = DOMAIN w.searches
  BY DEF Listed, Shapes
<1>2. OnTabChange(w, n) = ModelViewRefresh(PutForm(chosen, Current(chosen)))
  BY <1>1 DEF OnTabChange, Goto, At
<1>3. /\ u \in Shapes /\ SameItems(u, w) /\ SameForm(u, w) /\ SameView(u, w)
      /\ SamePanel(u, w) /\ u.at = n /\ u.searches = w.searches
      /\ u.current = n /\ u.bar = w.bar /\ u.made = w.made
  BY <1>1, Moved
<1> HIDE DEF u
<1>4. Current(u) = w.searches[n]
  BY <1>3 DEF Current
<1>5. /\ chosen \in Shapes /\ SameForm(chosen, u) /\ SameView(chosen, u)
      /\ SamePanel(chosen, u) /\ chosen.current = n /\ chosen.at = n
      /\ chosen.bar = w.bar /\ chosen.made = w.made
      /\ chosen.searches = [w.searches EXCEPT ![n] = s]
      /\ s \in Searches /\ Current(chosen) = s
  BY <1>3, <1>4, ReasonFacts DEF Reasons
<1>6. /\ s.id = w.searches[n].id /\ s.data = w.searches[n].data
      /\ s.typed = w.searches[n].typed /\ s.reason = "TabChanged"
      /\ SameFinds(s, w.searches[n])
  BY <1>1, <1>5 DEF Searches, SameFinds
<1> HIDE DEF chosen, s
<1>7. /\ put \in Shapes /\ SameList(put, chosen) /\ SameView(put, chosen)
      /\ SamePanel(put, chosen) /\ put.form = ToForm(chosen.form, s.data)
  BY <1>5, PutFormFacts
<1> HIDE DEF put
<1>8. /\ put.current = n /\ put.at = n /\ put.bar = w.bar /\ put.made = w.made
      /\ put.searches = [w.searches EXCEPT ![n] = s] /\ Current(put) = s
      /\ SamePanel(put, w) /\ SameView(put, w)
  BY <1>3, <1>5, <1>7 DEF SameList, SamePanel, SameView, Current
<1>9. /\ DOMAIN put.searches = DOMAIN w.searches
      /\ put.searches \in Seq(Searches) /\ Len(put.searches) = Len(w.searches)
      /\ \A m \in DOMAIN w.searches : /\ put.searches[m].id = w.searches[m].id
                                      /\ m # n => put.searches[m] = w.searches[m]
  BY <1>1, <1>5, <1>6, <1>8, ExceptSeq
<1>10. Own(s)
  BY <1>6 DEF Listed, Own
<1>11. Ready(put)
  <2>1. Numbered(put)
    BY <1>8, <1>9 DEF Listed, Numbered
  <2>2. PanelTells(put)
    BY <1>1, <1>7, <1>8, PanelStaysTold DEF Listed, PanelKept
  <2>3. \A m \in DOMAIN put.searches : Own(put.searches[m])
    BY <1>1, <1>8, <1>9, <1>10 DEF Listed
  <2>4. FormIsOwn(put)
    BY <1>7, <1>8, <1>10 DEF FormIsOwn, Own, ToForm
  <2>5. \A m \in DOMAIN put.searches \ {n} : Named(put, m)
    BY <1>8, <1>9 DEF Named
  <2>6. Len(put.bar) = Len(put.searches)
    BY <1>1, <1>8, <1>9
  <2> QED
    BY <1>7, <1>8, <1>9, <2>1, <2>2, <2>3, <2>4, <2>5, <2>6 DEF Ready, Listed
<1> DEFINE v == ModelViewRefresh(put)
<1>12. OnTabChange(w, n) = v
  BY <1>2, <1>5 DEF put
<1>13. PanelKept(v, put) /\ Reselected(v, put)
  BY <1>1, <1>7, <1>8, <1>9, RefreshFacts
<1>14. SameFinds(Current(v), s)
  BY <1>1, <1>7, <1>6, <1>8, <1>9, FrontFacts
<1>15. Settled(v)
  BY <1>11, RefreshSettles
<1> HIDE DEF v
<1>16. PanelKept(v, w)
  BY <1>8, <1>13 DEF PanelKept, SamePanel
<1>17. SameFinds(Current(v), w.searches[n])
  BY <1>6, <1>14 DEF SameFinds
<1>18. Carried(v, w, w.searches[n].id)
  BY <1>6, <1>8, <1>13 DEF Reselected, Carried, SamePanel, SameView
<1> QED
  BY <1>15, <1>16, <1>17, <1>18, <1>12 DEF v

\* OnTabChange to the last tab settles the window with a new search.
LEMMA AddedFacts ==
    ASSUME NEW w, Listed(w), \A m \in DOMAIN w.searches : Named(w, m)
    PROVE  LET v == OnTabChange(w, Len(w.searches) + 1)
           IN  Settled(v) /\ PanelKept(v, w) /\ Carried(v, w, w.made + 1)
<1> DEFINE n == Len(w.searches) + 1
           there == At(w, n)
           with == WithSearch(there)
           v == ModelViewRefresh(with)
<1>1. w \in Shapes /\ n \in Nat
  BY DEF Listed, Shapes
<1>2. /\ there \in Shapes /\ SameView(there, w) /\ SamePanel(there, w) /\ there.at = n
      /\ there.searches = w.searches /\ there.bar = w.bar /\ there.made = w.made
  BY <1>1, Moved
<1>3. OnTabChange(w, n) = NewSearch(there)
  BY DEF OnTabChange, At
<1> HIDE DEF there
<1>4. Listed(there)
  <2>1. PanelTells(there)
    BY <1>1, <1>2, PanelStaysTold DEF Listed, PanelKept
  <2> QED
    BY <1>2, <2>1 DEF Listed, Numbered
<1>5. /\ NewSearch(there) = v
      /\ with \in Shapes /\ SameView(with, there) /\ SamePanel(with, there)
      /\ with.at = n /\ with.current = n
  BY <1>1, <1>2, WithSearchFacts
<1>6. /\ Listed(with) /\ FormIsOwn(with) /\ n \in DOMAIN with.searches
      /\ \A m \in DOMAIN w.searches :
            with.searches[m] = w.searches[m] /\ with.bar[m] = w.bar[m]
      /\ DOMAIN with.searches = DOMAIN w.searches \cup {n}
      /\ Current(with).id = w.made + 1
  BY <1>2, <1>4, <1>5, WithSearchListed
<1> HIDE DEF with, n
<1>7. Ready(with)
  <2>1. \A m \in DOMAIN with.searches \ {n} : Named(with, m)
    BY <1>6 DEF Named
  <2> QED
    BY <1>5, <1>6, <2>1 DEF Ready
<1>8. with.current \in DOMAIN with.searches /\ with.at \in DOMAIN with.bar
  BY <1>5, <1>6 DEF Listed, Shapes
<1>9. PanelKept(v, with) /\ Reselected(v, with)
  BY <1>5, <1>8, RefreshFacts
<1>10. Settled(v)
  BY <1>7, RefreshSettles
<1> HIDE DEF v
<1>11. PanelKept(v, w) /\ Carried(v, w, w.made + 1)
  BY <1>2, <1>5, <1>6, <1>9 DEF PanelKept, SamePanel, SameView, Reselected, Carried
<1> QED
  BY <1>3, <1>5, <1>10, <1>11 DEF n

\* A sequence without its n-th element.
LEMMA RemoveAtFacts ==
    ASSUME NEW S, NEW s \in Seq(S), NEW n \in 1 .. Len(s)
    PROVE  /\ RemoveAt(s, n) \in Seq(S) /\ Len(RemoveAt(s, n)) = Len(s) - 1
           /\ DOMAIN RemoveAt(s, n) = 1 .. Len(s) - 1
           /\ \A k \in 1 .. Len(s) - 1 :
                 RemoveAt(s, n)[k] = IF k < n THEN s[k] ELSE s[k + 1]
<1> DEFINE front == SubSeq(s, 1, n - 1)
           right == SubSeq(s, n + 1, Len(s))
<1>1. Len(s) \in Nat /\ n \in Nat /\ \A k \in 1 .. Len(s) : s[k] \in S
  BY LenProperties, ElementOfSeq
<1>2. /\ front \in Seq(S) /\ Len(front) = n - 1
      /\ \A k \in 1 .. n - 1 : front[k] = s[k]
  <2>1. /\ front \in Seq(S) /\ Len(front) = IF 1 <= n - 1 THEN n - 1 - 1 + 1 ELSE 0
        /\ \A k \in 1 .. n - 1 - 1 + 1 : front[k] = s[1 + k - 1]
    <3>1. 1 \in Int /\ n - 1 \in Int /\ \A k \in 1 .. n - 1 : s[k] \in S
      BY <1>1
    <3> QED
      BY <3>1, SubSeqProperties
  <2> QED
    BY <1>1, <2>1
<1>3. /\ right \in Seq(S) /\ Len(right) = Len(s) - n
      /\ \A k \in 1 .. Len(s) - n : right[k] = s[k + n]
  <2>1. /\ right \in Seq(S)
        /\ Len(right) = IF n + 1 <= Len(s) THEN Len(s) - (n + 1) + 1 ELSE 0
        /\ \A k \in 1 .. Len(s) - (n + 1) + 1 : right[k] = s[n + 1 + k - 1]
    <3>1. n + 1 \in Int /\ Len(s) \in Int /\ \A k \in n + 1 .. Len(s) : s[k] \in S
      BY <1>1
    <3> QED
      BY <3>1, SubSeqProperties
  <2> QED
    BY <1>1, <2>1
<1> HIDE DEF front, right
<1>4. /\ front \o right \in Seq(S) /\ Len(front \o right) = Len(s) - 1
      /\ \A k \in 1 .. Len(s) - 1 :
            (front \o right)[k] = IF k <= n - 1 THEN front[k] ELSE right[k - (n - 1)]
  BY <1>1, <1>2, <1>3, ConcatProperties
<1>5. RemoveAt(s, n) = front \o right
  BY DEF RemoveAt, front, right
<1>6. ASSUME NEW k \in 1 .. Len(s) - 1
      PROVE  (front \o right)[k] = IF k < n THEN s[k] ELSE s[k + 1]
  <2>1. CASE k < n
    BY <1>1, <1>2, <1>4, <2>1
  <2>2. CASE ~(k < n)
    <3>1. k - (n - 1) \in 1 .. Len(s) - n /\ k - (n - 1) + n = k + 1
      BY <1>1, <2>2
    <3>2. right[k - (n - 1)] = s[k + 1]
      BY <1>3, <3>1
    <3> QED
      BY <1>1, <1>4, <2>2, <3>2
  <2> QED
    BY <2>1, <2>2
<1> QED
  BY <1>4, <1>5, <1>6, LenProperties

\* The window without the n-th search and the n-th tab.
Without(w, n, current) ==
    [w EXCEPT !.searches = RemoveAt(@, n), !.current = current, !.bar = RemoveAt(@, n)]

\* Where the k-th of the others was.
Before(k, n) == IF k < n THEN k ELSE k + 1

\* The other searches and tabs stay what they are, and stay together.
LEMMA WithoutFacts ==
    ASSUME NEW w, Listed(w), NEW n \in DOMAIN w.searches, NEW current \in Nat
    PROVE  LET v == Without(w, n, current)
           IN  /\ Listed(v) /\ SameItems(v, w) /\ SameForm(v, w) /\ SameView(v, w)
               /\ SamePanel(v, w) /\ v.at = w.at /\ v.current = current /\ v.made = w.made
               /\ DOMAIN v.searches = 1 .. Len(w.searches) - 1
               /\ Len(v.searches) = Len(w.searches) - 1
               /\ \A k \in DOMAIN v.searches :
                     /\ Before(k, n) \in DOMAIN w.searches \ {n}
                     /\ v.searches[k] = w.searches[Before(k, n)]
                     /\ v.bar[k] = w.bar[Before(k, n)]
<1> DEFINE searches == RemoveAt(w.searches, n)
           bar == RemoveAt(w.bar, n)
           v == Without(w, n, current)
           last == Len(w.searches)
<1>1. /\ w \in Shapes /\ w.searches \in Seq(Searches) /\ w.bar \in Seq(Nat \X Int)
      /\ last \in Nat /\ n \in 1 .. last /\ DOMAIN w.searches = 1 .. last
      /\ Len(w.bar) = last
  BY DEF Listed, Shapes
<1>2. /\ searches \in Seq(Searches) /\ Len(searches) = last - 1
      /\ DOMAIN searches = 1 .. last - 1
      /\ \A k \in 1 .. last - 1 : searches[k] = w.searches[Before(k, n)]
  <2>1. /\ searches \in Seq(Searches) /\ Len(searches) = last - 1
        /\ DOMAIN searches = 1 .. last - 1
        /\ \A k \in 1 .. last - 1 :
              searches[k] = IF k < n THEN w.searches[k] ELSE w.searches[k + 1]
    BY <1>1, RemoveAtFacts
  <2> QED
    BY <2>1 DEF Before
<1>3. /\ bar \in Seq(Nat \X Int) /\ Len(bar) = last - 1
      /\ \A k \in 1 .. last - 1 : bar[k] = w.bar[Before(k, n)]
  <2>1. /\ bar \in Seq(Nat \X Int) /\ Len(bar) = last - 1
        /\ \A k \in 1 .. last - 1 : bar[k] = IF k < n THEN w.bar[k] ELSE w.bar[k + 1]
    <3>1. w.bar \in Seq(Nat \X Int) /\ n \in 1 .. Len(w.bar)
      BY <1>1
    <3>2. /\ bar \in Seq(Nat \X Int) /\ Len(bar) = Len(w.bar) - 1
          /\ \A k \in 1 .. Len(w.bar) - 1 :
                bar[k] = IF k < n THEN w.bar[k] ELSE w.bar[k + 1]
      BY <3>1, RemoveAtFacts
    <3> QED
      BY <1>1, <3>2
  <2> QED
    BY <2>1 DEF Before
<1> HIDE DEF searches, bar
<1>4. v = Enlist(w, w.made, bar, searches, current)
  BY <1>1 DEF Without, Enlist, searches, bar, Shapes
<1>5. /\ v \in Shapes /\ SameItems(v, w) /\ SameForm(v, w) /\ SameView(v, w)
      /\ SamePanel(v, w) /\ v.at = w.at
      /\ v.made = w.made /\ v.bar = bar /\ v.searches = searches /\ v.current = current
  <2> DEFINE made == w.made
  <2>1. /\ w \in Shapes /\ made \in Nat /\ bar \in Seq(Nat \X Int)
        /\ searches \in Seq(Searches)
    BY <1>1, <1>2, <1>3 DEF Shapes
  <2>2. v = Enlist(w, made, bar, searches, current)
    BY <1>4
  <2> HIDE DEF v, last, made
  <2>3. /\ v \in Shapes /\ SameItems(v, w) /\ SameForm(v, w) /\ SameView(v, w)
        /\ SamePanel(v, w) /\ v.at = w.at
        /\ v.made = made /\ v.bar = bar /\ v.searches = searches /\ v.current = current
    BY <2>1, <2>2, Enlisted
  <2> QED
    BY <2>3 DEF made
<1> HIDE DEF v
<1>6. \A k \in 1 .. last - 1 : Before(k, n) \in DOMAIN w.searches \ {n}
  <2>1. SUFFICES ASSUME NEW k \in 1 .. last - 1
                 PROVE  Before(k, n) \in 1 .. last /\ Before(k, n) # n
    BY <1>1
  <2> HIDE DEF last
  <2>2. CASE k < n
    BY <1>1, <2>2, SMTT(30) DEF Before
  <2>3. CASE ~(k < n)
    BY <1>1, <2>3 DEF Before
  <2> QED
    BY <2>2, <2>3
<1>7. \A j, k \in 1 .. last - 1 : Before(j, n) = Before(k, n) => j = k
  <2>1. n \in Int
    BY <1>1
  <2>2. \A j, k \in Int : Before(j, n) = Before(k, n) => j = k
    BY <2>1 DEF Before
  <2> QED
    BY <1>1, <2>2
<1>8. Numbered(v)
  <2>1. \A k \in DOMAIN v.searches : v.searches[k].id \in 1 .. v.made
    BY <1>2, <1>5, <1>6 DEF Listed, Numbered
  <2>2. ASSUME NEW j \in DOMAIN v.searches, NEW k \in DOMAIN v.searches,
               v.searches[j].id = v.searches[k].id
        PROVE  j = k
    <3>1. w.searches[Before(j, n)].id = w.searches[Before(k, n)].id
      BY <1>2, <1>5, <2>2
    <3>2. Before(j, n) = Before(k, n)
      BY <1>2, <1>5, <1>6, <3>1 DEF Listed, Numbered
    <3> QED
      BY <1>2, <1>5, <1>7, <3>2
  <2> QED
    BY <2>1, <2>2 DEF Numbered
<1>9. PanelTells(v)
  BY <1>1, <1>5, PanelStaysTold DEF Listed, PanelKept
<1>10. \A k \in DOMAIN v.searches : Own(v.searches[k])
  BY <1>2, <1>5, <1>6 DEF Listed
<1>11. Listed(v)
  BY <1>2, <1>3, <1>5, <1>8, <1>9, <1>10 DEF Listed
<1> QED
  BY <1>2, <1>3, <1>5, <1>6, <1>11 DEF v

\* The selection was made by nobody but the user, and the current item is in it at most
\* in addition.
OnlyKept(v, w) ==
    w.item # NoItem => Selected(v) \subseteq Selected(w) \cup {ItemThing(w.item)}

\* Nothing selected, or the current item, or what was selected and with the same rows.
LEMMA SelectionFacts ==
    ASSUME NEW v, NEW w,
           \/ v.selection = {}
           \/ v.selection = index(Current(v), w.item)
           \/ v.selection = w.selection /\ SameFinds(Current(v), Current(w))
    PROVE  OnlyKept(v, w)
<1>1. CASE v.selection = {}
  BY <1>1 DEF OnlyKept, Selected
<1>2. CASE v.selection = index(Current(v), w.item)
  BY <1>2 DEF OnlyKept, Selected, index
<1>3. CASE v.selection = w.selection /\ SameFinds(Current(v), Current(w))
  <2>1. Rows(Current(v)) = Rows(Current(w))
        /\ \A row : Thing(Current(v), row) = Thing(Current(w), row)
    BY <1>3, SameRows
  <2>2. Selected(v) = Selected(w)
    BY <1>3, <2>1 DEF Selected
  <2> QED
    BY <2>2 DEF OnlyKept
<1> QED
  BY <1>1, <1>2, <1>3

\* What is carried to another tab was selected by the user, if the view is the same.
LEMMA CarriedIsKept ==
    ASSUME NEW v, NEW w, NEW id, Carried(v, w, id),
           w.shown = id => SameFinds(Current(v), Current(w))
    PROVE  OnlyKept(v, w)
  BY SelectionFacts DEF Carried

\* What the lemmas use of a window between two handlers.
LEMMA UnheardFacts ==
    ASSUME NEW w, Unheard(w)
    PROVE  /\ w \in Shapes /\ w.searches \in Seq(Searches) /\ Len(w.searches) \in Nat
           /\ DOMAIN w.searches = 1 .. Len(w.searches) /\ Listed(w) /\ w.made \in Nat
           /\ w.bar \in Seq(Nat \X Int) /\ Len(w.bar) = Len(w.searches)
           /\ DOMAIN w.bar = DOMAIN w.searches
           /\ w.at \in DOMAIN w.searches /\ w.current = w.at
           /\ Current(w) = w.searches[w.at] /\ Current(w) \in Searches
           /\ w.shown = w.searches[w.at].id /\ w.shown \in 1 .. w.made
           /\ \A m \in DOMAIN w.searches : Named(w, m)
<1>1. /\ w \in Shapes /\ w.searches \in Seq(Searches) /\ Len(w.searches) \in Nat
      /\ DOMAIN w.searches = 1 .. Len(w.searches) /\ Listed(w) /\ w.made \in Nat
      /\ w.bar \in Seq(Nat \X Int) /\ Len(w.bar) = Len(w.searches)
      /\ DOMAIN w.bar = DOMAIN w.searches
      /\ w.at \in DOMAIN w.searches /\ w.current = w.at
  BY DEF Unheard, Ready, Listed, Shapes
<1>2. Current(w) = w.searches[w.at] /\ Current(w) \in Searches
  BY <1>1, CurrentIsASearch DEF Current
<1>3. w.shown = w.searches[w.at].id /\ w.shown \in 1 .. w.made
  BY <1>1, <1>2 DEF Unheard, Listed, Numbered
<1>4. \A m \in DOMAIN w.searches : Named(w, m)
  BY DEF Unheard, Ready
<1> QED
  BY <1>1, <1>2, <1>3, <1>4

\* The same of a settled window.
LEMMA SettledFacts ==
    ASSUME NEW w, Settled(w)
    PROVE  /\ Unheard(w)
           /\ w \in Shapes /\ w.searches \in Seq(Searches) /\ Len(w.searches) \in Nat
           /\ DOMAIN w.searches = 1 .. Len(w.searches) /\ Listed(w) /\ w.made \in Nat
           /\ w.bar \in Seq(Nat \X Int) /\ Len(w.bar) = Len(w.searches)
           /\ DOMAIN w.bar = DOMAIN w.searches
           /\ w.at \in DOMAIN w.searches /\ w.current = w.at
           /\ Current(w) = w.searches[w.at] /\ Current(w) \in Searches
           /\ w.shown = w.searches[w.at].id /\ w.shown \in 1 .. w.made
           /\ \A m \in DOMAIN w.searches : Named(w, m)
<1>1. Unheard(w)
  BY DEF Unheard, Settled
<1> QED
  BY <1>1, UnheardFacts

\* A search that lists the same of the same items and prices is filtered as it was.
LEMMA FilteredStays ==
    ASSUME NEW v, NEW w, Filtered(w), SameItems(v, w),
           Current(v).data = Current(w).data, Current(v).items = Current(w).items,
           Current(v).reason = Current(w).reason
    PROVE  Filtered(v)
<1>1. \A kinds : LetThrough(v, kinds) = LetThrough(w, kinds)
  BY DEF LetThrough, SameItems
<1> QED
  BY <1>1 DEF Filtered, SameItems

\* OnTabChange keeps the window settled.
LEMMA TabFacts ==
    ASSUME NEW w, Settled(w), NEW n \in 1 .. Len(w.searches) + 1
    PROVE  Settled(OnTabChange(w, n)) /\ OnlyKept(OnTabChange(w, n), w)
<1> DEFINE v == OnTabChange(w, n)
<1>1. CASE n = Len(w.searches) + 1
  <2>1. Settled(v) /\ Carried(v, w, w.made + 1)
    BY <1>1, SettledFacts, AddedFacts
  <2>2. w.shown # w.made + 1
    BY SettledFacts
  <2> QED
    BY <2>1, <2>2, CarriedIsKept
<1>2. CASE n # Len(w.searches) + 1
  <2>1. n \in DOMAIN w.searches
    BY <1>2, SettledFacts
  <2>2. /\ Settled(v) /\ SameFinds(Current(v), w.searches[n])
        /\ Carried(v, w, w.searches[n].id)
    BY <2>1, SettledFacts, ChosenFacts
  <2>3. ASSUME w.shown = w.searches[n].id PROVE SameFinds(Current(v), Current(w))
    <3>1. n = w.at
      BY <2>1, <2>3, SettledFacts DEF Listed, Numbered
    <3> QED
      BY <2>2, <3>1, SettledFacts
  <2> QED
    BY <2>2, <2>3, CarriedIsKept
<1> QED
  BY <1>1, <1>2

\* One of several tabs is deleted.
LEMMA OneOfSeveral ==
    ASSUME NEW w, Settled(w), NEW n \in DOMAIN w.searches, Len(w.searches) > 1
    PROVE  Settled(OnDeleteTabClicked(w, n)) /\ OnlyKept(OnDeleteTabClicked(w, n), w)
<1> DEFINE current == CASE w.current = n -> 0
                        [] w.current > n -> w.current - 1
                        [] OTHER -> w.current
           rest == Without(w, n, current)
           v == OnDeleteTabClicked(w, n)
<1>1. /\ w.at \in 1 .. Len(w.searches) /\ w.current = w.at /\ n \in 1 .. Len(w.searches)
      /\ Len(w.searches) \in Nat /\ DOMAIN w.searches = 1 .. Len(w.searches)
      /\ w \in Shapes
  BY SettledFacts
<1>2. current \in Nat
  BY <1>1
<1>3. n > w.at => current = w.at
  BY <1>1
<1>4. v = IF n = w.at THEN OnTabChange(rest, IF n > 1 THEN n - 1 ELSE 1)
          ELSE IF n < w.at THEN OnTabChange(rest, w.at - 1) ELSE rest
  <2> DEFINE some == [w EXCEPT !.searches = RemoveAt(@, n), !.current = current]
  <2> DEFINE grown == IF Len(w.searches) = 1 THEN NewSearch(w) ELSE w
             fewer == [grown EXCEPT
                          !.searches = RemoveAt(@, n),
                          !.current = CASE grown.current = n -> 0
                                        [] grown.current > n -> grown.current - 1
                                        [] OTHER -> grown.current]
  <2>1. v = RemoveTab(fewer, n)
    BY DEF OnDeleteTabClicked
  <2>2. Len(w.searches) # 1
    <3> DEFINE last == Len(w.searches)
    <3>1. last \in Nat /\ last > 1
      BY <1>1
    <3> HIDE DEF last
    <3>2. last # 1
      BY <3>1
    <3> QED
      BY <3>2 DEF last
  <2>3. grown = w
    BY <2>2
  <2> HIDE DEF grown
  <2>4. fewer = some
    BY <2>3
  <2>5. v = RemoveTab(some, n)
    BY <2>1, <2>4
  <2> HIDE DEF current
  <2>6. some.at = w.at
    BY <1>1 DEF Shapes
  <2>7. [some EXCEPT !.bar = RemoveAt(@, n)] = rest
    BY <1>1 DEF Without, Shapes
  <2> HIDE DEF some, rest, v
  <2> QED
    BY <2>5, <2>6, <2>7 DEF RemoveTab
<1> HIDE DEF current
<1>5. /\ Listed(rest) /\ SameItems(rest, w) /\ SameForm(rest, w) /\ SameView(rest, w)
      /\ SamePanel(rest, w) /\ rest.at = w.at /\ rest.current = current
      /\ rest.made = w.made
      /\ DOMAIN rest.searches = 1 .. Len(w.searches) - 1
      /\ Len(rest.searches) = Len(w.searches) - 1
      /\ \A k \in DOMAIN rest.searches :
            /\ Before(k, n) \in DOMAIN w.searches \ {n}
            /\ rest.searches[k] = w.searches[Before(k, n)]
            /\ rest.bar[k] = w.bar[Before(k, n)]
  BY <1>2, SettledFacts, WithoutFacts
<1> HIDE DEF rest, v
<1>6. \A k \in DOMAIN rest.searches : Named(rest, k)
  BY <1>5, SettledFacts DEF Named
<1>7. CASE n > w.at
  <2>1. v = rest /\ current = w.at
    BY <1>1, <1>3, <1>4, <1>7
  <2>2. w.at \in DOMAIN rest.searches /\ Before(w.at, n) = w.at
    BY <1>1, <1>5, <1>7 DEF Before
  <2>3. Current(rest) = Current(w)
    BY <1>1, <1>5, <2>1, <2>2 DEF Current
  <2>4. FormIsOwn(rest) /\ Filtered(rest) /\ rest.shown = Current(rest).id
    BY <1>5, <2>3, FilteredStays DEF SameForm, SameView, Settled, Ready, FormIsOwn
  <2>5. Settled(rest)
    BY <1>5, <1>6, <2>1, <2>2, <2>4 DEF Settled, Ready
  <2>6. SameFinds(Current(rest), Current(w)) /\ rest.selection = w.selection
    BY <1>5, <2>3 DEF SameFinds, SameView
  <2> QED
    BY <2>1, <2>5, <2>6, SelectionFacts DEF v
<1>8. CASE n <= w.at
  <2>1. PICK k \in DOMAIN rest.searches : v = OnTabChange(rest, k)
    <3>1. CASE n = w.at
      <4> DEFINE k == IF n > 1 THEN n - 1 ELSE 1
      <4>1. k \in 1 .. Len(w.searches) - 1
        BY <1>1, <3>1
      <4>2. v = OnTabChange(rest, k)
        BY <1>4, <3>1
      <4> HIDE DEF k
      <4> QED
        BY <1>5, <4>1, <4>2
    <3>2. CASE n < w.at
      <4>1. w.at - 1 \in 1 .. Len(w.searches) - 1 /\ n # w.at
        BY <1>1, <3>2
      <4> QED
        BY <1>4, <1>5, <3>2, <4>1
    <3> QED
      BY <1>1, <1>8, <3>1, <3>2
  <2>2. /\ Settled(v) /\ SameFinds(Current(v), rest.searches[k])
        /\ Carried(v, rest, rest.searches[k].id)
    BY <1>5, <1>6, <2>1, ChosenFacts
  <2>3. Carried(v, w, rest.searches[k].id)
    BY <1>5, <2>2 DEF Carried, SamePanel, SameView
  <2>4. ASSUME w.shown = rest.searches[k].id PROVE SameFinds(Current(v), Current(w))
    <3> DEFINE m == Before(k, n)
    <3>1. m \in DOMAIN w.searches /\ rest.searches[k] = w.searches[m]
      BY <1>5
    <3> HIDE DEF m
    <3>2. /\ w.at \in DOMAIN w.searches /\ w.shown = w.searches[w.at].id /\ Numbered(w)
          /\ Current(w) = w.searches[w.at]
      BY SettledFacts DEF Listed
    <3>3. w.searches[m].id = w.searches[w.at].id
      BY <2>4, <3>1, <3>2
    <3>4. m = w.at
      BY <3>1, <3>2, <3>3 DEF Numbered
    <3> QED
      BY <2>2, <3>1, <3>2, <3>4
  <2> QED
    BY <2>2, <2>3, <2>4, CarriedIsKept DEF v
<1> QED
  BY <1>1, <1>7, <1>8

\* The only tab is deleted: a new search takes its place.
LEMMA TheOnlyOne ==
    ASSUME NEW w, Settled(w), Len(w.searches) = 1
    PROVE  Settled(OnDeleteTabClicked(w, 1)) /\ OnlyKept(OnDeleteTabClicked(w, 1), w)
<1> DEFINE with == WithSearch(w)
           some == NewSearch(w)
           rest == Without(some, 1, 1)
           v == OnDeleteTabClicked(w, 1)
<1>1. /\ w \in Shapes /\ w.at = 1 /\ DOMAIN w.searches = 1 .. 1 /\ Listed(w)
      /\ w.shown # w.made + 1
  BY SettledFacts
<1>2. /\ some = ModelViewRefresh(with) /\ with \in Shapes /\ SameView(with, w)
      /\ SamePanel(with, w) /\ with.at = 1 /\ with.current = 2
  <2>1. /\ some = ModelViewRefresh(with) /\ with \in Shapes /\ SameView(with, w)
        /\ SamePanel(with, w) /\ with.at = w.at /\ with.current = Len(w.searches) + 1
    BY <1>1, WithSearchFacts
  <2> HIDE DEF with, some
  <2> QED
    BY <1>1, <2>1
<1>3. /\ Listed(with) /\ FormIsOwn(with) /\ Len(with.searches) = 2
      /\ DOMAIN with.searches = 1 .. 2 /\ Current(with).id = w.made + 1
  <2>1. /\ Listed(with) /\ FormIsOwn(with) /\ Len(with.searches) = Len(w.searches) + 1
        /\ Current(with).id = w.made + 1
    BY <1>1, WithSearchListed
  <2>2. with.searches \in Seq(Searches)
    BY <1>2 DEF Shapes
  <2> HIDE DEF with
  <2>3. Len(with.searches) = 2
    BY <2>1
  <2> QED
    BY <2>1, <2>2, <2>3
<1>4. with.at \in DOMAIN with.bar
  BY <1>2, <1>3 DEF Shapes, Listed
<1> HIDE DEF with
<1>5. /\ some.current = 2 /\ some.at = 1 /\ PanelKept(some, with) /\ Reselected(some, with)
  <2>1. with.current \in DOMAIN with.searches
    BY <1>2, <1>3
  <2> HIDE DEF some
  <2> QED
    BY <1>2, <1>4, <2>1, RefreshFacts
<1>6. /\ Listed(some) /\ Len(some.searches) = 2 /\ DOMAIN some.searches = 1 .. 2
  BY <1>2, <1>3, RefreshLists
<1>7. v = OnTabChange(rest, 1)
  <2> DEFINE fewer == [some EXCEPT
                          !.searches = RemoveAt(@, 1),
                          !.current = CASE some.current = 1 -> 0
                                        [] some.current > 1 -> some.current - 1
                                        [] OTHER -> some.current]
             few == [some EXCEPT !.searches = RemoveAt(@, 1), !.current = 1]
  <2>1. v = RemoveTab(fewer, 1)
    BY DEF OnDeleteTabClicked
  <2> HIDE DEF some
  <2>2. fewer = few
    BY <1>5
  <2>3. some \in Shapes
    BY <1>6 DEF Listed
  <2>4. few.at = 1
    BY <1>5, <2>3 DEF Shapes
  <2>5. [few EXCEPT !.bar = RemoveAt(@, 1)] = rest
    BY <2>3 DEF Without, Shapes
  <2> HIDE DEF few, rest, fewer, v
  <2> QED
    BY <2>1, <2>2, <2>4, <2>5 DEF RemoveTab
<1> HIDE DEF some
<1>8. /\ Listed(rest) /\ SameView(rest, some) /\ SamePanel(rest, some)
      /\ DOMAIN rest.searches = 1 .. 1
      /\ rest.searches[1] = some.searches[Before(1, 1)]
  <2>1. 1 \in DOMAIN some.searches /\ 1 \in Nat
    BY <1>6
  <2>2. /\ Listed(rest) /\ SameView(rest, some) /\ SamePanel(rest, some)
        /\ DOMAIN rest.searches = 1 .. Len(some.searches) - 1
        /\ \A k \in DOMAIN rest.searches :
              rest.searches[k] = some.searches[Before(k, 1)]
    <3>1. Listed(some)
      BY <1>6
    <3> QED
      BY <2>1, <3>1, WithoutFacts
  <2> HIDE DEF rest
  <2>3. DOMAIN rest.searches = 1 .. 1
    BY <1>6, <2>2
  <2> QED
    BY <2>2, <2>3
<1>9. rest.searches[1] = Current(some)
  BY <1>5, <1>8 DEF Before, Current
<1> HIDE DEF rest
<1>10. /\ Settled(v) /\ SameFinds(Current(v), Current(some))
       /\ Carried(v, rest, rest.searches[1].id)
  BY <1>7, <1>8, <1>9, ChosenFacts
<1> HIDE DEF v
<1>11. OnlyKept(v, w)
  <2>1. SUFFICES ASSUME w.item # NoItem
                 PROVE  v.selection = {} \/ v.selection = index(Current(v), w.item)
    BY SelectionFacts DEF OnlyKept
  <2>2. some.item \in {w.item, NoItem} /\ rest.item = some.item
    BY <1>2, <1>5, <1>8 DEF PanelKept, SamePanel
  <2>3. some.selection = {} \/ some.selection = index(Current(some), w.item)
    BY <1>1, <1>2, <1>3, <1>5 DEF Reselected, SameView, SamePanel
  <2>4. index(Current(v), w.item) = index(Current(some), w.item)
    BY <1>10, SameRows
  <2> QED
    BY <1>8, <1>10, <2>2, <2>3, <2>4 DEF Carried, SameView
<1> QED
  BY <1>10, <1>11 DEF v

-----------------------------------------------------------------------------
(* The other handlers. *)

\* Settled does not depend on the selection, the timers or the choice of an item.
LEMMA StaysSettled ==
    ASSUME NEW w, Settled(w), NEW v \in Shapes, SameItems(v, w), SameList(v, w),
           v.form = w.form, v.shown = w.shown, PanelTells(v)
    PROVE  Settled(v) /\ Current(v) = Current(w)
<1>1. Current(v) = Current(w)
  BY DEF SameList, Current
<1>2. Listed(v)
  BY DEF Settled, Ready, Listed, SameList, Numbered
<1>3. Filtered(v)
  BY <1>1, FilteredStays DEF Settled
<1>4. Settled(v)
  BY <1>1, <1>2, <1>3 DEF Settled, Ready, Named, SameList, FormIsOwn
<1> QED
  BY <1>1, <1>4

\* Another search in the place of the current one, with the same number and items.
LEMMA Replaced ==
    ASSUME NEW w, Settled(w), NEW v \in Shapes, NEW s \in Searches,
           v.searches = [w.searches EXCEPT ![w.at] = s],
           v.current = w.current, v.at = w.at, v.bar = w.bar, v.made = w.made,
           s.id = Current(w).id, s.items = Current(w).items,
           Own(s), PanelKept(v, w),
           \A f \in Filters \ Kept : v.form[f] => f \in s.typed
    PROVE  /\ Ready(v) /\ Current(v) = s
           /\ v.shown = w.shown /\ SameItems(v, w) /\ s.data = Current(w).data
                 /\ s.reason = Current(w).reason
              => Settled(v)
<1>1. /\ v.searches \in Seq(Searches) /\ DOMAIN v.searches = DOMAIN w.searches
      /\ Len(v.searches) = Len(w.searches) /\ Len(v.bar) = Len(v.searches)
      /\ v.searches[w.at] = s /\ Current(v) = s
      /\ \A n \in DOMAIN w.searches \ {w.at} : v.searches[n] = w.searches[n]
      /\ \A n \in DOMAIN w.searches : v.searches[n].id = w.searches[n].id
  <2>1. /\ w.searches \in Seq(Searches) /\ w.at \in 1 .. Len(w.searches)
        /\ DOMAIN w.searches = 1 .. Len(w.searches) /\ Len(w.bar) = Len(w.searches)
        /\ w.current = w.at /\ s.id = w.searches[w.at].id
    BY SettledFacts
  <2>2. v.searches \in Seq(Searches)
    BY DEF Shapes
  <2>3. /\ DOMAIN v.searches = DOMAIN w.searches /\ v.searches[w.at] = s
        /\ \A n \in DOMAIN w.searches \ {w.at} : v.searches[n] = w.searches[n]
    BY <2>1
  <2>4. Len(v.searches) = Len(w.searches)
    BY <2>1, <2>2, <2>3
  <2>5. \A n \in DOMAIN w.searches : v.searches[n].id = w.searches[n].id
    BY <2>1, <2>3
  <2> QED
    BY <2>1, <2>2, <2>3, <2>4, <2>5 DEF Current
<1>2. \A n \in DOMAIN v.searches : Named(v, n)
  <2>1. Named(v, w.at)
    BY <1>1, SettledFacts DEF Named, GetCaption
  <2> QED
    BY <1>1, <2>1, SettledFacts DEF Named
<1>3. Numbered(v)
  BY <1>1, SettledFacts DEF Listed, Numbered
<1>4. PanelTells(v)
  BY SettledFacts, PanelStaysTold DEF Listed
<1>5. \A n \in DOMAIN v.searches : Own(v.searches[n])
  BY <1>1, SettledFacts DEF Listed
<1>6. v.current = v.at /\ v.at \in DOMAIN v.searches
  BY <1>1, SettledFacts
<1>7. FormIsOwn(v)
  BY <1>1 DEF FormIsOwn
<1>8. Ready(v)
  BY <1>1, <1>2, <1>3, <1>4, <1>5, <1>6, <1>7 DEF Ready, Listed
<1>9. ASSUME v.shown = w.shown, SameItems(v, w), s.data = Current(w).data,
             s.reason = Current(w).reason
      PROVE  Settled(v)
  <2>1. v.shown = Current(v).id
    BY <1>1, <1>9 DEF Settled
  <2>2. Filtered(v)
    BY <1>1, <1>9, FilteredStays DEF Settled
  <2> QED
    BY <1>2, <1>6, <1>8, <2>1, <2>2 DEF Settled
<1> QED
  BY <1>1, <1>8, <1>9

\* A search that was filtered again: nothing is selected but the current item.
LEMMA RefilteredFacts ==
    ASSUME NEW w, Ready(w), Current(w).reason \in {"SearchFormChanged", "ItemsChanged"}
    PROVE  LET v == ModelViewRefresh(w)
           IN  /\ Settled(v)
               /\ w.item # NoItem =>
                     v.selection = {} \/ v.selection = index(Current(v), w.item)
<1>1. /\ w \in Shapes /\ w.current \in DOMAIN w.searches /\ w.at \in DOMAIN w.bar
  BY DEF Ready, Listed, Shapes
<1>2. Reselected(ModelViewRefresh(w), w)
  BY <1>1, RefreshFacts
<1>3. Settled(ModelViewRefresh(w))
  BY RefreshSettles
<1> QED
  BY <1>2, <1>3 DEF Reselected

\* OnSearchFormChange filters again.
LEMMA FormChangeFacts ==
    ASSUME NEW w, Settled(w)
    PROVE  LET v == OnSearchFormChange(w)
           IN  /\ Settled(v)
               /\ w.item # NoItem =>
                     v.selection = {} \/ v.selection = index(Current(v), w.item)
<1> DEFINE u == SetRefreshReason(w, "SearchFormChanged")
           s == [Current(w) EXCEPT !.reason = "SearchFormChanged"]
<1>1. /\ w \in Shapes /\ w.current \in DOMAIN w.searches /\ w.current = w.at
      /\ Current(w) \in Searches /\ Current(w) = w.searches[w.at]
  BY SettledFacts
<1>2. /\ u \in Shapes /\ SameItems(u, w) /\ SameForm(u, w) /\ SameView(u, w)
      /\ SamePanel(u, w)
      /\ u.current = w.current /\ u.at = w.at /\ u.bar = w.bar /\ u.made = w.made
      /\ u.searches = [w.searches EXCEPT ![w.at] = s]
      /\ s \in Searches /\ Current(u) = s
  BY <1>1, ReasonFacts DEF Reasons
<1>3. /\ s.id = Current(w).id /\ s.items = Current(w).items
      /\ s.data = Current(w).data /\ s.typed = Current(w).typed
      /\ s.reason = "SearchFormChanged"
  BY <1>1 DEF Searches
<1> HIDE DEF u, s
<1>4. Own(s)
  BY <1>1, <1>3, SettledFacts DEF Listed, Own
<1>5. \A f \in Filters \ Kept : u.form[f] => f \in s.typed
  BY <1>2, <1>3 DEF Settled, Ready, FormIsOwn, SameForm
<1>6. PanelKept(u, w)
  BY <1>2 DEF PanelKept
<1>7. Ready(u)
  BY <1>2, <1>3, <1>4, <1>5, <1>6, Replaced
<1>8. OnSearchFormChange(w) = ModelViewRefresh(u) /\ u.item = w.item
  BY <1>2 DEF OnSearchFormChange, SamePanel, u
<1> QED
  BY <1>2, <1>3, <1>7, <1>8, RefilteredFacts

\* The window with filter f of the form filled or emptied.
Filled(w, f) ==
    [w EXCEPT !.form[f] = ~@,
              !.active[f] = IF f = "mods" THEN ~w.form[f] ELSE @,
              !.searches[w.current].typed = @ \cup {f}]

\* A change of the form by the user is a change of the user's own filters.
LEMMA FilledFacts ==
    ASSUME NEW w, Settled(w), NEW f \in Filters
    PROVE  LET v == Filled(w, f)
           IN  /\ Settled(v) /\ v.item = w.item /\ v.selection = w.selection
               /\ SameFinds(Current(v), Current(w))
<1> DEFINE form == [w.form EXCEPT ![f] = ~@]
           active == [w.active EXCEPT ![f] = IF f = "mods" THEN ~w.form[f] ELSE @]
           s == [Current(w) EXCEPT !.typed = @ \cup {f}]
           list == [w.searches EXCEPT ![w.at] = s]
           v == [w EXCEPT !.form = form, !.active = active, !.searches = list]
<1>1. /\ w \in Shapes /\ w.searches \in Seq(Searches) /\ w.current = w.at
      /\ w.at \in 1 .. Len(w.searches) /\ DOMAIN w.searches = 1 .. Len(w.searches)
      /\ Current(w) \in Searches /\ Current(w) = w.searches[w.at]
      /\ w.form \in [Filters -> BOOLEAN] /\ w.active \in [Filters -> BOOLEAN]
  BY SettledFacts DEF Shapes
<1>2. form \in [Filters -> BOOLEAN] /\ active \in [Filters -> BOOLEAN]
  BY <1>1
<1>3. /\ s \in Searches /\ s.id = Current(w).id /\ s.items = Current(w).items
      /\ s.data = Current(w).data /\ s.reason = Current(w).reason
      /\ s.typed = Current(w).typed \cup {f} /\ SameFinds(s, Current(w))
  BY <1>1 DEF Searches, SameFinds
<1>4. \A g \in Filters \ Kept : form[g] => g \in s.typed
  BY <1>1, <1>3 DEF Settled, Ready, FormIsOwn
<1>5. list \in Seq(Searches)
  BY <1>1, <1>3, ExceptSeq
<1>6. Filled(w, f) = v
  <2>1. [w.searches EXCEPT ![w.current].typed = @ \cup {f}] = list
    BY <1>1
  <2>2. Filled(w, f) = [w EXCEPT !.form = form, !.active = active,
                                 !.searches = [w.searches EXCEPT ![w.current].typed = @ \cup {f}]]
    BY <1>1 DEF Filled, Shapes
  <2> QED
    BY <2>1, <2>2
<1> HIDE DEF form, active, list
<1>7. v \in Shapes
  BY <1>1, <1>2, <1>5 DEF Shapes
<1>8. /\ SameItems(v, w) /\ SameView(v, w) /\ SamePanel(v, w)
      /\ v.form = form /\ v.searches = list
      /\ v.current = w.current /\ v.at = w.at /\ v.bar = w.bar /\ v.made = w.made
  BY <1>1 DEF SameItems, SameView, SamePanel, Shapes
<1> HIDE DEF v, s
<1>9. Own(s)
  BY <1>1, <1>3, SettledFacts DEF Listed, Own
<1>10. PanelKept(v, w)
  BY <1>8 DEF PanelKept
<1>11. Ready(v) /\ Current(v) = s /\ Settled(v)
  BY <1>3, <1>4, <1>7, <1>8, <1>9, <1>10, Replaced DEF list, SameView
<1> QED
  BY <1>3, <1>6, <1>8, <1>11 DEF SamePanel, SameView

\* The timer of the form changes nothing else.
LEMMA TimerFacts ==
    ASSUME NEW w, Settled(w), NEW on \in BOOLEAN
    PROVE  LET v == [w EXCEPT !.searching = on]
           IN  /\ Settled(v) /\ v.item = w.item /\ v.selection = w.selection
               /\ Current(v) = Current(w)
<1> DEFINE v == [w EXCEPT !.searching = on]
<1>1. w \in Shapes
  BY SettledFacts
<1>2. v \in Shapes
  BY <1>1 DEF Shapes
<1>3. /\ SameItems(v, w) /\ SameList(v, w) /\ SameView(v, w) /\ SamePanel(v, w)
      /\ v.form = w.form
  BY <1>1 DEF SameItems, SameList, SameView, SamePanel, Shapes
<1> HIDE DEF v
<1>4. PanelTells(v)
  BY <1>1, <1>2, <1>3, PanelStaysTold DEF Settled, Ready, Listed, PanelKept
<1>5. Settled(v) /\ Current(v) = Current(w)
  BY <1>2, <1>3, <1>4, StaysSettled DEF SameView
<1> QED
  BY <1>3, <1>5 DEF v, SamePanel, SameView

\* Each handler keeps the window settled and selects nothing but the current item.
LEMMA EditFacts ==
    ASSUME Settled(window), NEW f \in Filters, Edit(f)
    PROVE  Settled(window') /\ OnlyKept(window', window)
<1> DEFINE filled == Filled(window, f)
<1>1. window' = IF f \in Immediate THEN OnSearchFormChange(filled)
                ELSE [filled EXCEPT !.searching = TRUE]
  BY DEF Edit, Filled
<1>2. /\ Settled(filled) /\ filled.item = window.item /\ filled.selection = window.selection
      /\ SameFinds(Current(filled), Current(window))
  BY FilledFacts
<1> HIDE DEF filled
<1>3. CASE f \in Immediate
  <2>1. window' = OnSearchFormChange(filled)
    BY <1>1, <1>3
  <2>2. /\ Settled(window')
        /\ window.item # NoItem =>
              window'.selection = {} \/ window'.selection = index(Current(window'), window.item)
    BY <1>2, <2>1, FormChangeFacts
  <2> QED
    BY <2>2, SelectionFacts DEF OnlyKept
<1>4. CASE f \notin Immediate
  <2>1. window' = [filled EXCEPT !.searching = TRUE]
    BY <1>1, <1>4
  <2>2. /\ Settled(window') /\ window'.selection = window.selection
        /\ Current(window') = Current(filled)
    BY <1>2, <2>1, TimerFacts
  <2> QED
    BY <1>2, <2>2, SelectionFacts
<1> QED
  BY <1>3, <1>4

\* The same of the timer of the form,
LEMMA TimeoutFacts ==
    ASSUME Settled(window), SearchFormTimeout
    PROVE  Settled(window') /\ OnlyKept(window', window)
<1> DEFINE over == [window EXCEPT !.searching = FALSE]
<1>1. window' = OnSearchFormChange(over)
  BY DEF SearchFormTimeout
<1>2. Settled(over) /\ over.item = window.item
  BY TimerFacts
<1> HIDE DEF over
<1>3. /\ Settled(window')
      /\ window.item # NoItem =>
            window'.selection = {} \/ window'.selection = index(Current(window'), window.item)
  BY <1>1, <1>2, FormChangeFacts
<1> QED
  BY <1>3, SelectionFacts DEF OnlyKept

\* of choosing and deleting tabs,
LEMMA TabActionFacts ==
    ASSUME Settled(window), NEW n \in 1 .. Len(window.searches) + 1,
           ChooseTab(n) \/ DeleteTab(n)
    PROVE  Settled(window') /\ OnlyKept(window', window)
<1>1. CASE ChooseTab(n)
  <2>1. window' = OnTabChange(window, n)
    BY <1>1 DEF ChooseTab
  <2> QED
    BY <2>1, TabFacts
<1>2. CASE DeleteTab(n)
  <2>1. /\ window' = OnDeleteTabClicked(window, n) /\ n \in DOMAIN window.searches
        /\ n \in 1 .. Len(window.searches) /\ Len(window.searches) \in Nat
    BY <1>2, SettledFacts DEF DeleteTab
  <2>2. CASE Len(window.searches) = 1
    <3>1. n = 1
      BY <2>1, <2>2
    <3> QED
      BY <2>1, <2>2, <3>1, TheOnlyOne
  <2>3. CASE Len(window.searches) > 1
    BY <2>1, <2>3, OneOfSeveral
  <2>4. Len(window.searches) = 1 \/ Len(window.searches) > 1
    <3> DEFINE last == Len(window.searches)
    <3>1. last \in Nat /\ n \in 1 .. last
      BY <2>1
    <3> HIDE DEF last
    <3>2. last = 1 \/ last > 1
      BY <3>1
    <3> QED
      BY <3>2 DEF last
  <2> QED
    BY <2>2, <2>3, <2>4
<1> QED
  BY <1>1, <1>2

\* The window with another search in the place of the current one and another selection.
Revised(w, s, selection, cursor) ==
    [w EXCEPT !.searches = [w.searches EXCEPT ![w.at] = s],
              !.selection = selection, !.cursor = cursor]

\* Another order, mode or selection keeps the window settled.
LEMMA RevisedFacts ==
    ASSUME NEW w, Settled(w), NEW s \in Searches, NEW selection \in SUBSET AllRows,
           NEW cursor \in AllRows \cup {NoRow},
           s.id = Current(w).id, s.items = Current(w).items, s.data = Current(w).data,
           s.typed = Current(w).typed, s.reason = Current(w).reason
    PROVE  LET v == Revised(w, s, selection, cursor)
           IN  /\ Settled(v) /\ v.selection = selection /\ v.item = w.item
               /\ Current(v) = s
<1> DEFINE list == [w.searches EXCEPT ![w.at] = s]
           v == Revised(w, s, selection, cursor)
<1>1. /\ w \in Shapes /\ w.searches \in Seq(Searches) /\ w.at \in 1 .. Len(w.searches)
      /\ Current(w) = w.searches[w.at] /\ w.at \in DOMAIN w.searches
  BY SettledFacts
<1>2. list \in Seq(Searches)
  BY <1>1, ExceptSeq
<1> HIDE DEF list
<1>3. v = [w EXCEPT !.searches = list, !.selection = selection, !.cursor = cursor]
  BY DEF Revised, list
<1>4. v \in Shapes
  BY <1>1, <1>2, <1>3, ZenonT(60) DEF Shapes
<1>5. /\ SameItems(v, w) /\ SamePanel(v, w) /\ v.form = w.form /\ v.shown = w.shown
      /\ v.searches = list /\ v.selection = selection
      /\ v.current = w.current /\ v.at = w.at /\ v.bar = w.bar /\ v.made = w.made
  BY <1>1, <1>3 DEF SameItems, SamePanel, Shapes
<1> HIDE DEF v
<1>6. Own(s)
  BY <1>1, SettledFacts DEF Listed, Own
<1>7. PanelKept(v, w)
  BY <1>5 DEF PanelKept
<1>8. \A f \in Filters \ Kept : v.form[f] => f \in s.typed
  BY <1>5 DEF Settled, Ready, FormIsOwn
<1>9. Current(v) = s /\ Settled(v)
  BY <1>4, <1>5, <1>6, <1>7, <1>8, Replaced DEF list
<1> QED
  BY <1>5, <1>9 DEF v, SamePanel

\* of another mode,
LEMMA ModeFacts ==
    ASSUME Settled(window), NEW mode \in {"ByTab", "ByItem"}, ChooseMode(mode)
    PROVE  Settled(window') /\ OnlyKept(window', window)
<1> DEFINE s == SetViewMode(Current(window), mode)
<1>1. /\ window \in Shapes /\ Current(window) \in Searches /\ window.current = window.at
      /\ Current(window) = window.searches[window.at]
      /\ window.at \in DOMAIN window.searches
  BY SettledFacts
<1>2. /\ s \in Searches /\ s.id = Current(window).id /\ s.items = Current(window).items
      /\ s.data = Current(window).data /\ s.typed = Current(window).typed
      /\ s.reason = Current(window).reason
  BY <1>1 DEF SetViewMode, Searches
<1>3. window' = Revised(window, s, {}, NoRow)
  BY <1>1 DEF ChooseMode, Revised, Shapes
<1> HIDE DEF s
<1>4. Settled(window') /\ window'.selection = {}
  BY <1>2, <1>3, RevisedFacts
<1> QED
  BY <1>4, SelectionFacts

\* of another order,
LEMMA OrderFacts ==
    ASSUME Settled(window), ChooseOrder
    PROVE  Settled(window') /\ OnlyKept(window', window)
<1> DEFINE s == Reordered(Current(window))
           u == Revised(window, s, window.selection, window.cursor)
<1>1. /\ window \in Shapes /\ Current(window) \in Searches /\ window.current = window.at
      /\ Current(window) = window.searches[window.at]
      /\ window.at \in DOMAIN window.searches
      /\ window.selection \in SUBSET AllRows /\ window.cursor \in AllRows \cup {NoRow}
  BY SettledFacts DEF Shapes
<1>2. /\ s \in Searches /\ s.id = Current(window).id /\ s.items = Current(window).items
      /\ s.data = Current(window).data /\ s.typed = Current(window).typed
      /\ s.reason = Current(window).reason
  BY <1>1 DEF Reordered, Searches
<1>3. window' = OnLayoutChanged(u)
  <2> DEFINE list == [window.searches EXCEPT ![window.current] = s]
             kept == [window EXCEPT !.searches = list]
             same == [window EXCEPT !.searches = list, !.selection = window.selection,
                                    !.cursor = window.cursor]
  <2>1. [window EXCEPT !.searches[window.current] = Reordered(@)] = kept
    BY <1>1 DEF Shapes
  <2>2. u = same
    BY <1>1 DEF Revised
  <2> HIDE DEF list, s, u
  <2>3. kept = same
    BY <1>1 DEF Shapes
  <2>4. [window EXCEPT !.searches[window.current] = Reordered(@)] = u
    BY <2>1, <2>2, <2>3
  <2> QED
    BY <2>4 DEF ChooseOrder
<1> HIDE DEF s
<1>4. Settled(u) /\ u.item = window.item /\ Current(u) = s
  BY <1>1, <1>2, RevisedFacts
<1> HIDE DEF u
<1> DEFINE v == OnLayoutChanged(u)
<1>5. /\ u \in Shapes /\ u.current \in DOMAIN u.searches
  BY <1>4, SettledFacts
<1>6. /\ v \in Shapes
      /\ SameItems(v, u) /\ SameForm(v, u) /\ SameList(v, u) /\ PanelKept(v, u)
      /\ v.shown = u.shown
      /\ v.selection = IF u.item = NoItem THEN u.selection ELSE index(Current(u), u.item)
  BY <1>5, LayoutFacts
<1> HIDE DEF v
<1>7. PanelTells(v)
  BY <1>4, <1>5, <1>6, PanelStaysTold DEF Settled, Ready, Listed
<1>8. Settled(v) /\ Current(v) = Current(u)
  BY <1>4, <1>6, <1>7, StaysSettled DEF SameForm
<1>9. OnlyKept(v, window)
  BY <1>4, <1>6, <1>8, SelectionFacts DEF OnlyKept
<1> QED
  BY <1>3, <1>8, <1>9 DEF v

\* of the user's choice of a row, which may select anything,
LEMMA RowFacts ==
    ASSUME Settled(window), NEW row \in AllRows, ChooseRow(row)
    PROVE  Settled(window')
<1>1. /\ window \in Shapes /\ Current(window) \in Searches
      /\ window.selection \in SUBSET AllRows
  BY SettledFacts DEF Shapes
<1>2. row \in Rows(Current(window))
  BY DEF ChooseRow
<1>3. PICK chosen \in {{row}, window.selection \cup {row}, window.selection \ {row},
                       window.selection} :
         LET there == [window EXCEPT !.selection = chosen, !.cursor = row]
         IN  window' = IF row = window.cursor THEN there
                       ELSE OnCurrentItemChanged(there, row)
  BY DEF ChooseRow
<1> DEFINE there == [window EXCEPT !.selection = chosen, !.cursor = row]
           thing == Thing(Current(window), row)
           onItem == [there EXCEPT !.item = thing[2], !.updating = TRUE]
           onTab == [there EXCEPT !.item = NoItem, !.panel = thing, !.image = Empty]
<1>4. there \in Shapes
  BY <1>1, <1>3 DEF Shapes
<1>5. /\ SameItems(there, window) /\ SameList(there, window) /\ SamePanel(there, window)
      /\ there.form = window.form /\ there.shown = window.shown
  BY <1>1 DEF SameItems, SameList, SamePanel, Shapes
<1>6. window' = IF row = window.cursor THEN there
                ELSE IF row[2] > 0 THEN onItem ELSE onTab
  <2>1. Current(there) = Current(window)
    BY <1>5 DEF SameList, Current
  <2>2. OnCurrentItemChanged(there, row) = IF row[2] > 0 THEN onItem ELSE onTab
    BY <2>1 DEF OnCurrentItemChanged
  <2> QED
    BY <1>3, <2>2
<1> HIDE DEF there
<1>7. thing \in Things /\ (row[2] > 0 => thing[2] \in Items)
  BY <1>1, <1>2, RowsFacts
<1> HIDE DEF thing
<1>8. PanelTells(there)
  BY <1>1, <1>4, <1>5, PanelStaysTold DEF Settled, Ready, Listed, PanelKept
<1>9. CASE window' = there
  BY <1>4, <1>5, <1>8, <1>9, StaysSettled
<1>10. CASE row[2] > 0 /\ window' = onItem
  <2>1. onItem \in Shapes
    BY <1>4, <1>7, <1>10 DEF Shapes
  <2>2. /\ SameItems(onItem, window) /\ SameList(onItem, window)
        /\ onItem.form = window.form /\ onItem.shown = window.shown
    BY <1>4, <1>5 DEF SameItems, SameList, Shapes
  <2>3. PanelTells(onItem)
    BY <1>4 DEF PanelTells, Shapes
  <2> HIDE DEF onItem
  <2> QED
    BY <1>10, <2>1, <2>2, <2>3, StaysSettled
<1>11. CASE ~(row[2] > 0) /\ window' = onTab
  <2>1. onTab \in Shapes
    BY <1>4, <1>7 DEF Shapes
  <2>2. /\ SameItems(onTab, window) /\ SameList(onTab, window)
        /\ onTab.form = window.form /\ onTab.shown = window.shown
    BY <1>4, <1>5 DEF SameItems, SameList, Shapes
  <2>3. PanelTells(onTab)
    BY <1>4 DEF PanelTells, Shapes
  <2> HIDE DEF onTab
  <2> QED
    BY <1>11, <2>1, <2>2, <2>3, StaysSettled
<1> QED
  BY <1>6, <1>9, <1>10, <1>11

\* The panel with another thing or image.
Shown(w, panel, image, updating) ==
    [w EXCEPT !.panel = panel, !.image = image, !.updating = updating]

\* A panel that tells of the current item, with its image or none yet, is settled.
LEMMA ShownFacts ==
    ASSUME NEW w, Settled(w), NEW panel \in Things \cup {Empty},
           NEW image \in Urls \cup {Empty, Loading}, NEW updating \in BOOLEAN,
           w.item # NoItem /\ ~updating =>
               panel = ItemThing(w.item) /\ image \in {Loading, Compared(w.item)}
    PROVE  Settled(Shown(w, panel, image, updating))
           /\ OnlyKept(Shown(w, panel, image, updating), w)
<1> DEFINE v == Shown(w, panel, image, updating)
<1>1. w \in Shapes
  BY SettledFacts
<1>2. v \in Shapes
  BY <1>1, ZenonT(60) DEF Shown, Shapes
<1>3. /\ SameItems(v, w) /\ SameList(v, w) /\ SameView(v, w) /\ v.form = w.form
      /\ v.item = w.item /\ v.panel = panel /\ v.image = image /\ v.updating = updating
  BY <1>1 DEF Shown, SameItems, SameList, SameView, Shapes
<1> HIDE DEF v
<1>4. PanelTells(v)
  BY <1>3 DEF PanelTells
<1>5. Settled(v) /\ Current(v) = Current(w)
  BY <1>2, <1>3, <1>4, StaysSettled DEF SameView
<1>6. OnlyKept(v, w)
  BY <1>3, <1>5, SelectionFacts DEF SameFinds, SameView
<1> QED
  BY <1>5, <1>6 DEF v

\* of the panel that catches up,
LEMMA UpdateFacts ==
    ASSUME WindowIInv, UpdateCurrentItem
    PROVE  WindowIInv' /\ OnlyKept(window', window)
<1> DEFINE url == Requested(window.item)
           told == Shown(window, ItemThing(window.item), Loading, FALSE)
           gone == Shown(window, Empty, Empty, FALSE)
           image == IF url = Compared(window.item) THEN url ELSE Loading
           seen == Shown(window, ItemThing(window.item), image, FALSE)
<1>1. Settled(window) /\ window \in Shapes /\ window.item \in Items \cup {NoItem}
      /\ window.updating \in BOOLEAN
  BY SettledFacts DEF WindowIInv, Shapes
<1>2. ASSUME window.item # NoItem
      PROVE  url \in Urls /\ ItemThing(window.item) \in Things
  BY <1>1, <1>2 DEF Urls, Things
<1>3. CASE window.item = NoItem /\ window' = ClearCurrentItem([window EXCEPT !.updating = FALSE])
           /\ NoImages
  <2>1. window' = gone
    BY <1>1, <1>3 DEF ClearCurrentItem, Shown, Shapes
  <2>2. Settled(gone) /\ OnlyKept(gone, window)
    BY <1>1, <1>3, ShownFacts
  <2> QED
    BY <1>3, <2>1, <2>2 DEF WindowIInv, NoImages
<1>4. ASSUME window.item # NoItem
      PROVE  /\ [[window EXCEPT !.updating = FALSE] EXCEPT
                    !.panel = ItemThing(window.item), !.image = Loading] = told
             /\ Settled(told) /\ OnlyKept(told, window)
             /\ Settled(seen) /\ OnlyKept(seen, window)
  <2>1. [[window EXCEPT !.updating = FALSE] EXCEPT
            !.panel = ItemThing(window.item), !.image = Loading] = told
    BY <1>1 DEF Shown, Shapes
  <2>2. Settled(told) /\ OnlyKept(told, window)
    BY <1>1, <1>2, <1>4, ShownFacts
  <2>3. image \in Urls \cup {Empty, Loading} /\ image \in {Loading, Compared(window.item)}
    BY <1>2, <1>4
  <2> HIDE DEF image
  <2>4. Settled(seen) /\ OnlyKept(seen, window)
    BY <1>1, <1>2, <1>4, <2>3, ShownFacts
  <2> QED
    BY <2>1, <2>2, <2>4
<1>5. CASE window.item # NoItem /\ window' = OnImageFetched(told, url, TRUE) /\ NoImages
  <2>1. told.item = window.item
    BY <1>1 DEF Shown, Shapes
  <2>2. OnImageFetched(told, url, TRUE) = seen
    <3>1. [told EXCEPT !.image = url] = Shown(window, ItemThing(window.item), url, FALSE)
      BY <1>1 DEF Shown, Shapes
    <3> HIDE DEF told
    <3>2. CASE url = Compared(window.item)
      BY <1>5, <2>1, <3>1, <3>2 DEF OnImageFetched
    <3>3. CASE url # Compared(window.item)
      BY <2>1, <3>3 DEF OnImageFetched, told
    <3> QED
      BY <3>2, <3>3
  <2> QED
    BY <1>4, <1>5, <2>2 DEF WindowIInv, NoImages
<1>6. CASE window.item # NoItem /\ window' = told /\ fetching' = fetching \cup {url}
           /\ UNCHANGED cached
  BY <1>2, <1>4, <1>6 DEF WindowIInv
<1>7. \/ window.item = NoItem /\ window' = ClearCurrentItem([window EXCEPT !.updating = FALSE])
         /\ NoImages
      \/ window.item # NoItem
         /\ window' = OnImageFetched([[window EXCEPT !.updating = FALSE] EXCEPT
                         !.panel = ItemThing(window.item), !.image = Loading], url, TRUE)
         /\ NoImages
      \/ window.item # NoItem
         /\ window' = [[window EXCEPT !.updating = FALSE] EXCEPT
                         !.panel = ItemThing(window.item), !.image = Loading]
         /\ fetching' = fetching \cup {url} /\ UNCHANGED cached
  BY DEF UpdateCurrentItem
<1> QED
  BY <1>3, <1>4, <1>5, <1>6, <1>7

\* of an image that arrives,
LEMMA FetchedFacts ==
    ASSUME WindowIInv, NEW url \in Urls, OnFetched(url)
    PROVE  WindowIInv' /\ OnlyKept(window', window)
<1>1. fetching' \subseteq Urls /\ cached' \subseteq Urls
  BY DEF OnFetched, WindowIInv
<1>2. /\ Settled(window) /\ window \in Shapes
      /\ window.panel \in Things \cup {Empty} /\ window.updating \in BOOLEAN
  BY SettledFacts DEF WindowIInv, Shapes
<1>3. CASE window' = window
  <2>1. OnlyKept(window', window)
    BY <1>3, SelectionFacts DEF SameFinds
  <2> QED
    BY <1>1, <1>2, <1>3, <2>1 DEF WindowIInv
<1>4. CASE window' # window
  <2>1. PICK readable \in BOOLEAN :
           window' = OnImageFetched(window, url, readable \/ url \in cached)
    BY <1>4 DEF OnFetched
  <2>2. window.item # NoItem /\ url = Compared(window.item)
        /\ window' = [window EXCEPT !.image = url]
    BY <1>4, <2>1 DEF OnImageFetched
  <2>3. window' = Shown(window, window.panel, url, window.updating)
    BY <1>2, <2>2 DEF Shown, Shapes
  <2>4. window.item # NoItem /\ ~window.updating => window.panel = ItemThing(window.item)
    BY <1>2 DEF Settled, Ready, Listed, PanelTells
  <2> DEFINE panel == window.panel
             updating == window.updating
  <2>5. /\ panel \in Things \cup {Empty} /\ updating \in BOOLEAN
        /\ url \in Urls \cup {Empty, Loading}
        /\ window.item # NoItem /\ ~updating =>
              panel = ItemThing(window.item) /\ url \in {Loading, Compared(window.item)}
    BY <1>2, <2>2, <2>4
  <2>6. window' = Shown(window, panel, url, updating)
    BY <2>3
  <2> HIDE DEF panel, updating
  <2>7. /\ Settled(Shown(window, panel, url, updating))
        /\ OnlyKept(Shown(window, panel, url, updating), window)
    BY <1>2, <2>5, ShownFacts
  <2>8. Settled(window') /\ OnlyKept(window', window)
    BY <2>6, <2>7
  <2> QED
    BY <1>1, <2>8 DEF WindowIInv
<1> QED
  BY <1>3, <1>4

\* A search that is filtered again keeps its number and its filters.
LEMMA RefreshedFacts ==
    ASSUME NEW w \in Shapes, NEW s \in Searches
    PROVE  LET t == Refreshed(w, s)
           IN  /\ t \in Searches /\ t.id = s.id /\ t.data = s.data /\ t.typed = s.typed
               /\ t.reason = "ItemsChanged"
<1> DEFINE told == [s EXCEPT !.reason = "ItemsChanged"]
           t == FilterItems(told, w.active, w.items, w.known, w.priced)
<1>1. /\ told \in Searches /\ told.id = s.id /\ told.data = s.data /\ told.typed = s.typed
      /\ told.reason = "ItemsChanged"
  BY DEF Searches, Reasons
<1>2. Refreshed(w, s) = IF s.id = Current(w).id THEN told ELSE t
  BY DEF Refreshed
<1> HIDE DEF told
<1>3. /\ w.active \in [Filters -> BOOLEAN] /\ w.items \in SUBSET Items
      /\ w.known \in SUBSET Tabs
  BY DEF Shapes
<1>4. OnlyFilters(told, t, Passing(told, w.active, w.items, w.priced))
  BY <1>1, <1>3, FilterItemsFacts
<1> HIDE DEF t
<1>5. /\ t \in Searches /\ t.id = s.id /\ t.data = s.data /\ t.typed = s.typed
      /\ t.reason = "ItemsChanged"
  BY <1>1, <1>4 DEF OnlyFilters
<1> QED
  BY <1>1, <1>2, <1>5

\* All searches refiltered, and the texts of their tabs.
RefreshedList(w) == [n \in DOMAIN w.searches |-> Refreshed(w, w.searches[n])]
RefreshedBar(w) == [n \in DOMAIN w.searches |-> RefreshedText(w, RefreshedList(w)[n])]

\* A function on 1 .. n is a sequence.
LEMMA FunctionIsSeq ==
    ASSUME NEW S, NEW n \in Nat, NEW f \in [1 .. n -> S]
    PROVE  f \in Seq(S) /\ Len(f) = n /\ DOMAIN f = 1 .. n
  OBVIOUS

\* The list and the bar AllRefreshed makes are these functions.
LEMMA ListFacts ==
    ASSUME NEW w, Listed(w), w.at \in DOMAIN w.searches, w.current = w.at
    PROVE  /\ RefreshedList(w) \in Seq(Searches) /\ RefreshedBar(w) \in Seq(Nat \X Int)
           /\ Len(RefreshedList(w)) = Len(w.searches)
           /\ Len(RefreshedBar(w)) = Len(w.searches)
           /\ DOMAIN RefreshedList(w) = DOMAIN w.searches
           /\ SubSeq(RefreshedList(w), 1, Len(w.searches)) = RefreshedList(w)
           /\ SubSeq(RefreshedBar(w), 1, Len(w.searches)) = RefreshedBar(w)
<1> DEFINE all == RefreshedList(w)
           bar == RefreshedBar(w)
           last == Len(w.searches)
<1>1. /\ w \in Shapes /\ w.searches \in Seq(Searches) /\ last \in Nat
      /\ DOMAIN w.searches = 1 .. last /\ \A n \in 1 .. last : w.searches[n] \in Searches
      /\ w.bar \in Seq(Nat \X Int) /\ Len(w.bar) = last
  BY SMTT(30) DEF Listed, Shapes
<1>2. \A n \in 1 .. last : Refreshed(w, w.searches[n]) \in Searches
  BY <1>1, RefreshedFacts
<1>3. all \in [1 .. last -> Searches]
  BY <1>1, <1>2 DEF RefreshedList
<1>4. all \in Seq(Searches) /\ Len(all) = last /\ DOMAIN all = 1 .. last
  BY <1>1, <1>3, FunctionIsSeq
<1> HIDE DEF all
<1>5. \A n \in 1 .. last : RefreshedText(w, all[n]) \in Nat \X Int
  <2>1. w.bar[w.current] \in Nat \X Int
    BY <1>1, ElementOfSeq
  <2>2. \A n \in 1 .. last : GetCaption(all[n]) \in Nat \X Int
    BY <1>3, CaptionType
  <2> QED
    BY <2>1, <2>2 DEF RefreshedText
<1>6. bar \in [1 .. last -> Nat \X Int]
  BY <1>1, <1>5 DEF RefreshedBar, all
<1>7. bar \in Seq(Nat \X Int) /\ Len(bar) = last
  BY <1>1, <1>6, FunctionIsSeq
<1> HIDE DEF bar
<1>8. SubSeq(all, 1, last) = all
  BY <1>4, SubSeqFull
<1>9. SubSeq(bar, 1, last) = bar
  BY <1>7, SubSeqFull
<1> QED
  BY <1>1, <1>4, <1>7, <1>8, <1>9 DEF all, bar

\* AllRefreshed settles a window that has not heard of the items yet.
LEMMA AllRefreshedFacts ==
    ASSUME NEW w, Unheard(w)
    PROVE  LET v == AllRefreshed(w)
           IN  /\ Settled(v)
               /\ w.item # NoItem =>
                     v.selection = {} \/ v.selection = index(Current(v), w.item)
<1> DEFINE all == RefreshedList(w)
           bar == RefreshedBar(w)
           made == w.made
           current == w.current
           next == Enlist(w, made, bar, all, current)
<1>1. /\ w \in Shapes /\ w.at \in DOMAIN w.searches
      /\ w.current = w.at /\ Listed(w)
      /\ w.made \in Nat /\ w.current \in Nat
      /\ Current(w) = w.searches[w.at]
  BY UnheardFacts DEF Shapes
<1>2. /\ all \in Seq(Searches) /\ bar \in Seq(Nat \X Int)
      /\ Len(all) = Len(w.searches) /\ Len(bar) = Len(w.searches)
      /\ DOMAIN all = DOMAIN w.searches
      /\ SubSeq(all, 1, Len(w.searches)) = all
      /\ SubSeq(bar, 1, Len(w.searches)) = bar
  BY <1>1, ListFacts
<1>3. \A n \in DOMAIN w.searches :
         LET s == w.searches[n]
         IN  /\ all[n] \in Searches /\ all[n].id = s.id /\ all[n].data = s.data
             /\ all[n].typed = s.typed /\ all[n].reason = "ItemsChanged"
  <2>1. SUFFICES ASSUME NEW n \in DOMAIN w.searches
        PROVE  LET s == w.searches[n]
               IN  /\ all[n] \in Searches /\ all[n].id = s.id /\ all[n].data = s.data
                   /\ all[n].typed = s.typed /\ all[n].reason = "ItemsChanged"
    OBVIOUS
  <2>2. all[n] = Refreshed(w, w.searches[n])
    BY DEF RefreshedList
  <2>3. w.searches[n] \in Searches
    BY <1>1, ElementOfSeq DEF Shapes
  <2> HIDE DEF all
  <2> QED
    BY <1>1, <2>2, <2>3, RefreshedFacts
<1>4. \A n \in DOMAIN w.searches : bar[n] = RefreshedText(w, all[n])
  BY DEF RefreshedBar
<1>5. AllRefreshed(w) = ModelViewRefresh(next)
  <2>1. AllRefreshed(w) = ModelViewRefresh([w EXCEPT !.searches = all, !.bar = bar])
    <3>1. all = [n \in DOMAIN w.searches |-> Refreshed(w, w.searches[n])]
      BY DEF RefreshedList
    <3> HIDE DEF all
    <3>2. bar = [n \in DOMAIN all |-> RefreshedText(w, all[n])]
      BY <1>2 DEF RefreshedBar, all
    <3> HIDE DEF bar
    <3>3. AllRefreshed(w) = ModelViewRefresh(
             [w EXCEPT !.searches = SubSeq(all, 1, Len(w.searches)),
                       !.bar = SubSeq([n \in DOMAIN all |-> RefreshedText(w, all[n])],
                                      1, Len(all))])
      BY <1>2, <3>1 DEF AllRefreshed, Each
    <3> QED
      BY <1>2, <3>2, <3>3
  <2> HIDE DEF all, bar
  <2>2. [w EXCEPT !.searches = all, !.bar = bar] = next
    BY <1>1 DEF Enlist, Shapes
  <2> QED
    BY <2>1, <2>2
<1> HIDE DEF all, bar, made, current
<1>6. /\ next \in Shapes /\ SameForm(next, w)
      /\ SamePanel(next, w) /\ next.at = w.at
      /\ next.made = made /\ next.bar = bar /\ next.searches = all
      /\ next.current = current
  <2>1. made \in Nat /\ current \in Nat
    BY <1>1 DEF made, current
  <2>2. w \in Shapes /\ all \in Seq(Searches) /\ bar \in Seq(Nat \X Int)
    BY <1>1, <1>2
  <2> QED
    BY <2>1, <2>2, Enlisted
<1> HIDE DEF next
<1>7. /\ next.at = w.at /\ next.current = w.at /\ next.made = w.made
      /\ next.item = w.item /\ next.form = w.form
      /\ Current(next) = all[w.at]
  BY <1>1, <1>6 DEF SamePanel, SameForm, made, current, Current
<1>8. Ready(next)
  <2>1. Numbered(next)
    <3>1. Numbered(w)
      BY <1>1 DEF Listed
    <3>2. /\ next.searches = all /\ DOMAIN next.searches = DOMAIN w.searches
          /\ \A n \in DOMAIN w.searches : all[n].id = w.searches[n].id
          /\ next.made = w.made
      BY <1>2, <1>3, <1>6, <1>7
    <3> QED
      BY <3>1, <3>2 DEF Numbered
  <2>2. PanelTells(next)
    BY <1>1, <1>6, PanelStaysTold DEF Listed, PanelKept
  <2>3. \A n \in DOMAIN next.searches : Own(next.searches[n])
    BY <1>1, <1>2, <1>3, <1>6 DEF Listed, Own
  <2>4. \A n \in DOMAIN next.searches \ {w.at} : Named(next, n)
    <3>1. SUFFICES ASSUME NEW n \in DOMAIN w.searches \ {w.at}
                   PROVE  Named(next, n)
      BY <1>2, <1>6
    <3>2. all[n].id # Current(w).id
      BY <1>1, <1>3 DEF Listed, Numbered
    <3> QED
      BY <1>4, <1>6, <3>2 DEF RefreshedText, Named
  <2>5. FormIsOwn(next)
    BY <1>1, <1>3, <1>7 DEF Unheard, Ready, FormIsOwn
  <2> QED
    BY <1>1, <1>2, <1>6, <1>7, <2>1, <2>2, <2>3, <2>4, <2>5 DEF Ready, Listed
<1>9. Current(next).reason = "ItemsChanged"
  BY <1>1, <1>3, <1>7
<1> QED
  BY <1>5, <1>7, <1>8, <1>9, RefilteredFacts

\* New items, tabs, prices or message boxes change nothing else.
Supplied(w, items, known, priced, boxes) ==
    [w EXCEPT !.items = items, !.known = known, !.priced = priced, !.boxes = boxes]

\* The window has not heard of them, and its view is what it was.
LEMMA SuppliedFacts ==
    ASSUME NEW w, Settled(w), NEW items \in SUBSET Items, NEW known \in SUBSET Tabs,
           NEW priced \in SUBSET Items, NEW boxes \in Nat
    PROVE  LET v == Supplied(w, items, known, priced, boxes)
           IN  /\ Unheard(v) /\ v.boxes = boxes /\ v.item = w.item
               /\ v.selection = w.selection /\ Current(v) = Current(w)
<1> DEFINE v == Supplied(w, items, known, priced, boxes)
<1>1. w \in Shapes
  BY SettledFacts
<1>2. v \in Shapes
  BY <1>1 DEF Supplied, Shapes
<1>3. /\ SameForm(v, w) /\ SameList(v, w) /\ SameView(v, w) /\ SamePanel(v, w)
      /\ v.boxes = boxes
  BY <1>1 DEF Supplied, SameForm, SameList, SameView, SamePanel, Shapes
<1> HIDE DEF v
<1>4. Current(v) = Current(w)
  BY <1>3 DEF SameList, Current
<1>5. PanelTells(v)
  BY <1>1, <1>2, <1>3, PanelStaysTold DEF Settled, Ready, Listed, PanelKept
<1>6. Listed(v)
  BY <1>2, <1>3, <1>5 DEF Settled, Ready, Listed, SameList, Numbered
<1>7. Unheard(v)
  BY <1>3, <1>4, <1>6
     DEF Settled, Unheard, Ready, Named, SameList, SameForm, SameView, FormIsOwn
<1> QED
  BY <1>3, <1>4, <1>7 DEF v, SamePanel, SameView

\* of new items, which the window hears of at once or after a message box,
LEMMA ItemsFacts ==
    ASSUME Settled(window), ItemsRefreshed
    PROVE  Settled(window') /\ OnlyKept(window', window)
<1>1. PICK tabs \in SUBSET Tabs, some \in SUBSET Items, prices \in SUBSET Items :
         LET new == [window EXCEPT !.items = some, !.known = tabs, !.priced = prices]
         IN  window' \in {AllRefreshed(new), [new EXCEPT !.boxes = @ + 1]}
  BY DEF ItemsRefreshed
<1> DEFINE boxes == window.boxes
           new == Supplied(window, some, tabs, prices, boxes)
           boxed == Supplied(window, some, tabs, prices, boxes + 1)
<1>2. window \in Shapes /\ boxes \in Nat
  BY SettledFacts DEF Shapes
<1>3. /\ new = [window EXCEPT !.items = some, !.known = tabs, !.priced = prices]
      /\ boxed = [new EXCEPT !.boxes = @ + 1]
  BY <1>2 DEF Supplied, Shapes
<1> HIDE DEF boxes
<1>4. Unheard(new) /\ new.item = window.item
  BY <1>2, SuppliedFacts
<1>5. /\ Unheard(boxed) /\ boxed.boxes = boxes + 1
      /\ boxed.selection = window.selection /\ Current(boxed) = Current(window)
  BY <1>2, SuppliedFacts
<1>6. window' = AllRefreshed(new) \/ window' = boxed
  BY <1>1, <1>3
<1> HIDE DEF new, boxed
<1>7. CASE window' = AllRefreshed(new)
  BY <1>4, <1>7, AllRefreshedFacts, SelectionFacts DEF OnlyKept
<1>8. CASE window' = boxed
  <2>1. Filtered(boxed)
    BY <1>2, <1>5 DEF Filtered
  <2>2. Settled(boxed)
    BY <1>5, <2>1 DEF Unheard, Settled
  <2> QED
    BY <1>5, <1>8, <2>2, SelectionFacts DEF SameFinds
<1> QED
  BY <1>6, <1>7, <1>8

\* of the end of that message box,
LEMMA BoxFacts ==
    ASSUME Settled(window), BoxClosed
    PROVE  Settled(window') /\ OnlyKept(window', window)
<1> DEFINE boxes == window.boxes
           items == window.items
           known == window.known
           priced == window.priced
           new == Supplied(window, items, known, priced, boxes - 1)
<1>1. /\ window \in Shapes /\ boxes \in Nat /\ boxes - 1 \in Nat
      /\ items \in SUBSET Items /\ known \in SUBSET Tabs /\ priced \in SUBSET Items
  BY SettledFacts DEF Shapes, BoxClosed
<1>2. new = [window EXCEPT !.boxes = @ - 1]
  BY <1>1 DEF Supplied, Shapes
<1>3. window' = AllRefreshed(new)
  BY <1>2 DEF BoxClosed
<1> HIDE DEF boxes, items, known, priced
<1>4. Unheard(new) /\ new.item = window.item
  BY <1>1, SuppliedFacts
<1> HIDE DEF new
<1> QED
  BY <1>3, <1>4, AllRefreshedFacts, SelectionFacts DEF OnlyKept

\* and of changed prices, after which a search may list what it would not find again.
LEMMA BuyoutFacts ==
    ASSUME Settled(window), OnBuyoutChange
    PROVE  Settled(window') /\ OnlyKept(window', window)
<1>1. PICK changed \in SUBSET Items :
         window' = [window EXCEPT !.priced = (@ \ changed) \cup (changed \ @),
                                  !.repriced = @ \cup changed]
  <2>1. Priceable(window) \subseteq Items
    <3>1. window.items \subseteq Items
      BY SettledFacts DEF Shapes
    <3> QED
      BY <3>1 DEF Priceable
  <2> QED
    BY <2>1 DEF OnBuyoutChange
<1> DEFINE priced == (window.priced \ changed) \cup (changed \ window.priced)
           repriced == window.repriced \cup changed
           v == [window EXCEPT !.priced = priced, !.repriced = repriced]
<1>2. /\ window \in Shapes /\ window.priced \in SUBSET Items
      /\ window.repriced \in SUBSET Items
  BY SettledFacts DEF Shapes
<1>3. window' = v /\ priced \in SUBSET Items /\ repriced \in SUBSET Items
  BY <1>1, <1>2 DEF Shapes
<1>4. \A i \in Items : i \notin repriced => (i \in priced <=> i \in window.priced)
  OBVIOUS
<1> HIDE DEF priced
<1>5. v \in Shapes
  BY <1>2, <1>3 DEF Shapes
<1>6. /\ SameForm(v, window) /\ SameList(v, window) /\ SameView(v, window)
      /\ SamePanel(v, window) /\ v.boxes = window.boxes /\ v.items = window.items
      /\ v.priced = priced /\ v.repriced = repriced
  BY <1>2 DEF SameForm, SameList, SameView, SamePanel, Shapes
<1> HIDE DEF v
<1>7. Current(v) = Current(window)
  BY <1>6 DEF SameList, Current
<1>8. Filtered(v)
  <2>1. LetThrough(v, Filters) \ repriced = LetThrough(window, Filters) \ repriced
    <3>1. \A i \in window.items \ repriced : \A f \in Filters :
             Matches(f, Current(window).data[f], i, priced)
                <=> Matches(f, Current(window).data[f], i, window.priced)
      <4>1. window.items \subseteq Items
        BY <1>2 DEF Shapes
      <4> QED
        BY <1>4, <4>1 DEF Matches
    <3> QED
      BY <1>6, <1>7, <3>1 DEF LetThrough
  <2>2. LetThrough(v, Filters \ {"priced"}) = LetThrough(window, Filters \ {"priced"})
    <3>1. \A i \in window.items : \A f \in Filters \ {"priced"} :
             Matches(f, Current(window).data[f], i, priced)
                <=> Matches(f, Current(window).data[f], i, window.priced)
      BY DEF Matches
    <3> QED
      BY <1>6, <1>7, <3>1 DEF LetThrough
  <2>3. window.repriced \subseteq repriced
    OBVIOUS
  <2> HIDE DEF repriced
  <2> QED
    BY <1>6, <1>7, <2>1, <2>2, <2>3 DEF Filtered, Settled
<1>9. PanelTells(v)
  BY <1>2, <1>5, <1>6, PanelStaysTold DEF Settled, Ready, Listed, PanelKept
<1>10. Listed(v)
  BY <1>5, <1>6, <1>9 DEF Settled, Ready, Listed, SameList, Numbered
<1>11. Settled(v)
  BY <1>6, <1>7, <1>8, <1>10
     DEF Settled, Ready, Named, SameList, SameForm, SameView, FormIsOwn
<1>12. OnlyKept(v, window)
  BY <1>6, <1>7, SelectionFacts DEF SameFinds, SameView
<1> QED
  BY <1>3, <1>11, <1>12

-----------------------------------------------------------------------------
(* The theorems. *)

EmptyWindow ==
    [items |-> {}, known |-> {}, priced |-> {}, repriced |-> {},
     boxes |-> 0, form |-> Blank, active |-> Blank,
     wired |-> TRUE, searches |-> <<>>, current |-> 0, at |-> 1,
     bar |-> <<>>, made |-> 0, shown |-> 0, selection |-> {},
     cursor |-> NoRow, item |-> NoItem, panel |-> Empty,
     image |-> Empty, searching |-> FALSE, updating |-> FALSE]

\* The window begins with one search, and settled.
LEMMA WindowInitial == Init => WindowIInv
<1> SUFFICES ASSUME Init PROVE WindowIInv
  OBVIOUS
<1> DEFINE with == WithSearch(EmptyWindow)
<1>1. window = NewSearch(EmptyWindow) /\ fetching = {} /\ cached = {}
  BY DEF Init, EmptyWindow
<1>2. /\ EmptyWindow \in Shapes /\ EmptyWindow.searches = <<>> /\ EmptyWindow.bar = <<>>
      /\ EmptyWindow.item = NoItem /\ EmptyWindow.at = 1
  BY DEF EmptyWindow, Shapes, Blank
<1>3. Listed(EmptyWindow)
  BY <1>2 DEF Listed, Numbered, PanelTells
<1>4. /\ window = ModelViewRefresh(with) /\ with.at = 1
      /\ with.current = Len(EmptyWindow.searches) + 1
  BY <1>1, <1>2, WithSearchFacts
<1>5. /\ Listed(with) /\ FormIsOwn(with) /\ with.current \in DOMAIN with.searches
      /\ DOMAIN with.searches = DOMAIN EmptyWindow.searches \cup {with.current}
  BY <1>3, WithSearchListed
<1> HIDE DEF with
<1>6. with.current = 1 /\ DOMAIN with.searches = {1}
  BY <1>2, <1>4, <1>5
<1>7. Ready(with)
  BY <1>4, <1>5, <1>6 DEF Ready
<1> QED
  BY <1>1, <1>4, <1>7, RefreshSettles DEF WindowIInv

\* Every step keeps the window settled, and only ChooseRow selects anything but the
\* current item.
LEMMA WindowStep ==
    ASSUME WindowIInv, [Next]_vars
    PROVE  /\ WindowIInv'
           /\ OnlyKept(window', window) \/ \E row \in AllRows : ChooseRow(row)
<1> USE DEF WindowIInv
<1>1. Settled(window) /\ fetching \subseteq Urls /\ cached \subseteq Urls
  OBVIOUS
<1>2. ASSUME NEW f \in Filters, Edit(f) PROVE WindowIInv' /\ OnlyKept(window', window)
  BY <1>1, <1>2, EditFacts DEF Edit, NoImages
<1>3. ASSUME SearchFormTimeout PROVE WindowIInv' /\ OnlyKept(window', window)
  BY <1>1, <1>3, TimeoutFacts DEF SearchFormTimeout, NoImages
<1>4. ASSUME NEW n \in 1 .. Len(window.searches) + 1, ChooseTab(n) \/ DeleteTab(n)
      PROVE  WindowIInv' /\ OnlyKept(window', window)
  BY <1>1, <1>4, TabActionFacts DEF ChooseTab, DeleteTab, NoImages
<1>5. ASSUME NEW mode \in {"ByTab", "ByItem"}, ChooseMode(mode)
      PROVE  WindowIInv' /\ OnlyKept(window', window)
  BY <1>1, <1>5, ModeFacts DEF ChooseMode, NoImages
<1>6. ASSUME ChooseOrder PROVE WindowIInv' /\ OnlyKept(window', window)
  BY <1>1, <1>6, OrderFacts DEF ChooseOrder, NoImages
<1>7. ASSUME NEW row \in AllRows, ChooseRow(row) PROVE WindowIInv'
  BY <1>1, <1>7, RowFacts DEF ChooseRow, NoImages
<1>8. ASSUME UpdateCurrentItem PROVE WindowIInv' /\ OnlyKept(window', window)
  BY <1>8, UpdateFacts
<1>9. ASSUME NEW url \in Urls, OnFetched(url) PROVE WindowIInv' /\ OnlyKept(window', window)
  BY <1>9, FetchedFacts
<1>10. ASSUME ItemsRefreshed PROVE WindowIInv' /\ OnlyKept(window', window)
  BY <1>1, <1>10, ItemsFacts DEF ItemsRefreshed, NoImages
<1>11. ASSUME BoxClosed PROVE WindowIInv' /\ OnlyKept(window', window)
  BY <1>1, <1>11, BoxFacts DEF BoxClosed, NoImages
<1>12. ASSUME OnBuyoutChange PROVE WindowIInv' /\ OnlyKept(window', window)
  BY <1>1, <1>12, BuyoutFacts DEF OnBuyoutChange, NoImages
<1>13. ASSUME UNCHANGED vars PROVE WindowIInv' /\ OnlyKept(window', window)
  <2>1. window' = window /\ fetching' = fetching /\ cached' = cached
    BY <1>13 DEF vars
  <2>2. OnlyKept(window', window)
    BY <2>1, SelectionFacts DEF SameFinds
  <2> QED
    BY <1>1, <2>1, <2>2
<1> QED
  BY <1>2, <1>3, <1>4, <1>5, <1>6, <1>7, <1>8, <1>9, <1>10, <1>11,
     <1>12, <1>13 DEF Next

\* In every reachable state the window is settled and the image cache has only images
\* of items.
THEOREM WindowInvariant == Spec => []WindowIInv
<1>1. WindowIInv /\ [Next]_vars => WindowIInv'
  BY WindowStep
<1> QED
  BY WindowInitial, <1>1, PTL DEF Spec

\* Every member has a value of its type; the current search is the one of the current
\* tab and its model is in the view (OnTabChange, OnDeleteTabClicked).
THEOREM WindowTypeOKHolds == Spec => []WindowTypeOK
<1>1. ASSUME WindowIInv PROVE WindowTypeOK
  <2>1. Settled(window) /\ window \in Shapes
    BY <1>1, SettledFacts DEF WindowIInv
  <2>2. window.bar \in Seq(Nat \X (0 .. Cardinality(Items)))
    <3>1. \A n \in 1 .. Len(window.searches) : window.searches[n] \in Searches
      BY <2>1 DEF Shapes
    <3>2. \A n \in 1 .. Len(window.bar) :
             window.bar[n] \in Nat \X (0 .. Cardinality(Items))
      <4>1. SUFFICES ASSUME NEW n \in 1 .. Len(window.bar)
                     PROVE  window.bar[n] \in Nat \X (0 .. Cardinality(Items))
        OBVIOUS
      <4>2. /\ window.bar[n] = GetCaption(window.searches[n])
            /\ window.searches[n] \in Searches
        BY <2>1, <3>1, SettledFacts DEF Named
      <4> QED
        BY <4>2, CaptionType
    <3>3. Len(window.bar) \in Nat /\ DOMAIN window.bar = 1 .. Len(window.bar)
          /\ window.bar = [n \in 1 .. Len(window.bar) |-> window.bar[n]]
      BY <2>1 DEF Shapes
    <3> DEFINE last == Len(window.bar)
    <3>4. window.bar \in [1 .. last -> Nat \X (0 .. Cardinality(Items))]
      BY <3>2, <3>3
    <3> HIDE DEF last
    <3> QED
      BY <3>3, <3>4, FunctionIsSeq DEF last
  <2>3. window \in Windows
    BY <2>1, <2>2 DEF Shapes, Windows
  <2> QED
    BY <1>1, <2>1, <2>3, SettledFacts DEF WindowTypeOK, WindowIInv
<1> QED
  BY <1>1, WindowInvariant, PTL

\* A tab of the bar names its own search and the number of items found there.
THEOREM TabsTellTheirSearchHolds == Spec => []TabsTellTheirSearch
<1>1. ASSUME WindowIInv PROVE TabsTellTheirSearch
  BY <1>1, SettledFacts DEF WindowIInv, TabsTellTheirSearch, Named
<1> QED
  BY <1>1, WindowInvariant, PTL

\* What the view lists are the items its filters let through, unless the search was only
\* brought to the front (Search::FilterItems), a message box keeps new items from the
\* window, or the user has priced the item since (OnBuyoutChange): a listed item has
\* passed all filters but the one for prices even then.
THEOREM CurrentIsFilteredHolds == Spec => []CurrentIsFiltered
<1>1. ASSUME WindowIInv PROVE CurrentIsFiltered
  BY <1>1 DEF WindowIInv, Settled, Filtered, LetThrough, CurrentIsFiltered
<1> QED
  BY <1>1, WindowInvariant, PTL

\* A search has no filter the user has never touched in it, but for the colours.
THEOREM OwnFiltersHolds == Spec => []OwnFilters
<1>1. ASSUME WindowIInv PROVE OwnFilters
  BY <1>1, SettledFacts DEF WindowIInv, Listed, Own, OwnFilters
<1> QED
  BY <1>1, WindowInvariant, PTL

\* Once the panel has caught up, it tells of the current item, and the image in it is
\* that item's, however late the replies come (UpdateCurrentItem, OnImageFetched).
THEOREM ImageIsOfTheItemHolds == Spec => []ImageIsOfTheItem
<1>1. ASSUME WindowIInv PROVE ImageIsOfTheItem
  BY <1>1, SettledFacts DEF WindowIInv, Listed, PanelTells, ImageIsOfTheItem
<1> QED
  BY <1>1, WindowInvariant, PTL

\* While an item is current, only the user adds others to the selection: rows that now
\* hold other items do not stay selected (OnLayoutChanged).
THEOREM OnlyUserSelectsHolds == Spec => OnlyUserSelects
<1> DEFINE A == window.item # NoItem /\ ~ (\E row \in AllRows : ChooseRow(row))
                  => Selected(window') \subseteq Selected(window) \cup {ItemThing(window.item)}
<1>1. WindowIInv /\ [Next]_vars => [A]_vars
  BY WindowStep DEF OnlyKept
<1>2. Spec => [][A]_vars
  BY <1>1, WindowInvariant, PTL DEF Spec
<1> QED
  BY <1>2 DEF OnlyUserSelects
=============================================================================
