----------------------------- MODULE MainWindow -----------------------------
(***************************************************************************)
(* The main window: its searches on a bar of tabs, the one form they share,*)
(* the view of the current search, the panel of the current item and the   *)
(* image cache (mainwindow.cpp, imagecache.cpp).                           *)
(*                                                                         *)
(* The handlers call each other, so what they change is one record, and a  *)
(* handler is an operator from the window before it to the window after    *)
(* it.  The event loop runs one handler at a time; timers, replies and     *)
(* refreshes come between any two of them.                                 *)
(***************************************************************************)
EXTENDS Search

CONSTANTS
    Icon,          \* [Items -> icons]: the icon of an item
    Relative,      \* the items whose icon is a path and not a whole URL
    Budgets        \* bounds: how often the user does what, see left

Acts == {"searches", "edits", "picks", "views", "prices", "refreshes"}

ASSUME WindowAssumption ==
    /\ DOMAIN Icon = Items
    /\ Relative \subseteq Items
    /\ Budgets \subseteq [Acts -> Nat]
    /\ \A budget \in Budgets : budget["searches"] > 0

VARIABLES
    window,      \* the members of the main window, see Windows
    fetching,    \* the URLs of the images on their way
    cached,      \* the URLs whose image is in the cache
    left         \* what is left of the budget: searches to make, changes to
                 \* the form, rows to choose, modes and orders, prices, refreshes

vars == <<window, fetching, cached, left>>

NoItem == 0
NoRow == <<0, 0>>
Empty == <<"empty", 0>>          \* the panel says "Select an item"
Loading == <<"loading", 0>>

(* The URL the image of an item is asked for, and the one its reply is     *)
(* compared with.                                                          *)
Requested(i) == <<IF i \in Relative THEN "webcdn" ELSE "icon", Icon[i]>>
Compared(i) == <<"icon", Icon[i]>>
Urls == {Requested(i) : i \in Items}

AllRows == (1 .. Cardinality(Tabs) + 1) \X (0 .. Cardinality(Items))

Things == {TabThing(t) : t \in Tabs \cup {0}} \cup {ItemThing(i) : i \in Items}

(* items     ItemsManager::m_items, without its order                      *)
(* known     the stash tabs the buyout manager knows                       *)
(* priced    the items whose buyout is active                              *)
(* repriced  history: those of them or not, the user has changed that      *)
(*           since the last ModelViewRefresh                               *)
(* boxes     message boxes of the shop in Application::OnItemsRefreshed,   *)
(*           each in the way of the window's own slot                      *)
(* form      what the widgets of the filters show                          *)
(* active    m_active of the filters, shared by all searches               *)
(* wired     the signals of the widgets for mods are connected             *)
(* searches  m_searches                                                    *)
(* current   m_current_search, as its place in m_searches, 0 for null      *)
(* at        the current tab of the bar                                    *)
(* bar       the texts of the tabs, without the last one, "+"              *)
(* made      m_search_count                                                *)
(* shown     the search whose model the view has                           *)
(* selection the selected rows of the view                                 *)
(* cursor    the current row of the view                                   *)
(* item      m_current_item                                                *)
(* panel     the item or tab the panel tells of                            *)
(* image     the image in the panel                                        *)
(* searching m_delayed_search_form_change is running                       *)
(* updating  m_delayed_update_current_item is running                      *)
Windows ==
    [items: SUBSET Items, known: SUBSET Tabs,
     priced: SUBSET Items, repriced: SUBSET Items, boxes: Nat,
     form: [Filters -> BOOLEAN], active: [Filters -> BOOLEAN], wired: BOOLEAN,
     searches: Seq(Searches), current: Nat,
     at: Nat,
     bar: Seq(Nat \X (0 .. Cardinality(Items))),
     made: Nat, shown: Nat,
     selection: SUBSET AllRows, cursor: AllRows \cup {NoRow},
     item: Items \cup {NoItem}, panel: Things \cup {Empty},
     image: Urls \cup {Empty, Loading},
     searching: BOOLEAN, updating: BOOLEAN]

Current(w) == w.searches[w.current]

-----------------------------------------------------------------------------
(* The form.                                                               *)

(* A form with new contents; a combo box announces its change, which starts*)
(* the timer of OnDelayedSearchFormChange.                                 *)
WithForm(w, form) ==
    [w EXCEPT !.form = form,
              !.searching = @ \/ \E f \in Filters \cap Announcing :
                                     form[f] # w.form[f]]

(* The widgets for mods are made anew, and nobody listens to them.         *)
PutForm(w, s) ==
    [WithForm(w, ToForm(w.form, s.data)) EXCEPT
        !.wired = "mods" \in Filters => ~s.data["mods"],
        !.active = [f \in Filters |-> f # "mods" /\ @[f]]]

ResetForm(w) == [WithForm(w, Blank) EXCEPT !.wired = TRUE, !.active = Blank]

-----------------------------------------------------------------------------
(* The view and the panel.                                                 *)

ClearCurrentItem(w) == [w EXCEPT !.panel = Empty, !.image = Empty]

(* The order of the rows has changed: the selection is taken away and      *)
(* given back to the current item, if it is still there.                   *)
OnLayoutChanged(w) ==
    LET places == index(Current(w), w.item)
        reset == [w EXCEPT !.selection = places, !.cursor = NoRow]
    IN  IF w.item = NoItem THEN w
        ELSE IF places = {} THEN ClearCurrentItem([reset EXCEPT !.item = NoItem])
        ELSE reset

(* Search::Activate and what ModelViewRefresh does around it.  The filters *)
(* take their values from the form; a view that gets another model starts  *)
(* with nothing selected; the model is sorted if it was not, and says so,  *)
(* but a search is connected to the window only after it has been shown    *)
(* for the first time.                                                     *)
ModelViewRefresh(w) ==
    LET c == w.current
        read == [Current(w) EXCEPT !.data = w.form]
        found == FilterItems(read, w.form, w.items, w.known, w.priced)
        viewed == [w EXCEPT
                      !.active = w.form,
                      !.repriced = {},
                      !.searches[c] = [found EXCEPT !.sorted = TRUE],
                      !.shown = found.id,
                      !.selection = IF w.shown = found.id THEN @ ELSE {},
                      !.cursor = IF w.shown = found.id THEN @ ELSE NoRow]
        sorted == IF found.sorted \/ found.reason = "TabCreated"
                  THEN viewed ELSE OnLayoutChanged(viewed)
    IN  [sorted EXCEPT !.bar[w.at] = GetCaption(found)]

SetRefreshReason(w, reason) == [w EXCEPT !.searches[w.current].reason = reason]

(* The last tab of the bar becomes the one of the new search.              *)
NewSearch(w) ==
    LET n == w.made + 1
    IN  ModelViewRefresh(
            [ResetForm(w) EXCEPT !.made = n,
                                 !.bar = Append(@, <<n, -1>>),
                                 !.searches = Append(@, NewSearchNumber(n)),
                                 !.current = Len(w.searches) + 1])

OnSearchFormChange(w) ==
    ModelViewRefresh(SetRefreshReason(w, "SearchFormChanged"))

\* Mutant: the search that was current stays it.
StaleOnTabChange(w, n) ==
    LET there == [w EXCEPT !.at = n]
        chosen == SetRefreshReason(there, "TabChanged")
    IN  IF n = Len(w.searches) + 1
        THEN NewSearch(there)
        ELSE ModelViewRefresh(PutForm(chosen, Current(chosen)))

(* The bar has made tab n its current one.                                 *)
OnTabChange(w, n) ==
    LET there == [w EXCEPT !.at = n]
        chosen == SetRefreshReason([there EXCEPT !.current = n], "TabChanged")
    IN  IF n = Len(w.searches) + 1
        THEN NewSearch(there)
        ELSE ModelViewRefresh(PutForm(chosen, Current(chosen)))

(* The bar loses a tab.  If it was the current one, the one to its left    *)
(* becomes current; if it was left of it, the number of the current one    *)
(* changes.  Both are announced.                                           *)
RemoveTab(w, n) ==
    LET rest == [w EXCEPT !.bar = RemoveAt(@, n)]
    IN  IF n = w.at THEN OnTabChange(rest, IF n > 1 THEN n - 1 ELSE 1)
        ELSE IF n < w.at THEN OnTabChange(rest, w.at - 1)
        ELSE rest

OnDeleteTabClicked(w, n) ==
    LET some == IF Len(w.searches) = 1 THEN NewSearch(w) ELSE w
        rest == [some EXCEPT
                    !.searches = RemoveAt(@, n),
                    !.current = CASE some.current = n -> 0
                                  [] some.current > n -> some.current - 1
                                  [] OTHER -> some.current]
    IN  RemoveTab(rest, n)

-----------------------------------------------------------------------------
(* What comes from the event loop.                                         *)

Unbounded == UNCHANGED left
Spend(act) == left[act] > 0 /\ left' = [left EXCEPT ![act] = @ - 1]
NoImages == UNCHANGED <<fetching, cached>>

(* A message box keeps the user from the window, but not the event loop.   *)
UserMay == window.boxes = 0

Init ==
    /\ window = NewSearch(
           [items |-> {}, known |-> {}, priced |-> {}, repriced |-> {},
            boxes |-> 0, form |-> Blank, active |-> Blank,
            wired |-> TRUE, searches |-> <<>>, current |-> 0, at |-> 1,
            bar |-> <<>>, made |-> 0, shown |-> 0, selection |-> {},
            cursor |-> NoRow, item |-> NoItem, panel |-> Empty,
            image |-> Empty, searching |-> FALSE, updating |-> FALSE])
    /\ fetching = {} /\ cached = {}
    /\ left \in {[budget EXCEPT !.searches = @ - 1] : budget \in Budgets}

(* The user fills or empties a filter.  A mod that was put there by ToForm *)
(* cannot be taken away: nobody hears its button.                          *)
Edit(f) ==
    LET filled == [window EXCEPT
                      !.form[f] = ~@,
                      !.active[f] = IF f = "mods" THEN ~window.form[f] ELSE @,
                      !.searches[window.current].typed = @ \cup {f}]
    IN  /\ UserMay
        /\ Spend("edits")
        /\ f = "mods" => window.wired
        /\ window' = IF f \in Immediate THEN OnSearchFormChange(filled)
                     ELSE [filled EXCEPT !.searching = TRUE]
        /\ NoImages

(* The delay after an edit is over.                                        *)
SearchFormTimeout ==
    /\ window.searching
    /\ window' = OnSearchFormChange([window EXCEPT !.searching = FALSE])
    /\ Unbounded /\ NoImages

(* The user chooses another tab of the bar, or "+".                        *)
ChooseTab(n) ==
    /\ UserMay
    /\ n \in 1 .. Len(window.searches) + 1
    /\ n # window.at
    /\ IF n > Len(window.searches) THEN Spend("searches") ELSE Unbounded
    /\ window' = OnTabChange(window, n)
    /\ NoImages

DeleteTab(n) ==
    /\ UserMay
    /\ n \in 1 .. Len(window.searches)
    /\ IF Len(window.searches) = 1 THEN Spend("searches") ELSE Unbounded
    /\ window' = OnDeleteTabClicked(window, n)
    /\ NoImages

ChooseMode(mode) ==
    /\ UserMay
    /\ mode # Current(window).mode
    /\ window' = [window EXCEPT
                     !.searches[window.current] = SetViewMode(@, mode),
                     !.selection = {}, !.cursor = NoRow]
    /\ Spend("views")
    /\ NoImages

(* A click on the header.                                                  *)
ChooseOrder ==
    /\ UserMay
    /\ window' = OnLayoutChanged(
                     [window EXCEPT !.searches[window.current] = Reordered(@)])
    /\ Spend("views")
    /\ NoImages

OnCurrentItemChanged(w, row) ==
    LET thing == Thing(Current(w), row)
    IN  IF row[2] > 0
        THEN [w EXCEPT !.item = thing[2], !.updating = TRUE]
        ELSE [w EXCEPT !.item = NoItem, !.panel = thing, !.image = Empty]

(* A click or a key on a row, which selects it alone, adds it to the       *)
(* selection, takes it out or only goes there.                             *)
ChooseRow(row) ==
    /\ UserMay
    /\ row \in Rows(Current(window))
    /\ \E chosen \in {{row}, window.selection \cup {row},
                       window.selection \ {row}, window.selection} :
           LET there == [window EXCEPT !.selection = chosen, !.cursor = row]
           IN  window' = IF row = window.cursor THEN there
                         ELSE OnCurrentItemChanged(there, row)
    /\ Spend("picks")
    /\ NoImages

(* The things in the selected rows.                                        *)
Selected(w) ==
    {Thing(Current(w), row) : row \in w.selection \cap Rows(Current(w))}

(* The items a price set for the selection may reach: those of a selected  *)
(* tab, which may inherit it, and a selected item and its twins, which are *)
(* in the same tab.                                                        *)
Priceable(w) ==
    {i \in w.items : \/ TabThing(TabOf[i]) \in Selected(w)
                     \/ \E j \in Items : /\ ItemThing(j) \in Selected(w)
                                         /\ TabOf[j] = TabOf[i]}

(* OnBuyoutChange: some items are priced now, or no longer, and no search  *)
(* is filtered again.                                                      *)
OnBuyoutChange ==
    /\ UserMay
    /\ \E changed \in SUBSET Priceable(window) \ {{}} :
          window' = [window EXCEPT
                        !.priced = (@ \ changed) \cup (changed \ @),
                        !.repriced = @ \cup changed]
    /\ Spend("prices")
    /\ NoImages

\* Mutant: any image that arrives is shown.
UncheckedOnImageFetched(w, url, readable) ==
    IF w.item # NoItem /\ readable THEN [w EXCEPT !.image = url] ELSE w

(* ImageCache::load finds nothing if the image could not be read or saved. *)
OnImageFetched(w, url, readable) ==
    IF w.item # NoItem /\ url = Compared(w.item) /\ readable
    THEN [w EXCEPT !.image = url] ELSE w

(* The delay after the choice of an item is over: the panel tells of it,   *)
(* and its image is asked for.  One that is in the cache is there at once. *)
UpdateCurrentItem ==
    LET url == Requested(window.item)
        over == [window EXCEPT !.updating = FALSE]
        told == [over EXCEPT !.panel = ItemThing(window.item),
                             !.image = Loading]
    IN  /\ window.updating
        /\ \/ /\ window.item = NoItem
              /\ window' = ClearCurrentItem(over)
              /\ NoImages
           \/ /\ window.item # NoItem /\ url \in cached
              /\ window' = OnImageFetched(told, url, TRUE)
              /\ NoImages
           \/ /\ window.item # NoItem /\ url \notin cached
              /\ window' = told
              /\ fetching' = fetching \cup {url}
              /\ UNCHANGED cached
        /\ Unbounded

(* ImageCache::onFetched: an error is not announced, an image that cannot  *)
(* be read is.                                                             *)
OnFetched(url) ==
    /\ url \in fetching
    /\ fetching' = fetching \ {url}
    /\ \/ UNCHANGED <<window, cached>>
       \/ \E readable \in BOOLEAN :
             /\ cached' = IF readable THEN cached \cup {url} ELSE cached
             /\ window' = OnImageFetched(window, url, readable \/ url \in cached)
    /\ Unbounded

(* A search that is not the current one is filtered at once, with the      *)
(* filters as the current one has left them.                               *)
Refreshed(w, s) ==
    LET told == [s EXCEPT !.reason = "ItemsChanged"]
    IN  IF s.id = Current(w).id THEN told
        ELSE FilterItems(told, w.active, w.items, w.known, w.priced)

\* Mutant: the text of a tab is set before its search is filtered.
EarlyRefreshedText(w, s) ==
    IF s.id = Current(w).id THEN w.bar[w.current]
    ELSE GetCaption(CHOOSE old \in ToSet(w.searches) : old.id = s.id)

(* The text of its tab; the one of the current search comes later.         *)
RefreshedText(w, s) ==
    IF s.id = Current(w).id THEN w.bar[w.current] ELSE GetCaption(s)

(* A sequence with each element replaced, as a tuple, which TLC can EXCEPT *)
(* and Append to.                                                          *)
Each(s, Op(_)) == SubSeq([n \in DOMAIN s |-> Op(s[n])], 1, Len(s))

(* OnItemsRefreshed: all searches are filtered again, the current one as   *)
(* it is shown.                                                            *)
AllRefreshed(w) ==
    LET all == Each(w.searches, LAMBDA s : Refreshed(w, s))
        bar == Each(all, LAMBDA s : RefreshedText(w, s))
    IN  ModelViewRefresh([w EXCEPT !.searches = all, !.bar = bar])

(* The items, tabs and prices are new.  The application hears of it before *)
(* the window does, and may submit the shop, where a message box may come  *)
(* up.                                                                     *)
ItemsRefreshed ==
    /\ \E tabs \in SUBSET Tabs : \E some \in SUBSET {i \in Items : TabOf[i] \in tabs} :
       \E prices \in SUBSET some :
          LET new == [window EXCEPT !.items = some, !.known = tabs, !.priced = prices]
          IN  window' \in {AllRefreshed(new), [new EXCEPT !.boxes = @ + 1]}
    /\ Spend("refreshes")
    /\ NoImages

(* The user closes a message box, and the window gets to hear of the items.*)
BoxClosed ==
    /\ window.boxes > 0
    /\ window' = AllRefreshed([window EXCEPT !.boxes = @ - 1])
    /\ Unbounded /\ NoImages

Next ==
    \/ \E f \in Filters : Edit(f)
    \/ SearchFormTimeout
    \/ \E n \in 1 .. Len(window.searches) + 1 : ChooseTab(n) \/ DeleteTab(n)
    \/ \E mode \in {"ByTab", "ByItem"} : ChooseMode(mode)
    \/ ChooseOrder
    \/ \E row \in AllRows : ChooseRow(row)
    \/ OnBuyoutChange
    \/ UpdateCurrentItem
    \/ \E url \in Urls : OnFetched(url)
    \/ ItemsRefreshed \/ BoxClosed

Spec == Init /\ [][Next]_vars

-----------------------------------------------------------------------------
(* Properties.                                                             *)

(* Every member has a value of its type; the current search is the one of  *)
(* the current tab of the bar and its model is in the view, also after any *)
(* tab was deleted, the last one among them.                               *)
WindowTypeOK ==
    /\ window \in Windows
    /\ window.current = window.at
    /\ Len(window.bar) = Len(window.searches)
    /\ window.shown = Current(window).id
    /\ fetching \subseteq Urls /\ cached \subseteq Urls

(* A tab of the bar names its own search and the number of items found     *)
(* there, whatever was created, deleted, filtered or refreshed             *)
(* (OnItemsRefreshed, ModelViewRefresh).                                   *)
TabsTellTheirSearch ==
    \A n \in DOMAIN window.searches :
        window.bar[n] = GetCaption(window.searches[n])

(* What the view lists are the items its filters let through, by the prices*)
(* they have, unless the search was only brought to the front (Search::    *)
(* FilterItems), or a message box still keeps new items from the window.   *)
(* An item whose price was changed in the window stays where it was until  *)
(* the next time (OnBuyoutChange does not filter), and if it is listed,    *)
(* all other filters let it through.                                       *)
CurrentIsFiltered ==
    LET s == Current(window)
        passing(kinds) ==
            {i \in window.items :
                \A f \in kinds : Matches(f, s.data[f], i, window.priced)}
    IN  window.boxes = 0 /\ s.reason # "TabChanged" =>
            /\ s.items \ window.repriced = passing(Filters) \ window.repriced
            /\ s.items \subseteq passing(Filters \ {"priced"})

(* A search has no filter the user has never touched in it: nothing gets   *)
(* there from another search by the form they share (ToForm, ResetForm).   *)
(* The colours are the exception: their ToForm does not empty the boxes.   *)
OwnFilters ==
    \A n \in DOMAIN window.searches :
        LET s == window.searches[n]
        IN  \A f \in Filters \ Kept : s.data[f] => f \in s.typed

(* Once the panel has caught up, it tells of the current item, and the     *)
(* image in it is that item's, however late the replies come               *)
(* (UpdateCurrentItem, OnImageFetched).                                    *)
ImageIsOfTheItem ==
    window.item # NoItem /\ ~window.updating =>
        /\ window.panel = ItemThing(window.item)
        /\ window.image \in {Loading, Compared(window.item)}

(* While an item is current, only the user adds others to the selection, and*)
(* with that to what OnBuyoutChange would price: rows that now hold other  *)
(* items do not stay selected (OnLayoutChanged).                           *)
OnlyUserSelects ==
    [][window.item # NoItem /\ ~ (\E row \in AllRows : ChooseRow(row))
        => Selected(window') \subseteq Selected(window) \cup {ItemThing(window.item)}]_vars
=============================================================================
