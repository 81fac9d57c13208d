-------------------------- MODULE ItemsManagerWorker --------------------------
(***************************************************************************)
(* ItemsManagerWorker (src/itemsmanagerworker.cpp): an update fetches the  *)
(* list of stash tabs and the list of characters, then the items of every  *)
(* tab that is not kept, counts the replies, and shows and saves the       *)
(* result when the last one is in.  Here is what both modes share, and the *)
(* OAuth mode; LegacyUpdates EXTENDS it with the legacy mode and puts the  *)
(* two together.                                                           *)
(*                                                                         *)
(* Requests go through the RateLimiter.  What the worker sees of it is     *)
(* that replies to one endpoint come in the order of the requests, and     *)
(* that the first Submit to an endpoint runs a nested event loop, in which *)
(* any other slot may run before Submit returns.                           *)
(*                                                                         *)
(* A "load" stands for the items one reply brought for one tab: the part   *)
(* of the tab they are, the place the tab had in the list, and the tab     *)
(* they were really in.  The number of the update a request belongs to is  *)
(* not in the code: it is there to tell what an update asked for from what *)
(* arrived during it.                                                      *)
(***************************************************************************)
EXTENDS Integers, Sequences, FiniteSets, SequencesExt, FiniteSetsExt

CONSTANTS
    Stashes,         \* stash tabs, by unique id
    Characters,      \* characters, by name
    MaxUpdates,      \* bound: updates started, in each mode
    MaxChanges       \* bound: tabs created or deleted in the game

Tabs == Stashes \cup Characters
Kinds == {"stash", "character"}
KindOf(t) == IF t \in Stashes THEN "stash" ELSE "character"
Total(f) == f["stash"] + f["character"]

\* kOauthListStashesEndpoint, kOAuthListCharactersEndpoint, and the endpoints
\* of one stash tab and of one character; "jewels" is kCharacterSocketedJewels,
\* which the legacy mode alone asks for.
ListEndpoint == [kind \in Kinds |-> IF kind = "stash" THEN "stashList" ELSE "characterList"]
Endpoints == Kinds \cup {"stashList", "characterList", "jewels"}

\* Requests that are not for a tab: a list, or the selected character.
NoTabs == {"stashList", "characterList", "selected"}

ASSUME WorkerAssumption ==
    /\ IsFiniteSet(Stashes) /\ Stashes # {} /\ IsFiniteSet(Characters)
    /\ Stashes \cap Characters = {} /\ Tabs \cap NoTabs = {}
    /\ MaxUpdates \in [{"OAUTH", "LEGACY"} -> Nat] /\ MaxChanges \in Nat

VARIABLES
    mode,            \* m_mode
    order,           \* the stash tabs in the game, from left to right, with their names
    world,           \* the tabs that exist in the game, characters included
    changes,         \* how often that has changed
    update,          \* how many updates were started
    updating,        \* m_updating
    need,            \* m_need_stash_list, m_need_character_list
    has,             \* m_has_stash_list, m_has_character_list
    tabs,            \* m_tabs: how often each tab is in the list
    index,           \* m_tab_id_index
    items,           \* m_items, as loads
    queue,           \* m_queue
    needed,          \* m_stashes_needed, m_characters_needed
    received,        \* m_stashes_received, m_characters_received
    calls,           \* Submit calls waiting in a nested loop, innermost last
    known,           \* endpoints the rate limiter has a manager for
    wire,            \* the requests not answered yet, in the order of submission
    stored,          \* the data store: tabs by kind, items by tab
    shown,           \* the last ItemsRefreshed signal
    spoiled,         \* an update was given up since the program was started
    misfiled,        \* items were saved under another tab, be it long ago
    mixed,           \* after one was given up, two updates were saved as one, be it long ago
    unread,          \* tabs for which the last reply was an error (legacy mode)
    lastBad          \* the last reply counted was an error (legacy mode)

gameVars  == <<mode, order, world, changes>>
stateVars == <<need, has, tabs, index, items, needed, received>>
netVars   == <<calls, known, wire>>
history   == <<spoiled, misfiled, mixed, unread, lastBad>>
workerVars ==
    <<gameVars, update, updating, stateVars, queue, netVars, stored, shown, history>>

None == [kind \in Kinds |-> FALSE]
Zero == [kind \in Kinds |-> 0]
Listed(bag) == {t \in Tabs : bag[t] > 0}
ItemsOf(t, loads) == {l \in loads : l.tab = t}
\* An empty tab leaves no items behind.
Full(loads) == {l \in loads : l.full}

\* A character takes two requests in the legacy mode.
PartsIn(m, t) ==
    IF m = "LEGACY" /\ t \in Characters THEN {"character", "jewels"} ELSE {KindOf(t)}
Parts(t) == PartsIn(mode, t)

Load(t, part, at, gen, full) ==
    [tab |-> t, part |-> part, of |-> t, at |-> at, gen |-> gen, full |-> full]

\* Names are told apart from what they were at the start, no more.
Orders ==
    UNION {{[k \in DOMAIN ids |-> [id |-> ids[k], name |-> names[k]]] :
              names \in [DOMAIN ids -> {"old", "new"}]} :
           ids \in {q \in UNION {[1..n -> Stashes] : n \in 1..Cardinality(Stashes)} :
                      IsInjective(q)}}
OldNames == {o \in Orders : \A k \in DOMAIN o : o[k].name = "old"}
Ids(o) == {o[k].id : k \in DOMAIN o}

\* The place of a stash tab in the game; a character has none.
NoPlace == 0
PlaceIn(o, t) == IF t \in Ids(o) THEN CHOOSE k \in DOMAIN o : o[k].id = t ELSE NoPlace

ListRequest(kind, gen) ==
    [endpoint |-> ListEndpoint[kind], tab |-> ListEndpoint[kind], gen |-> gen, at |-> NoPlace]

\* The request and the location of a tab of the list.
TabRequest(t, gen) ==
    [endpoint |-> KindOf(t), tab |-> t, gen |-> gen, at |-> PlaceIn(order, t)]

-----------------------------------------------------------------------------
\* A first start, with the tabs an earlier session stored.
WorkerInit ==
    /\ mode \in {"OAUTH", "LEGACY"}
    /\ order \in OldNames /\ world \in {Ids(order) \cup set : set \in SUBSET Characters}
    /\ changes = 0 /\ update = 0 /\ updating = FALSE
    /\ need = None /\ has = None
    /\ \/ tabs = [t \in Tabs |-> 0]
       \/ tabs = [t \in Tabs |-> IF t \in world THEN 1 ELSE 0]
    /\ index = Listed(tabs)
    /\ items = UNION {{Load(t, part, PlaceIn(order, t), 0, TRUE) : part \in Parts(t)} :
                       t \in Listed(tabs)}
    /\ queue = <<>> /\ needed = Zero /\ received = Zero
    /\ calls = <<>> /\ known = {} /\ wire = <<>>
    /\ stored = [tabs  |-> [kind \in Kinds |-> {t \in Listed(tabs) : KindOf(t) = kind}],
                 items |-> [t \in Tabs |-> ItemsOf(t, items)]]
    /\ shown = [tabs |-> Listed(tabs), items |-> items]
    /\ spoiled = FALSE /\ misfiled = FALSE /\ mixed = FALSE /\ unread = {} /\ lastBad = FALSE

\* The player creates or deletes a character, or creates, deletes and moves tabs.
Play ==
    /\ changes < MaxChanges
    /\ changes' = changes + 1
    /\ \/ \E c \in Characters : world' = (world \ {c}) \cup ({c} \ world) /\ UNCHANGED order
       \/ order' \in OldNames \ {order} /\ world' = (world \ Stashes) \cup Ids(order')
    /\ UNCHANGED <<mode, update, updating, stateVars, queue, netVars, stored, shown, history>>

-----------------------------------------------------------------------------
(***************************************************************************)
(* RateLimiter::Submit of the requests q in turn, with the wire w and the  *)
(* call stack given.  The first n go out; the next, if there is one, is to *)
(* an endpoint that is not known, and stays in the call stack, in a nested *)
(* event loop.  known' are the endpoints known by then.                    *)
(***************************************************************************)
Submit(q, n, w, stack) ==
    /\ \A k \in 1..n : q[k].endpoint \in known'
    /\ n < Len(q) => q[n + 1].endpoint \notin known'
    /\ wire' = w \o SubSeq(q, 1, n)
    /\ calls' = stack \o IF n < Len(q) THEN <<q[n + 1]>> ELSE <<>>

\* How many of the requests q are for a tab of this kind.
Asked(q, kind) == Cardinality({k \in DOMAIN q : q[k].tab \in Tabs /\ KindOf(q[k].tab) = kind})

\* Mutant: a request that waits for its endpoint is not counted.
LateCounted(q, n) == n

\* A request is counted when it is taken from the queue, before it is submitted.
Counted(q, n) == IF n < Len(q) THEN n + 1 ELSE n

\* The loop of FetchItems over the queue q, entered or resumed with the counters
\* count, the wire w and the call stack given.
FetchItems(q, count, w, stack) ==
    \E n \in 0..Len(q) :
        /\ Submit(q, n, w, stack)
        /\ queue' = SubSeq(q, n + 2, Len(q))
        /\ needed' = [kind \in Kinds |->
               count[kind] + Asked(SubSeq(q, 1, Counted(q, n)), kind)]

\* OAuthRefresh: the lists of these kinds, the stash tabs first.
ListRequests(kinds, gen) ==
    (IF "stash" \in kinds THEN <<ListRequest("stash", gen)>> ELSE <<>>)
        \o (IF "character" \in kinds THEN <<ListRequest("character", gen)>> ELSE <<>>)

OAuthRefresh(kinds, gen, w, stack) ==
    \E n \in 0..Len(ListRequests(kinds, gen)) : Submit(ListRequests(kinds, gen), n, w, stack)

\* What an update may be asked for: all tabs, or those that are checked or selected.
Selections ==
    {[all |-> TRUE, tabs |-> {}]}
        \cup [all : {FALSE}, tabs : SUBSET (Listed(tabs) \cup shown.tabs)]

\* m_need_stash_list and m_need_character_list: a tab of that kind is to be updated.
KindsNeeded(choice) ==
    IF choice.all THEN Kinds ELSE {KindOf(t) : t \in choice.tabs \cap Listed(tabs)}

(***************************************************************************)
(* Update, up to the refresh of the mode: the tabs to update and their     *)
(* items are forgotten.  With nothing selected the index stays as it is.   *)
(***************************************************************************)
StartUpdate(choice) ==
    LET kept == IF choice.all THEN {} ELSE Tabs \ choice.tabs IN
    /\ update' = update + 1 /\ updating' = TRUE
    /\ queue' = <<>>
    /\ need' = [kind \in Kinds |-> kind \in KindsNeeded(choice)] /\ has' = None
    /\ tabs' = [t \in Tabs |-> IF t \in kept THEN tabs[t] ELSE 0]
    /\ index' = IF choice = [all |-> FALSE, tabs |-> {}] THEN index ELSE Listed(tabs) \cap kept
    /\ items' = {l \in items : l.tab \in kept}
    /\ unread' = unread \cap kept /\ lastBad' = FALSE
    /\ UNCHANGED <<gameVars, needed, received, known, stored, shown, spoiled, misfiled, mixed>>

MayUpdate(m) == mode = m /\ ~updating /\ update < MaxUpdates[m]

Update ==
    /\ MayUpdate("OAUTH")
    /\ \E choice \in Selections :
          /\ StartUpdate(choice)
          /\ OAuthRefresh(KindsNeeded(choice), update', wire, calls)

-----------------------------------------------------------------------------
\* The oldest unanswered requests, each to its endpoint: one of them is answered.
Oldest ==
    {k \in DOMAIN wire : \A j \in DOMAIN wire : j < k => wire[j].endpoint # wire[k].endpoint}
Answered(k) == k \in Oldest /\ UNCHANGED <<gameVars, known, update>>
Rest(k) == RemoveAt(wire, k)

\* Mutant: the index is not looked at.
EveryTab(kind) == {t \in world : KindOf(t) = kind}

\* The tabs of a list that are not kept.
NewTabs(kind) == {t \in world : KindOf(t) = kind} \ index

\* These tabs as a list names them: stash tabs from left to right, characters in any
\* order.
InListOrder(set) ==
    {q \in [1..Cardinality(set) -> set] :
        /\ IsInjective(q) /\ set \subseteq ToSet(q)
        /\ \A i, j \in DOMAIN q : i < j => PlaceIn(order, q[i]) <= PlaceIn(order, q[j])}

\* Mutant: the counters of received replies go on.
KeepCounters == received' = received

ResetCounters == received' = Zero

(***************************************************************************)
(* What the slot of a list does in either mode, with the reply to the k-th *)
(* request: the tabs not in the index are added and their requests put     *)
(* in the queue; when both lists that are needed are in, the items are     *)
(* fetched.  A stash tab goes into the index, a character does not.  The   *)
(* tabs "moved or renamed" are looked for among m_tabs itself, so that     *)
(* none is ever found.                                                     *)
(***************************************************************************)
ListReceived(kind, k, requests) ==
    LET other == IF kind = "stash" THEN "character" ELSE "stash"
        new   == NewTabs(kind)
        q     == queue \o requests
    IN  /\ Answered(k)
        /\ tabs' = [t \in Tabs |-> tabs[t] + IF t \in new THEN 1 ELSE 0]
        /\ index' = IF kind = "stash" THEN index \cup new ELSE index
        /\ has' = [has EXCEPT ![kind] = TRUE]
        /\ IF need[other] /\ ~has[other]
           THEN /\ queue' = q /\ wire' = Rest(k)
                /\ UNCHANGED <<calls, needed, received>>
           ELSE /\ ResetCounters
                /\ FetchItems(q, Zero, Rest(k), calls)
        /\ UNCHANGED <<updating, need, items, stored, shown, history>>

OAuthListReceived(kind) ==
    \E k \in Oldest, new \in InListOrder(NewTabs(kind)) :
        /\ mode = "OAUTH" /\ wire[k].tab = ListEndpoint[kind]
        /\ ListReceived(kind, k, [i \in DOMAIN new |-> TabRequest(new[i], wire[k].gen)])

OnOAuthStashListReceived == OAuthListReceived("stash")
OnOAuthCharacterListReceived == OAuthListReceived("character")

\* SetTabs is called for a kind there is a tab of.
SavedTabs(kind) ==
    LET now == {t \in Listed(tabs) : KindOf(t) = kind}
    IN  IF now = {} THEN stored.tabs[kind] ELSE now

\* The place of a load among the locations: ItemLocation::operator< orders stash
\* tabs by their place, before the characters, and so does the map of FinishUpdate.
SpotOf(l) == IF l.tab \in Stashes THEN <<"stash", l.at>> ELSE <<"character", l.tab>>
Before(a, b) == a[1] = "stash" /\ (b[1] = "character" \/ a[2] < b[2])
Spots(loads) == {SpotOf(l) : l \in Full(loads)}

(***************************************************************************)
(* SetItems is called for each spot there is an item at, with the location *)
(* of the first of them.  Two stash tabs are at one spot when one of them  *)
(* was kept, with its old place, and the other has moved there: the items  *)
(* of both are then written under one of them.  Of two spots of one tab    *)
(* the later replaces what was written for the other.                      *)
(***************************************************************************)
TabsAt(s, loads) == {l.tab : l \in {m \in Full(loads) : SpotOf(m) = s}}
Filings(loads) ==
    {f \in [Spots(loads) -> Tabs] : \A s \in Spots(loads) : f[s] \in TabsAt(s, loads)}

\* The last of these spots that is filed under t.
IsLastOf(t, s, spots, filing) ==
    /\ s \in spots /\ filing[s] = t
    /\ ~ \E b \in spots : filing[b] = t /\ Before(s, b)

\* Mutant: only what this update has read is saved.
FreshSavedItems(t, spots, loads, filing) ==
    {[l EXCEPT !.tab = t] :
        l \in {m \in Full(loads) : IsLastOf(t, SpotOf(m), spots, filing) /\ m.gen = update}}

SavedItems(t, spots, loads, filing) ==
    {[l EXCEPT !.tab = t] : l \in {m \in Full(loads) : IsLastOf(t, SpotOf(m), spots, filing)}}

\* The data store once the tabs of these kinds and the items at these spots are
\* written; what is not written stays.
Disk(kinds, spots, loads, filing) ==
    [tabs  |-> [kind \in Kinds |-> IF kind \in kinds THEN SavedTabs(kind) ELSE stored.tabs[kind]],
     items |-> [t \in Tabs |-> IF \E s \in spots : filing[s] = t
                               THEN SavedItems(t, spots, loads, filing) ELSE stored.items[t]]]

\* No tab has items of two updates, or the same part of them twice.
Uniform(disk) ==
    \A t \in Tabs : \A l, m \in disk.items[t] : l.gen = m.gen /\ (l.part = m.part => l = m)

\* Save everything, and show it.
FinishUpdate(loads) ==
    /\ \E filing \in Filings(loads) : stored' = Disk(Kinds, Spots(loads), loads, filing)
    /\ shown' = [tabs |-> Listed(tabs), items |-> loads]
    /\ updating' = FALSE
    /\ misfiled' = (misfiled \/ \E l, m \in Full(loads) : SpotOf(l) = SpotOf(m) /\ l.tab # m.tab)
    /\ mixed' = (mixed \/ (spoiled /\ ~Uniform(stored')))

\* The reply to r is the last that is waited for.
Count(r) == [received EXCEPT ![KindOf(r.tab)] = @ + 1]
IsLast(r) == Count(r) = needed

(***************************************************************************)
(* OnOAuthStashReceived and OnOAuthCharacterReceived.  There is no reply   *)
(* for a tab that is gone, nor for the requests behind it: the rate        *)
(* limiter delivers only successes and then stands still.                  *)
(***************************************************************************)
Received(r, full) == items \cup {Load(r.tab, r.endpoint, r.at, r.gen, full)}

OAuthItemsReceived(kind) ==
    \E k \in Oldest, full \in BOOLEAN :
        LET r == wire[k] IN
        /\ mode = "OAUTH" /\ r.endpoint = kind /\ r.tab \in world
        /\ Answered(k) /\ wire' = Rest(k)
        /\ items' = Received(r, full) /\ received' = Count(r)
        /\ IF IsLast(r)
           THEN FinishUpdate(items') ELSE UNCHANGED <<updating, stored, shown, misfiled, mixed>>
        /\ UNCHANGED <<need, has, tabs, index, queue, needed, calls, spoiled, unread, lastBad>>

OnOAuthStashReceived == OAuthItemsReceived("stash")
OnOAuthCharacterReceived == OAuthItemsReceived("character")

\* A reply that cannot be parsed, or lacks its list or object: the update is given up.
GiveUp(k) ==
    /\ Answered(k) /\ wire' = Rest(k)
    /\ updating' = FALSE /\ spoiled' = TRUE
    /\ UNCHANGED <<stateVars, queue, calls, stored, shown, misfiled, mixed, unread, lastBad>>

BadReply == mode = "OAUTH" /\ \E k \in Oldest : GiveUp(k)

(***************************************************************************)
(* The innermost Submit returns and its caller goes on: FetchItems with    *)
(* the queue as it is by now, OAuthRefresh with the list of characters.    *)
(***************************************************************************)
SubmitReturns ==
    /\ mode = "OAUTH" /\ calls # <<>>
    /\ LET r     == calls[Len(calls)]
           stack == SubSeq(calls, 1, Len(calls) - 1)
           w     == Append(wire, r)
       IN  /\ known' = known \cup {r.endpoint}
           /\ IF r.tab \in Tabs
              THEN FetchItems(queue, needed, w, stack)
              ELSE /\ OAuthRefresh(IF r.endpoint = "stashList" /\ need["character"]
                                   THEN {"character"} ELSE {}, r.gen, w, stack)
                   /\ UNCHANGED <<queue, needed>>
    /\ UNCHANGED <<gameVars, update, updating, need, has, tabs, index, items,
                   received, stored, shown, history>>

(***************************************************************************)
(* The program is started again over what is on the disk: CleanItemsTable  *)
(* drops the items of tabs that are not stored (if both kinds are),        *)
(* ParseItemMods loads the rest.                                           *)
(***************************************************************************)
RestartOver(disk) ==
    LET all == disk.tabs["stash"] \cup disk.tabs["character"]
        clean == IF \A kind \in Kinds : disk.tabs[kind] # {}
                 THEN [t \in Tabs |-> IF t \in all THEN disk.items[t] ELSE {}]
                 ELSE disk.items
        read(t) == {l.part : l \in clean[t]}
    IN  /\ updating' = FALSE /\ need' = None /\ has' = None
        /\ tabs' = [t \in Tabs |-> IF t \in all THEN 1 ELSE 0] /\ index' = all
        /\ items' = UNION {clean[t] \cup {Load(t, part, NoPlace, 0, FALSE) :
                                              part \in Parts(t) \ read(t)} : t \in all}
        /\ queue' = <<>> /\ needed' = Zero /\ received' = Zero
        /\ calls' = <<>> /\ known' = {} /\ wire' = <<>>
        /\ stored' = [disk EXCEPT !.items = clean]
        /\ shown' = [tabs |-> all, items |-> items']
        /\ misfiled' = (misfiled \/ \E l \in items' : l.of # l.tab)
        /\ mixed' = (mixed \/ (spoiled /\ ~Uniform(stored'))) /\ spoiled' = FALSE
        /\ unread' = {} /\ lastBad' = FALSE
        /\ UNCHANGED <<gameVars, update>>

Restart == RestartOver(stored)

(***************************************************************************)
(* The program dies within FinishUpdate, between two of its writes: the    *)
(* tabs of one kind, those of the other, then the items spot by spot.      *)
(***************************************************************************)
CrashAmidWrites(loads) ==
    \E filing \in Filings(loads) :
        \/ RestartOver(Disk({"stash"}, {}, loads, filing))
        \/ \E spots \in SUBSET Spots(loads) :
              /\ \A a \in Spots(loads), b \in spots : Before(a, b) => a \in spots
              /\ RestartOver(Disk(Kinds, spots, loads, filing))

CrashInFinishUpdate ==
    /\ mode = "OAUTH"
    /\ \E k \in Oldest, full \in BOOLEAN :
          LET r == wire[k] IN
          r.tab \in world /\ IsLast(r) /\ CrashAmidWrites(Received(r, full))

WorkerNext ==
    \/ Play
    \/ Update
    \/ OnOAuthStashListReceived
    \/ OnOAuthCharacterListReceived
    \/ OnOAuthStashReceived
    \/ OnOAuthCharacterReceived
    \/ BadReply
    \/ SubmitReturns
    \/ Restart
    \/ CrashInFinishUpdate

-----------------------------------------------------------------------------
(* Properties. *)

Places   == 0..Cardinality(Stashes)
Loads    == [tab : Tabs, part : Kinds \cup {"jewels"}, of : Tabs, at : Places, gen : Nat,
             full : BOOLEAN]
Requests == [endpoint : Endpoints, tab : Tabs \cup NoTabs, gen : Nat, at : Places]

\* The variables have their types.
WorkerTypeOK ==
    /\ mode \in {"OAUTH", "LEGACY"}
    /\ order \in Orders /\ world \subseteq Tabs /\ world \cap Stashes = Ids(order)
    /\ changes \in Nat /\ update \in Nat
    /\ updating \in BOOLEAN /\ need \in [Kinds -> BOOLEAN] /\ has \in [Kinds -> BOOLEAN]
    /\ tabs \in [Tabs -> Nat] /\ index \subseteq Tabs /\ items \subseteq Loads
    /\ queue \in Seq(Requests) /\ needed \in [Kinds -> Nat] /\ received \in [Kinds -> Nat]
    /\ calls \in Seq(Requests) /\ known \subseteq Endpoints /\ wire \in Seq(Requests)
    /\ stored \in [tabs : [Kinds -> SUBSET Tabs], items : [Tabs -> SUBSET Loads]]
    /\ shown \in [tabs : SUBSET Tabs, items : SUBSET Loads]
    /\ spoiled \in BOOLEAN /\ misfiled \in BOOLEAN /\ mixed \in BOOLEAN
    /\ unread \subseteq Tabs /\ lastBad \in BOOLEAN

\* A reply leads to FinishUpdate.
Finishes == Total(received') = Total(received) + 1 /\ shown' # shown

\* Each tab is listed once, each part of its items was read exactly once (unless
\* the reply was an error), and no items belong to a tab that is not listed.
Whole(list, loads) ==
    \A t \in Tabs :
        /\ list[t] \in {0, 1}
        /\ \A l, m \in ItemsOf(t, loads) : l.part = m.part => l = m
        /\ t \notin unread =>
              {l.part : l \in ItemsOf(t, loads)} = IF list[t] = 1 THEN Parts(t) ELSE {}

(***************************************************************************)
(* What FinishUpdate shows is whole, as long as no update was given up, no *)
(* items were filed under another tab, and the data store is not a mixture *)
(* of two updates: after one was given up, the replies that still come are *)
(* counted and saved with those of the next.                               *)
(***************************************************************************)
UpdateIsWhole ==
    [][Finishes /\ ~spoiled /\ ~misfiled /\ ~mixed => Whole(tabs', shown'.items)]_workerVars

(***************************************************************************)
(* An update is finished only when every request it made is answered, the  *)
(* ones included that a nested loop in FetchItems still keeps back.        *)
(***************************************************************************)
FinishedIsAnswered ==
    [][Finishes /\ ~spoiled =>
          /\ queue' = <<>>
          /\ \A r \in ToSet(calls') \cup ToSet(wire') : r.tab = "selected"]_workerVars

\* Only a restart makes the rate limiter forget the endpoints it knows.
Restarted == known # {} /\ known' = {}

(***************************************************************************)
(* A program that ends or dies, be it between two writes of FinishUpdate,  *)
(* and is started again, shows items of every tab that is still listed, as *)
(* new as before, and never items of one tab from two updates; and it      *)
(* lists every tab it showed, unless a newer list was being written.  Only *)
(* items filed under another tab are beyond help; once an update was given *)
(* up, the items may be older, and of two updates.                         *)
(***************************************************************************)
RestartLosesNothing ==
    [][Restarted /\ ~misfiled' =>
          /\ \A l \in Full(shown.items) :
                l.tab \in shown'.tabs =>
                    \E m \in Full(shown'.items) : m.tab = l.tab /\ (spoiled \/ m.gen >= l.gen)
          /\ ~spoiled /\ ~mixed =>
                \A l, m \in Full(shown'.items) : l.tab = m.tab => l.gen = m.gen
          /\ stored'.tabs = stored.tabs => shown.tabs \subseteq shown'.tabs]_workerVars

(***************************************************************************)
(* The replies still to come are the ones the worker waits for, as long as *)
(* no update was given up: neither a finish that is too early nor an       *)
(* update that waits for a reply nobody will send.                         *)
(***************************************************************************)
WaitingIsCounted ==
    ~spoiled =>
        \A kind \in Kinds :
            needed[kind] - received[kind] = Asked(calls, kind) + Asked(wire, kind)

\* A request whose tab is gone is never answered, nor is one behind it.
Deaf ==
    \E k \in Oldest :
        wire[k].tab \in (IF mode = "OAUTH" THEN Tabs ELSE Characters) \ world

(***************************************************************************)
(* What FinishUpdate's "Received nothing." is there for: an update that    *)
(* finds nothing to fetch finishes too.                                    *)
(***************************************************************************)
EveryUpdateFinishes == updating ~> (~updating \/ spoiled \/ Deaf)
=============================================================================
