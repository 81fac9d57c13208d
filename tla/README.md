# Acquisition: a verification project

Acquisition is a desktop program for players of Path of Exile. It downloads the
contents of an account's stash tabs and characters within the server's rate
limits, lets the user price items, and posts the priced ones to shop threads in
the game's forum. This directory holds TLA+ modules of its core, the TLC runs that
check them on small instances, and theorems about them proved with TLAPS. Paths below are
relative to `src/` of the repository.

## 1. Inventory

One Qt event loop runs nearly everything: what is concurrent here are *slots*.
Between the slots of a request other slots run; `RateLimiter::SetupEndpoint` also
runs a nested event loop, so that slots run in the middle of other slots. There is
one real second thread, which parses the stored items at the start.

| component | state | operations | hard because of | correct when |
|---|---|---|---|---|
| `RateLimitManager`, `RateLimitPolicy` | policy, history of reply dates, active request, queue, timer | QueueRequest, ActivateRequest, SendRequest, ReceiveReply, Update | windows of several lengths, the server's own clock buckets, retries, callbacks inside ReceiveReply | never one request too many; one at a time; in order; every request comes back |
| `RateLimiter` | managers by policy and by endpoint, nested loops | Submit, SetupEndpoint, ProcessHeadResponse, GetManager, SendRequest | nested event loops on top of each other and inside callbacks | a request is in exactly one place, and is delivered |
| `ItemsManagerWorker` | tabs, index, items, queue, counters, flags, signature | Init, ParseItemMods, Update, list and item slots of both modes, FinishUpdate | two lists in either order, tabs moved while they are fetched by place, nested loops, updates given up, a thread, writes one by one | what it shows is whole and belongs to its tab; an update ends; a restart loses nothing |
| `ItemsManager` | items, auto-update timer | Update, OnItemsRefreshed | called while the worker starts | what it queues is done; prices follow tabs and notes |
| `Shop` | texts, hash, threads, index of tabs, submitting and indexing flags | Update, SubmitShopToForum, index and forum slots | a submission is a chain of slots and delays, while the user edits | one chain; one text for all threads; it ends; skipped only when nothing has changed |
| `RePoE` | local version, files, needed files | Init, OnVersionReceived, OnFileReceived, FinishUpdate | download cut short, another directory, failures | ready only with whole data |
| `Application` | the objects above | InitUserDir, Start, OnLogin, InitLogin, SetUserDir, Stop, OnItemsRefreshed | order of creation, a nested loop in OnLogin | items are loaded whichever ends first |
| `BuyoutManager`, `Buyout` | prices by item and by tab, check marks, locks | Set, SetTab, Compress, Save, Load | inheritance, prices from the game and from the user | a user's price is never lost; inherited ones follow their tab |
| `OAuthManager` | token, refresh timer, pages, verifier, the stored copy | requestAccess, createHttpServer, receiveToken, requestRefresh, RememberToken | a page per click, refreshes against expiry, late and failing replies | a token in use is valid and the account's own; what is remembered is the last one |
| `LoginDialog` | leagues, buttons, the legacy chain of requests, settings | the slots of its buttons and replies | the dialog stays usable during a login | the main window gets an account and the league shown |
| `UpdateChecker` | versions found and skipped | CheckForUpdates, OnUpdateReplyReceived, AskUserToUpdate | replies overtake, who listens changes, boxes on boxes | news get to the user; what was skipped stays so |
| `MainWindow`, `Search`, filters, `ImageCache` | searches, a bar of tabs, one shared form, the current item and bucket, images | slots of the form, the bar, the view and the timers; FilterItems; fetch | handlers call each other through signals; refreshes replace every item | the bar, the view, the selection and the panel agree on what they are of |
| `DataStore` | SQLite tables | Get/Set, tabs, items, currency | writes one by one | a crash leaves something consistent |
| `CurrencyManager` | values of currencies | Update, Save | little | |
| items, tooltip, rate limit dialog, utilities | | parsing, showing | sequential | tested |

How they interact: `ItemsManagerWorker` and `Shop` submit requests to the
`RateLimiter` and get `RateLimitedReply::complete` back. `RateLimiter` hands each
request to the manager of its policy. The worker's `ItemsRefreshed` runs
`ItemsManager::OnItemsRefreshed`, whose signal runs `Application::OnItemsRefreshed`,
which updates and perhaps submits the shop; the main window filters all its searches
again in a later slot of it, after any message box the shop has put up. `LoginDialog` and `OAuthManager` tell `Application` of a
login, which creates what works on the account's data. `RePoE::finished` starts the parser
thread. The data store is shared by the worker, the shop and the buyouts.

What can go wrong in all this and a test would hardly reach is listed, line by
line, as `hazards` in `PROJECT.json`, with the properties that cover each.

## 2. Modules

| module | models | runs |
|---|---|---|
| `RequestQueue` | what a manager is to its callers: an abstract line of requests | as the property ImplementsQueue |
| `RateLimitManager` | one manager, with the network, the server that counts hits and the callers | via `MCRateLimitManager` |
| `RateLimiter` | EXTENDS the manager with Submit and the nested loops | via `MCRateLimiter` |
| `RateLimiterProofs` | theorems of the queue, of the manager and of the limiter | |
| `ItemsManagerWorker` | the worker's state, an OAuth update, the stored data, crashes and restarts | |
| `LegacyUpdates` | EXTENDS the worker with the legacy mode, and joins the two | via `MCItemsManagerWorker` |
| `WorkerProofs` | theorems of the worker in both modes | |
| `Shop`, `ShopProofs` | submissions, the stash index, the data and hash; its theorems | via `MCShop` |
| `RePoE` | the download of the game data into directories | |
| `Startup` | EXTENDS RePoE with login, the parser thread and the first update | via `MCStartup` |
| `StartupProofs` | theorems of RePoE and Startup | |
| `Buyouts`, `BuyoutsProofs` | prices of items and tabs, from the user, the game and the tab, and their storage; its theorems | via `MCBuyouts` |
| `OAuthManager` | the token, its refresh, the pages of the authorisation, the stored copy | |
| `Login` | EXTENDS OAuthManager with the dialog and the application that own it | via `MCLogin` |
| `LoginProofs` | theorems of OAuthManager and Login | |
| `UpdateChecker`, `UpdateCheckerProofs` | releases, questions, and who listens; its theorems | itself |
| `Search` | one search: filters and form, what it finds, buckets and rows | |
| `MainWindow` | EXTENDS Search with the bar, the view, the panel and the image cache | via `MCMainWindow` |
| `MainWindowProofs` | theorems of Search and MainWindow | |

The MC modules only give names to small constants. Every definition that stands
for code is mapped to its lines in `PROJECT.json`. A definition that a comment calls a
mutant is a plausible bug, there to show that the property it names in
`PROJECT.json` can fail.

**RateLimitManager.** `active`, `queue`, `timer`, `history`, `hits` are the
members of the same purpose; `orphan` says that `m_active_request->reply` is null.
Each slot is an action; `ActivateRequest` is an operator used by those that call
it. `ReceiveReply` has the four outcomes of the code: success, Retry-After,
another error, no header. `SendTimes` is the code's maximum over items, with the
history looked up at the limit or as far back as it goes. `sent`, `replies` and
`log` are the network and the server; `submitted`, `finished`, `delivered` and
`notBefore` record what happened, for the properties.

**RequestQueue.** Requests join the end of one `line`; the head is answered, its
caller is called back, unless it had to be sent again, and may join with another
request in that call. `Line` of RateLimitManager is the refinement mapping: the active
request, unless it is answered already, followed by `queue`.

**RateLimiter.** A call of `SetupEndpoint` in its nested loop is a frame of
`loops`. A reply to a HEAD request marks its own frame; only the innermost frame
can return, and it does what `ProcessHeadResponse` does and, if it was called from
a slot of `complete()`, the rest of the suspended `ReceiveReply`.

**ItemsManagerWorker and LegacyUpdates.** Tabs are model values; what one reply
brought for one tab is a *load*, with the tab it is filed under (`tab`) and the tab it
is of (`of`). `calls` are Submit calls still in a nested loop, `known` the endpoints
that need none, `wire` the unanswered requests as they were submitted: the replies to one
endpoint come in that order (`Oldest`), which is what `RateLimiter` guarantees
(`FirstComeFirstServed`), those to different endpoints in any. Both OAuth list slots are
`ListReceived(kind)` and both item slots `ItemsReceived(kind)`, as they are the
same code but for the index. In the legacy mode a stash tab is asked for by its
place, and the game answers with what is at that place by then; `order` is how the
player has arranged the tabs, which changes under an update. A reply may lack the list
of all tabs, which cancels the update like a changed one (`TabsChanged`). `FinishUpdate` is a
sequence of writes of which a crash leaves a prefix. `gen`, the update a request was
made in, is not in the code; `spoiled` says that an update was given up while
requests of it were out, `misfiled` that two tabs were saved as one, `mixed` that two
updates of one tab were.

**Shop.** The text is one value, the *content*: only whether it changed matters.
`chains` are the submissions under way: waiting for an edit page, for a delay, or
for the reply to a post. An empty `hash` is "no hash".

**RePoE and Startup.** A file holds what it was published as, and its version, or the
page of an error: `reply->error()` is compared with 200..299 as if it were an HTTP
status, and Qt numbers its errors about the content so. Such a page passes for the version
(`ErrorText`) or for a file (`errorPage`), and only other errors take the error path
(`RequestFails`).
`downloads` are the requests under way, one per call of Init. In `Startup`,
`m_initialized`, `m_updating` and `m_updateRequest` are read and written by two
threads without a lock: each access is a step, on the parser thread (`thread`) and
on the main thread (`user`).

**Buyouts.** A price, a note and a label are members of small sets; what a note or
a label says is a *text*, which is a price or one of three ways not to be one.
Maps are total: no entry is `NoBuyout`, which is what the code returns for none.
`buyouts` and `oldBuyouts` are the two kinds of key of `m_buyouts`. The four passes
of `ItemsManager::OnItemsRefreshed` are operators from maps to maps (`Migrated`,
`ApplyAutoTabBuyouts`, `ApplyAutoItemBuyouts`, `Propagated` with `Locks`), composed in
the order of the code by `RefreshedBuyouts`; `Written(n, ...)` is what the store holds
after n of the three writes of Save. Twins in a tab share a hash, and which of their notes
has the last word depends on the order of the items: that is a choice (`LastNotes`). Items come with their
tabs: an item whose tab is not listed, which only replies to an update that was
given up could bring, is left out.

**OAuthManager and Login.** A token is its account and its two dates. Each click on
*Authenticate* opens a page with a local server of its own; `verifier` is the number
of the latest, whose code the manager can redeem. A server listens until the manager goes,
so that a page may be answered any number of times. What comes without an error is taken for a
token (`Granted`, or `Garbled` when it does not parse or has no date: its expiry is
`Undated`). An offer of leagues may be empty, and the button is enabled all the same;
`InitLogin` ends the program (`phase` "fatal") when the league or the account is
missing. A program start, or a change of the
user directory, makes a new manager and a new dialog for that directory; settings
and store are per directory. The login with a session id is a chain of two requests
with the dialog usable in between. `Login` says what each step of OAuthManager does to
the rest. `weak` marks a token that was loaded, or whose refresh failed or brought none;
`clean` a login at which no other account was on its way in, and since which no page
that was open then (`login.pages`) was answered for another: neither is in the code.

**UpdateChecker.** Versions are numbers and 0 is none. A reply brings what GitHub had
when the request was sent, so that replies overtake each other. The question is a
message box with an event loop: it stays open while everything else runs, and
others open on top of it. `phase` decides who hears `UpdateAvailable`.

**Search and MainWindow.** A filter is empty or set to one value; what differs is what
its widget does: change the search at once or after 350 ms, announce what the
program sets, keep what it holds. `Rows`, `Thing` and the buckets give a place in the
view the thing it shows. Handlers call each other, so that a handler is an operator
from one `window` record to the next, composed as the code calls them; timers, image
replies and refreshes come in between. What a filter lets through is a set of items,
`Accepts`, but for the box "Priced", which asks the buyout manager: `priced` is what it
answers, changed by refreshes and by the user (`OnBuyoutChange`), and the history
`repriced` is what the user has changed since `ModelViewRefresh` last ran.
`ItemsRefreshed` is the signal: the window's slot (`AllRefreshed`) follows at once, or when
the user closes the message box Application's slot has run into (`boxes`, `BoxClosed`),
and until then timers and replies find new items under old searches.

## 3. Runs

| run | question | result |
|---|---|---|
| ManagerCompliance | is a sole client ever one request over? | no; the inductive invariant holds too |
| ManagerShared | order, penalties, and an end, when others use the policy; is it a RequestQueue? | as promised |
| ManagerRetry | is a request delivered when it is answered? | **no** after a retry |
| LimiterLoops | can nested loops lose, double, overlap or strand a request? | no |
| WorkerUpdates | is what an update shows whole, its tab's own, final, and there after a crash? | yes, until an update is given up |
| WorkerStuck | does every update end? | **no**, when it finds nothing to fetch |
| ShopSubmissions | one chain, one text for all threads, and an end? | yes, until a bad stash index |
| Startup | login and download in any order; requests racing the parser | as promised |
| Buyouts | are prices saved, inherited, locked and overridden as they should be, wherever the program dies? | yes |
| Login | is the session authorised, by its own account, and remembered rightly? | yes, with the exceptions named in §5 |
| Updates | does a newer release get to the user, and a skipped one stay away? | yes, but for what is signalled inside OnLogin |
| Views | do bar, view, selection and panel stay with what they are of? | yes, with the exceptions named in §5 |

The two violations are recorded as `findings` with the comment or message they
contradict. Where a property has an exception (`~spoiled`, `~misfiled`,
`~mixed`, `~overlapped`, `~weak`, `clean`, `unheard`, `repriced`, a filter in `Kept`), the exception is
something the code really gets wrong, and §5 says what.

**Bounds.** Two windows, of 2 hits in 3 ticks and 3 in 7, are the least that make
the two look-backs of one history differ and the buffer overflow; four requests
fill the longer one and go one beyond. Time is cut at `MaxTime`, past which the
clock only runs for an armed timer, so that no armed request is cut off. Three
requests and hits of others are enough for a rejection, a retry and a request
behind it. Two endpoints and four requests give loops in loops, in slots, and
beside busy and idle managers; the limit there is out of reach on purpose, so that
waiting for windows, checked elsewhere, does not multiply the states.
Two stash tabs and one character give lists with kept, new, moved and deleted tabs,
and a tab in the place of another; two OAuth updates give one that follows one given
up, and one legacy update follows either. One change by the player falls anywhere in
them. Two threads and two submissions let a second
submission begin at any point of the first. Two files and two calls of Init let
a download be cut short before, between and after the files and then resumed; a
second directory lets it change. One item name in one tab at a time, with two
labels, gives twins with different notes, tabs that are renamed into and out of a
price, and a remove-only tab; two changes by the user are the least that set a price
and then take it away, or price a tab under an item of its own price.
In Login, a token of 3 ticks with a buffer of 2 and replies within 1 are the shortest
in which a refresh can be early, in time and late; up to tick 5 a token is refreshed and
expires; two pages and two requests for tokens let each of two accounts come in during
the other's login. In Updates, version 1 runs and 2 and 3 are newer, so that a release
and a prerelease can be on either side of each other; three checks let two replies
overtake and a third follow, and two starts give one after a skip. In Views the bounds
are *budgets*: how many searches, edits, choices of a row, modes, prices and refreshes
one behaviour has. Each member of `SomeBudgets` is rich in some and poor in others, as all
at once would be out of reach; four kinds of filter stand for the ways their
widgets and their answers behave. Two refreshes let two message boxes be open at once.
Two items with two icons, one of them a path, let an image come
for an item that is no longer current. Symmetry is used where no liveness is checked, on
tabs, accounts, directories and leagues, of which no definition picks one.

**Fairness.** Weak fairness of the slots stands for the Qt event loop, which runs
timers that are due and slots of finished replies; of the server's answers, for
`QNetworkAccessManager`, which ends every request, if only by its transfer timeout.
`LoopReturn` is fair because a nested loop quits when its HEAD reply is in. For the
worker in either mode there is one fairness condition, `OAuthProgress \/ LegacyProgress`:
as long as some reply or call can be handled, one is. The parser
thread and the main thread are scheduled by the system.
Nothing the user, the game, the forum or another client does is fair, nor is a
restart, a failure or a retry. In `Startup` the network is not fair at all: the
properties begin where the data are there. `Login`, `UpdateChecker` and `MainWindow` are
checked for safety only.

**Deadlock** is not checked: each of these systems may stop when the user asks for
nothing more and the bounds are used up.

## 4. Proofs

The theorems hold for every value of the constants that the named assumptions of the
modules allow: any number of requests, threads, items, tabs, directories, accounts and
searches, and any bound on what a behaviour has of them. In each proof module an
inductive invariant (`...IInv`, `WInv`) is what the properties follow from; there is a lemma per
handler, and under it a step per part that the handler can disturb. What the theorems
state, but for `TypeCorrect`, `ServedInTurnHolds` and `WInvHolds`, is also checked by a run.

### The rate limits (`RateLimiterProofs`)

* `TypeCorrect`, `OneInFlightHolds`: by itself `OneInFlight` is not inductive; with the
  type and the fact that before the first policy nothing is active (`BeforePolicy`) it is.
* `SoleClientInvHolds`, `ComplianceHolds`: if the client is the only one (`SoleClient`)
  and the server dates a hit at most `TimingBucket` late, no request is one too many.
* `Implementation` and `FirstComeFirstServedHolds`: the manager is a `RequestQueue`, for
  any server and any other clients.
* `PenaltyRespectedHolds`: nothing is sent before the last penalty is over.
* `LimiterInvHolds`, `LimiterOneInFlight`: with nested loops, each request is in exactly
  one place, and the manager's requests do not overlap.

Compliance is the point of the rate limiter, and its argument is `SoleClientInv`.
The history is the tail of the server's record, newest first, except for a hit
whose reply is still on its way (`HistoryOK`); it holds at least as many dates as
any limit asks for, or all there are. The record is in order, and a hit is
dated between the time it was handled and a bucket later (`LogOK`). So when the
item is at its limit, the date found a full limit back, plus the period, plus the
bucket that is added at the limit, is a time at which that hit is outside the
window: this is `Room`, which holds of the armed timer, of the request on the
wire, and, below the limit, of the present (`RoomOK`). Below the limit the count
in the reply says that the hit a full limit back had left its window already.
`Compliance` then follows for the hit that is added. TLC checks the same invariant
in ManagerCompliance.

The refinement goes action by action: a submission maps to `Join`, the end of a request
to `Serve`, with the caller's next request if it is called back and makes one, and
everything else, the sending, the rejections, the clock, leaves `Line` as it is. It
needs `OneInFlight`, since what is answered must be the active request. Order is then
proved of the abstract queue, where it is simple (`ServedInTurnHolds`: what was delivered
followed by the line is increasing, and whoever left the line was answered), and
carried over: what `FirstComeFirstServed` says is that together with the manager's own
rule that nothing waits while it is free.

For the penalty, `PenaltyWaited` says that an armed timer ends after it, and that what is on
its way, and a manager that is free, are past it: `ActivateRequest` looks at the limits only
and not at the penalty, which is safe because it is called when there is none.

For the limiter, `Places` says that the ids in the loops and in the queue are distinct and,
with the active and the finished ones, are all that were submitted. `Suspended` says
what makes nested loops harmless: while a slot of `complete()` is in one, the request it has
completed is still the active one, nothing of the manager's is under way, and no
second such slot is. Without it a reply could run inside another `ReceiveReply`.

### Shop (`ShopProofs`)

`SubmissionInvHolds` and `SubmissionIsWholeHolds`, from `ShopIInv`: at most one chain is
not done while nothing is spoiled (`OneSubmission`), and the threads behind it show the
shop data, unless a post was lost (`WholeSoFar`). The second needs that
the data do not change under a submission, which is because an update during one is only
noted.

### Updates of the items (`WorkerProofs`)

`WorkerInvHolds`, `FinishedIsAnsweredHolds`, `UpdateIsWholeHolds`, `ItemsAreTheTabsHolds`
and `RestartLosesNothingHolds`: every safety property of the run, for both modes at once,
for any tabs, characters, numbers of updates and changes by the player. They are read off the
inductive invariant `WInv`, which every action keeps (`StepHolds`, one lemma per action):

* `Always` is what even a given-up update does not break: requests and loads are of an
  update that has begun and of a part that is asked for in this mode; on the disk each tab has
  its own items, from one spot; what is shown is on the disk, or something newer. The last is
  what a restart lives on, and it is kept through every prefix of the writes of
  FinishUpdate (`DiskFits`, `DiskUniform`, `ShownIsWritten`, `CrashHolds`).
* `Sound` holds until an update is given up. What is counted as missing is what is out
  (`Waiting`). No two requests under way are for the same part (`Separate`), each list is asked
  for once (`Lists`), and no tab before the lists are in (`TabsAsked`): this is what lets the
  lists come in either order and Submit be interrupted anywhere. Each part of a listed tab is
  in `items`, or asked for, unless its reply was an error (`Covered`), and not both
  (`NotYet`); an update that has ended leaves nothing behind (`Idle`). `Index` says that the tabs
  kept by a partial update, and no others, are known when its list comes in; without it a
  tab would be listed twice or asked for although it is there.
* `Signed`, for the legacy mode: a tab is asked for by the place that it has in the first list,
  so that a reply with the same list is of that tab. `OwnIn` (no load is under a tab it is
  not of) holds only while nothing is cancelled: a cancelled update does keep such loads.

`WorkerInv` is not inductive by itself: without the rest, a list could come in twice, and the
queue be fetched and counted again. That a reply takes one place away, and a concatenation counts as its
parts (`RemovedOne`, `AskedTogether`), is proved for sets of places, as the requests under way
are one sequence and `Asked` is the cardinality of a set of places in it.

### Game data and startup (`StartupProofs`)

`FilesAreThemselvesHolds`, `ReadyIsCurrentHolds`, `StartupInvHolds`, `UpdateHasItemsHolds`.
`ReadyIsCurrent` says that every file is an answer of the server, none older than the
version its directory claims and none cut off; not that the answer is the file, which the
code does not make sure of (§5).
The files still needed are the first ones of the list (`Prefix`), one download waits for
the last of them (`OneDownload`), and a directory is whole, lacks a file, or is
being filled from the end of the list (`DirState`): this is why it does no harm that the
version is written first. A directory in which two downloads met, or one was cut short over
older files, is excepted, as in the properties. `ParserInv` follows the parser through
the flags the two threads share: there is at most one, it runs only after the login and
with the data, and what it sets is set in the order in which the other thread reads it.

### Prices (`BuyoutsProofs`)

`BuyoutsInvHolds`, `InheritedFollowsTabHolds`, `PricedIsRefreshedHolds`,
`GamePriceWinsHolds`, `OwnPriceSurvivesHolds`. `PricesIInv` adds to what they say that the
disk holds what is in memory unless a save is due (`DiskIsCurrent`), that what it holds
has been through `Serialize`, which then changes nothing (`DiskIsSerialized`; without it
a restart could change a price), that before the migration there are no items and all prices are
the user's (`Unopened`), and that the locks are those of the present prices. The action property
`OwnPriceSurvives` follows pass by pass through a refresh and for each prefix of the
writes of Save.

### Login (`LoginProofs`)

`AuthorisedHolds`, `StoredFollowsTokenHolds`, `LoginInvHolds`, `TokenIsTheAccountsHolds`.
`OAuthIInv` is about the manager alone: no timer is overdue and no reply later than
`ReplyTime` (`Prompt`), and a granted token has its timer armed, or a refresh under way that
was sent in time (`Renewing`). `StepsOfTheManager` shows that each step of `Login` is one of
the manager, of the dialog, or makes a new manager, so that the rest is proved once.
`StoreFollows` relates the store of the directory in use to the token and the check box.
`NobodyEnters` (what is nobody's token has expired) is why a reply that is no token never
completes a login. `OwnerStays` is behind `TokenIsTheAccounts`: after a login all pages
are ones that were open at it, as the dialog is gone, and unless one of them is answered for
another account every token and request is the login's account's (`OwnedBy`).
`LoginInv` lets a login end in the fatal error only with an empty list of leagues or an empty
name of a legacy account, and never reach the main window so.

### Releases (`UpdateCheckerProofs`)

`CheckerInvHolds` and `SkippedStaysSkippedHolds`, from `CheckerIInv`: each question has a
reply of its own (`Counted`), what was announced is shown or known (`ShownSoFar`), and the
settings hold what the user skipped last (`SkipIsKnown`). Replies may come in any order because a
reply that is older than what is known changes nothing.

### The main window (`MainWindowProofs`)

`WindowTypeOKHolds`, `TabsTellTheirSearchHolds`, `CurrentIsFilteredHolds`,
`OwnFiltersHolds`, `ImageIsOfTheItemHolds`, `OnlyUserSelectsHolds`. A handler is an operator
from one window to the next, and so the lemmas are about windows: in the middle of a
handler they are `Listed` (types, numbers of the searches, the panel, filters that are
the user's), before `ModelViewRefresh` they are `Ready` (the form is the current search's, all
other tabs have their texts), and between handlers `Settled` (everything, with the current
search filtered and in the view, unless a message box is open). `Unheard` is a window whose
items are new: `AllRefreshedFacts` settles it, in `ItemsFacts` at once and in `BoxFacts` later,
and `BuyoutFacts` shows that a price the user changes moves an item only into `repriced`.
`WithoutFacts`, `OneOfSeveral` and `TheOnlyOne` follow the
deletion of a tab through the windows where the current index is of none. `OnlyUserSelects`
rests on `RowsFacts`: in a bucket that is in order no two rows show the same thing, so that
`OnLayoutChanged` finds the row of the current item again. That a finite set of numbers can be
put in order (`InOrderProperties`) is induction over data, done by taking a least
counterexample, for which the library has what is needed.

### Assumptions

* `PolicyAssumption`, `HeadCountsAssumption`: limits and periods are naturals, a limit
  exists. Built into the model: the clocks of client and server agree up to the bucket, timers never fire early, a reply's date is the time the
  server handled the request, and the limits of a policy do not change.
* `TokenTimes`: a reply to a request for a token takes less than the hour by which a token
  is refreshed early (`ReplyTime < Buffer`), and a token lives longer than both. The code sets
  no timeout on these requests (oauthmanager.cpp), so that this is a statement about the server;
  it must also hold for a token to be refreshed in time at all.
* `FilesAssumption`: there are files and a directory, and no file is called like the marks the model uses.
* `TextsAssumption`: what notes and labels say are members of the set of texts.
* `SearchAssumption`, `WindowAssumption`: items and tabs are finite sets of numbers, each item has its
  tab, and one search exists from the start.
* `WorkerAssumption`: finitely many tabs and characters, at least one stash tab, no tab that is also a character,
  none called like the marks for lists. Built into the model: replies to one endpoint come in the order of
  the requests, an id names one tab for ever.
* `ShopAssumption`, `LeagueNames`, `OAuthBounds`, `CheckerBounds`: marks are no members,
  bounds are numbers.

### What stays with TLC

* Liveness, and anything said with ENABLED: `EveryRequestAnswered`, `EveryRequestComesBack`,
  `SubmissionEnds`, `ItemsGetLoaded`, `RequestInTimeIsServed`, and that an update of the worker ends.

Every safety property that a run checks, invariant or action property, is a theorem; the one
of the run ManagerRetry that fails is of course not.

## 5. What the models show beside the runs

Met while modelling, with no run of their own.

*Rate limits.*

* A HEAD reply that was answered before, and arrives after, another reply of the
  same policy puts older counts in the policy (ratelimiter.cpp:244), so `Compliance`
  is claimed for a manager whose only HEAD request came first.
* Several HEAD requests may be under way at once in nested loops, although waiting
  for one is to prevent that (ratelimiter.cpp:175-181).
* `MINIMUM_INTERVAL_MSEC` has no effect: `last_send` is never assigned
  (ratelimitmanager.cpp:314).
* After an error without Retry-After, or a reply without headers, the manager keeps
  its active request and no timer: its queue stands still for good.

*Updates of the items.*

* After an update was given up, its replies still arrive and count in the next one
  (`spoiled`). In the legacy mode the items of a cancelled update stay in the list,
  and a later partial update shows and saves them under tabs they are not of.
* An update that follows one given up may count enough of the older replies to end with
  loads of two updates of one tab, and saves them so; a restart forgets that an update was given up
  and shows both until the tab is read again (`mixed`). It takes three updates, one more
  than the run has in each mode: the attempt to prove `UpdateIsWhole` without this exception found it.
* Tabs "moved or renamed" are looked for among the tabs themselves and never found
  (itemsmanagerworker.cpp:487).
* Stash locations compare by the place of the tab, so that a tab that was kept with its
  old place and one that has moved there are saved as one (itemsmanagerworker.cpp:1273-1291;
  `misfiled`).
* A reply in error drops the items of its tab from what is shown; in the legacy mode,
  if it is the last one, the update never ends (itemsmanagerworker.cpp:1168).
* Two threads may both pass the test of `m_updating` and both begin an update. A request
  for an update that is queued just after the parser has looked for one is never
  served (itemsmanagerworker.cpp:221).

*Shop.*

* A bad reply for the stash index resets `m_submitting` but not `m_indexing`
  (shop.cpp:187-203); a second submission may then run beside the first and past the
  last thread.
* The hash is not computed again when nothing can be posted (shop.cpp:249), so that
  taking the last item off a shop is not posted; a post that fails counts as done
  (shop.cpp:545).

*Game data.*

* An error page is taken for the version or for a file and the download goes on, as an
  error of 200..299 counts as success (repoe.cpp:82, 187); RePoE is ready with it, and it
  stays until the version changes.
* Two overlapping RePoE downloads save files under each other's names, and may take
  the back of an empty vector (repoe.cpp:182).
* `version.txt` is written before the files (repoe.cpp:126): a download cut short when
  older files are there is taken for current the next time.

*Prices.*

* An item whose note is removed altogether keeps the price of the game: an empty
  note is skipped before the test that would clear it (itemsmanager.cpp:116-121,
  against the comment above it), and the user cannot edit that price.
* The old prices of items that are not there in the first refresh are never
  migrated: `db_version` is set all the same (itemsmanager.cpp:248).
* A write of the store that fails is only logged, and `m_save_needed` is false by
  then (buyoutmanager.cpp:296).

*Login.*

* After an OAuth or legacy login that fails the login button stays disabled, and the
  authenticate button after an authorisation that is refused.
* The reply to a refresh of an earlier account's token may come after, and replace, the
  token of the account that has just been authenticated: hence `clean`.
* A second after an answer the manager forgets its server, under a comment that says it is
  shut down ("Shut the server down now that an access token response has been received",
  oauthmanager.cpp:251), but does not delete it: the page can be answered again, also
  after the login and for another account, whose token then replaces the session's. Hence
  `clean`, again.
* Any reply without an error replaces the token. One that does not parse, or has no date,
  leaves the session without a usable token (oauthtoken.cpp:37-49).
* A list of leagues that does not parse is an empty one and still enables the login
  (logindialog.cpp:271-308): logging in then saves an empty league and ends in the fatal
  error of application.cpp:393-395. So does a profile page with an empty account name.
* A refresh that fails is never repeated (oauthmanager.cpp:382), and a token loaded
  within an hour of its expiry gets an interval that is negative, in an unsigned type
  (oauthmanager.cpp:128): hence `weak`.
* OnStartLegacyLogin connects `errorOccurred` of the reply before the one it has sent
  (logindialog.cpp): an error in the second request of a legacy login is not heard.

*Releases.*

* "Ignore, and don't ask again" has no effect in the session in which it is chosen, as
  only `skip_*` is saved and `m_previous_*` is not set; nor afterwards, when the dialog
  forgets its settings because nothing is to be remembered (updatechecker.cpp:234).
* What is signalled while OnLogin runs the validator's loop is heard by nobody
  (`unheard`), and once in the main window the box is never shown, only the button.

*Main window.*

* `m_active` belongs to the filters and not to a search: OnItemsRefreshed filters the
  other searches with the current form's flags, and FilterItems returns early when
  such a tab is chosen (search.cpp:193), so that it shows what was found wrongly until
  something else changes. `CurrentIsFiltered` leaves that case out.
* A change of prices filters nothing (OnBuyoutChange, mainwindow.cpp:446-508): with
  "Priced" set, an item that is not priced any more stays listed, and one that is now
  priced stays away, until the search is filtered for another reason.
  `CurrentIsFiltered` leaves those items (`repriced`) out, but a listed one must have
  passed every other filter.
* Application's slot of ItemsRefreshed comes before the window's and may put up the message
  box of a shop without threads or POESESSID (shop.cpp:322-339): while it is open the
  items and prices are new and the searches old. `CurrentIsFiltered` is about windows
  without one; the other properties hold all the while.
* Colours leak from one search to another: ToForm does not empty their boxes
  (filters.cpp:379-389). `OwnFilters` leaves them out (`Kept`).
* An edit whose delay has not ended when another tab is chosen is lost. A mod that
  ToForm restores is not connected: editing it changes nothing. A combo box the program
  sets starts the delay as if the user had.
* With a tab as the current thing, OnLayoutChanged returns early and the selection
  stays by row: after a refresh or a filter OnBuyoutChange may price another tab or
  item. `OnlyUserSelects` is about a current item.
* Choosing the current tab again is not noticed; choosing a tab while the panel's timer
  runs leaves it at "Select an item".
* An icon given as a path is requested with a prefix and compared without it: its
  image is never shown (mainwindow.cpp). `ImageIsOfTheItem` is about wrong images, not
  about missing ones.
* `m_current_bucket_location` points into buckets that are rebuilt; expanded
  tabs are lost after two keystrokes and by every refresh.

## 6. Not modelled, and why

`PROJECT.json` lists every component with its status.

* **Currency.** A sum over the items after each refresh and values edited in a dialog,
  saved when the program ends; nothing else depends on it. Read, but not modelled: the
  old values are migrated by emptying `currency_base` at once, while what it held is
  written only at the end (currencymanager.cpp:146-153), so that a crash in that session
  loses them; and one between the two writes of SaveCurrencyValue records a total twice.
* **Items, mods and the tooltip.** Parsing and rendering of one item, without state
  between items; the tests cover it.
* **Headers and dialog of the rate limits, utilities, themes, uploads, crash
  reporting.** Parsing, views and pure I/O.
* **What each filter computes of an item**, the texts of columns, expanded tabs and
  renaming a tab: functions of one item, or a view that nothing reads. The filter for
  priced items is the exception, as it reads the buyouts, and it is modelled.
* **The validation of legacy data** is only the nested event loop it runs in a login.
* **Writes that fail.** The store logs and goes on; crashes between writes are
  modelled, failed writes are not.
* **Data races** beyond the flags of `Startup` (two updates at once on `m_tabs` and
  `m_items`) are undefined behaviour and end what the models say.

## 7. Plan

Done: 1 `RateLimitManager`, its proofs and `RequestQueue`, 2 `RateLimiter`,
3 `ItemsManagerWorker` and `LegacyUpdates`, with crashes between writes, 4 `Shop`,
5 `RePoE` and `Startup`, 6 `Buyouts`, 7 `OAuthManager` and `Login`,
8 `UpdateChecker`, 9 `Search` and `MainWindow`.

Every safety property that a run checks is also proved (§4).

Next, if the code or the tools allow more:

1. A failed write of the data store as an action of the modules that write, as soon as the code
   handles it.
2. The currency manager, if its migration is changed.
