---------------------------- MODULE LegacyUpdates ----------------------------
(***************************************************************************)
(* The legacy mode of ItemsManagerWorker (src/itemsmanagerworker.cpp), and *)
(* the worker in either mode.  Stash tabs are asked for by their place in  *)
(* the game, which the player may change at any time: every reply brings   *)
(* the list of all tabs with it, and TabsChanged compares it with the list *)
(* of the first one.  A character takes two requests, and a request for    *)
(* the main page of the web site, which finds out who is selected, comes   *)
(* before the list of characters.                                          *)
(***************************************************************************)
EXTENDS ItemsManagerWorker

VARIABLES
    signature,   \* m_tabs_signature
    cancel,      \* m_cancel_update
    mainPages,   \* updates whose request for the main page is not answered
    selected     \* m_selected_character is known

legacyVars == <<signature, cancel, mainPages, selected>>
allVars == <<workerVars, legacyVars>>

LegacyListRequest(kind, gen) ==
    [endpoint |-> IF kind = "stash" THEN "stash" ELSE "characterList",
     tab |-> ListEndpoint[kind], gen |-> gen, at |-> NoPlace]

\* MakeLegacyTabRequest, MakeLegacyCharacterRequest and MakeLegacyPassivesRequest:
\* a stash tab is asked for by the place it had in the first reply.
LegacyTabRequest(t, part, gen) ==
    [endpoint |-> part, tab |-> t, gen |-> gen, at |-> PlaceIn(order, t)]

SelectedRequest == [endpoint |-> "character", tab |-> "selected", gen |-> 0, at |-> NoPlace]

LegacyInit ==
    /\ WorkerInit
    /\ signature = <<>> /\ cancel = FALSE /\ mainPages = {} /\ selected = FALSE

\* The player moves, renames, creates and deletes tabs.
PlayLegacy ==
    /\ mode = "LEGACY" /\ changes < MaxChanges
    /\ changes' = changes + 1
    /\ order' \in Orders \ {order}
    /\ world' = (world \ Stashes) \cup Ids(order')
    /\ UNCHANGED <<mode, update, updating, stateVars, queue, netVars, stored, shown, history>>
    /\ UNCHANGED <<signature, cancel, mainPages, selected>>

-----------------------------------------------------------------------------
\* LegacyRefresh, from its first Submit on: the main page is asked for when that
\* has returned.
LegacyRefresh(kinds, gen) ==
    LET list == IF "stash" \in kinds THEN <<LegacyListRequest("stash", gen)>> ELSE <<>>
    IN  \E n \in 0..Len(list) :
            /\ Submit(list, n, wire, calls)
            /\ mainPages' = IF "character" \in kinds /\ n = Len(list)
                            THEN mainPages \cup {gen} ELSE mainPages

UpdateLegacy ==
    /\ MayUpdate("LEGACY")
    /\ \E choice \in Selections :
          /\ StartUpdate(choice)
          /\ LegacyRefresh(KindsNeeded(choice), update')
    /\ cancel' = FALSE /\ selected' = FALSE
    /\ UNCHANGED signature

\* An error is only logged, and the list of characters is asked for all the same.
OnLegacyMainPageReceived ==
    \E gen \in mainPages, n \in 0..1 :
        /\ mode = "LEGACY"
        /\ mainPages' = mainPages \ {gen}
        /\ selected' \in BOOLEAN
        /\ UNCHANGED known
        /\ Submit(<<LegacyListRequest("character", gen)>>, n, wire, calls)
        /\ UNCHANGED <<gameVars, update, updating, stateVars, queue, stored, shown, history>>
        /\ UNCHANGED <<signature, cancel>>

\* The oldest requests for this list, or for the selected character.
OldestFor(tab) == {k \in Oldest : mode = "LEGACY" /\ wire[k].tab = tab}

OnFirstLegacyTabReceived ==
    /\ signature' = order
    /\ \E k \in OldestFor("stashList"), new \in InListOrder(NewTabs("stash")) :
          ListReceived("stash", k,
                       [i \in DOMAIN new |-> LegacyTabRequest(new[i], "stash", wire[k].gen)])
    /\ UNCHANGED <<cancel, mainPages, selected>>

\* Each character is asked for twice.
TwiceEach(new, gen) ==
    [i \in 1 .. 2 * Len(new) |->
        LegacyTabRequest(new[(i + 1) \div 2], IF i % 2 = 1 THEN "character" ELSE "jewels", gen)]

OnLegacyCharacterListReceived ==
    /\ \E k \in OldestFor("characterList"), new \in InListOrder(NewTabs("character")) :
          ListReceived("character", k, TwiceEach(new, wire[k].gen))
    /\ UNCHANGED legacyVars

\* Either list comes with an error, or as something else.
BadLegacyList ==
    /\ \E k \in OldestFor("stashList") \cup OldestFor("characterList") : GiveUp(k)
    /\ UNCHANGED legacyVars

-----------------------------------------------------------------------------
\* Mutant: only the number of tabs is compared.
TabsCounted(r, missing) ==
    r.tab \in Stashes /\ (missing \/ Len(order) # Len(signature))

\* TabsChanged, for the tab at the place that was asked for: the list of all tabs may
\* also be missing from the reply.
TabsChanged(r, missing) ==
    /\ r.tab \in Stashes
    /\ \/ missing
       \/ r.at \in DOMAIN signature => order[r.at] # signature[r.at]

\* The request r can be answered: the game has a tab at that place, or that character.
Answerable(r) ==
    IF r.tab \in Stashes THEN r.at \in DOMAIN order ELSE r.tab \in world

LegacyLoad(r, full) ==
    [tab |-> r.tab, part |-> r.endpoint, at |-> r.at, gen |-> r.gen, full |-> full,
     of  |-> IF r.tab \in Stashes THEN order[r.at].id ELSE r.tab]

\* Another request for the selected character, whose reply is of no interest.
PreserveSelectedCharacter(k) ==
    LET list == IF selected THEN <<SelectedRequest>> ELSE <<>>
    IN  \E n \in 0..Len(list) : Submit(list, n, Rest(k), calls)

NothingMore(k) == wire' = Rest(k) /\ calls' = calls

\* The tab contents of a reply: the last one finishes the update, or cancels it.
OnLegacyTabReceived(k, full) ==
    LET r == wire[k] IN
    /\ mode = "LEGACY" /\ Answered(k)
    /\ r.tab \in Tabs /\ Answerable(r)
    /\ \E missing \in BOOLEAN : cancel' = (cancel \/ TabsChanged(r, missing))
    /\ items' = items \cup {LegacyLoad(r, full)} /\ received' = Count(r)
    /\ lastBad' = FALSE
    /\ \/ /\ IsLast(r) /\ ~cancel'
          /\ FinishUpdate(items') /\ PreserveSelectedCharacter(k)
          /\ UNCHANGED spoiled
       \/ /\ IsLast(r) /\ cancel'
          /\ updating' = FALSE /\ spoiled' = TRUE
          /\ NothingMore(k) /\ UNCHANGED <<stored, shown, misfiled, mixed>>
       \/ /\ ~IsLast(r)
          /\ NothingMore(k) /\ UNCHANGED <<updating, stored, shown, spoiled, misfiled, mixed>>
    /\ UNCHANGED <<need, has, tabs, index, queue, needed, unread>>
    /\ UNCHANGED <<signature, mainPages, selected>>

\* Mutant: an error is not counted.
UncountedError(r) == received

ErrorCount(r) == Count(r)

\* An error instead of contents: it is counted, and nothing else happens, unless
\* it is the last reply of an update that is cancelled.
LegacyTabError(k) ==
    LET r == wire[k] IN
    /\ mode = "LEGACY" /\ Answered(k) /\ r.tab \in Tabs
    /\ received' = ErrorCount(r)
    /\ unread' = unread \cup {r.tab} /\ lastBad' = TRUE
    /\ IF IsLast(r) /\ cancel
       THEN updating' = FALSE /\ spoiled' = TRUE ELSE UNCHANGED <<updating, spoiled>>
    /\ NothingMore(k)
    /\ UNCHANGED <<need, has, tabs, index, items, queue, needed, stored, shown, misfiled, mixed>>
    /\ UNCHANGED legacyVars

SelectedReply ==
    /\ \E k \in OldestFor("selected") : NothingMore(k)
    /\ UNCHANGED <<gameVars, known, update, updating, stateVars, queue, stored, shown, history>>
    /\ UNCHANGED legacyVars

\* The innermost Submit returns to FetchItems, LegacyRefresh, OnLegacyMainPageReceived
\* or PreserveSelectedCharacter.
LegacySubmitReturns ==
    /\ mode = "LEGACY" /\ calls # <<>>
    /\ LET r     == calls[Len(calls)]
           stack == SubSeq(calls, 1, Len(calls) - 1)
           w     == Append(wire, r)
       IN  /\ known' = known \cup {r.endpoint}
           /\ IF r.tab \in Tabs
              THEN FetchItems(queue, needed, w, stack)
              ELSE wire' = w /\ calls' = stack /\ UNCHANGED <<queue, needed>>
           /\ mainPages' = IF r.tab = "stashList" /\ need["character"]
                           THEN mainPages \cup {r.gen} ELSE mainPages
    /\ UNCHANGED <<gameVars, update, updating, need, has, tabs, index, items,
                   received, stored, shown, history>>
    /\ UNCHANGED <<signature, cancel, selected>>

-----------------------------------------------------------------------------
ForgetLegacy ==
    /\ signature' = <<>> /\ cancel' = FALSE /\ mainPages' = {} /\ selected' = FALSE

RestartLegacy == mode = "LEGACY" /\ Restart /\ ForgetLegacy

CrashInLegacyFinishUpdate ==
    /\ mode = "LEGACY" /\ ~cancel
    /\ \E k \in Oldest, full \in BOOLEAN :
          LET r == wire[k] IN
          /\ r.tab \in Tabs /\ Answerable(r) /\ IsLast(r) /\ ~TabsChanged(r, FALSE)
          /\ CrashAmidWrites(items \cup {LegacyLoad(r, full)})
    /\ ForgetLegacy

LegacyNext ==
    \/ PlayLegacy
    \/ UpdateLegacy
    \/ OnLegacyMainPageReceived
    \/ OnFirstLegacyTabReceived \/ OnLegacyCharacterListReceived \/ BadLegacyList
    \/ \E k \in Oldest : (\E full \in BOOLEAN : OnLegacyTabReceived(k, full)) \/ LegacyTabError(k)
    \/ SelectedReply
    \/ LegacySubmitReturns
    \/ RestartLegacy
    \/ CrashInLegacyFinishUpdate

\* The worker in the mode it was created with.
EitherNext ==
    \/ mode = "OAUTH" /\ WorkerNext /\ UNCHANGED legacyVars
    \/ LegacyNext

EitherSpec == LegacyInit /\ [][EitherNext]_allVars

\* A slot of a reply, or the return of a Submit.
OAuthProgress ==
    /\ mode = "OAUTH"
    /\ \/ SubmitReturns
       \/ OnOAuthStashListReceived \/ OnOAuthCharacterListReceived
       \/ OnOAuthStashReceived \/ OnOAuthCharacterReceived
    /\ UNCHANGED legacyVars

LegacyProgress ==
    /\ mode = "LEGACY"
    /\ \/ LegacySubmitReturns \/ OnLegacyMainPageReceived
       \/ OnFirstLegacyTabReceived \/ OnLegacyCharacterListReceived
       \/ \E k \in Oldest :
             (\E full \in BOOLEAN : OnLegacyTabReceived(k, full)) \/ LegacyTabError(k)
       \/ SelectedReply

\* The event loop goes on as long as there is a reply to handle.
EitherFairSpec == EitherSpec /\ WF_allVars(OAuthProgress \/ LegacyProgress)

-----------------------------------------------------------------------------
(* Properties. *)

LegacyTypeOK ==
    /\ WorkerTypeOK
    /\ signature \in Orders \cup {<<>>}
    /\ cancel \in BOOLEAN /\ mainPages \subseteq 1..update /\ selected \in BOOLEAN

\* The types, and that the worker waits for exactly what is still to come.
WorkerInv == LegacyTypeOK /\ WaitingIsCounted

(***************************************************************************)
(* What TabsChanged is there for: whatever the player does with the tabs   *)
(* during an update, FinishUpdate never shows the items of one tab under   *)
(* the name, and the price, of another, as long as no update was given up. *)
(***************************************************************************)
ItemsAreTheTabs ==
    [][Finishes /\ ~spoiled /\ ~misfiled => \A l \in shown'.items : l.of = l.tab]_allVars

=============================================================================
