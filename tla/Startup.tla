------------------------------- MODULE Startup -------------------------------
(***************************************************************************)
(* The start of the program up to the first update: RePoE downloads its    *)
(* data while the user logs in; ItemsManagerWorker::Init waits for both    *)
(* and then loads the stored items in a thread of its own                  *)
(* (src/itemsmanagerworker.cpp, ParseItemMods).  Meanwhile the user, or    *)
(* the auto-refresh timer, may ask ItemsManager::Update for an update on   *)
(* the main thread.  The two threads share m_initialized, m_updating and   *)
(* m_updateRequest without a lock, so every access is a step.              *)
(***************************************************************************)
EXTENDS RePoE

VARIABLES
    loggedIn,        \* ItemsManager::Start has run
    waiting,         \* OnRePoEReady is connected to RePoE::finished
    parsers,         \* parser threads created
    thread,          \* where the first of them is
    loaded,          \* m_initialized of the worker
    updating,        \* m_updating
    updateRequest,   \* m_updateRequest
    user,            \* where ItemsManager::Update is on the main thread
    updates          \* updates begun

workerVars  == <<loaded, updating, updateRequest>>
startupVars == <<loggedIn, waiting, parsers, thread, workerVars, user, updates>>
allVars == <<repoeVars, startupVars>>

StartupInit ==
    /\ RePoEInit
    /\ loggedIn = FALSE /\ waiting = FALSE /\ parsers = 0 /\ thread = "none"
    /\ loaded = FALSE /\ updating = FALSE /\ updateRequest = FALSE
    /\ user = "free" /\ updates = 0

RestartProgram ==
    /\ Restart
    /\ loggedIn' = FALSE /\ waiting' = FALSE /\ parsers' = 0 /\ thread' = "none"
    /\ loaded' = FALSE /\ updating' = FALSE /\ updateRequest' = FALSE
    /\ user' = "free" /\ updates' = 0

\* OnRePoEReady runs n times.
OnRePoEReady(n) ==
    /\ parsers' = parsers + n
    /\ thread' = IF n > 0 /\ thread = "none" THEN "parsing" ELSE thread

\* RePoE goes on; when it is finished the worker hears of it if it is connected.
Download ==
    /\ Publish \/ OnVersionReceived \/ OnFileReceived \/ RequestFails
    /\ OnRePoEReady(IF waiting THEN finished' - finished ELSE 0)
    /\ UNCHANGED <<loggedIn, waiting, workerVars, user, updates>>

\* The directory is chosen in the login dialog.
ChangeUserDir == ~loggedIn /\ SetUserDir /\ UNCHANGED startupVars

\* Mutants: Init does not ask whether the data are there already; and it goes on
\* without waiting for them, and waits all the same.
DeafInit ==
    /\ updating' = TRUE
    /\ waiting' = TRUE /\ OnRePoEReady(0)

HastyInit ==
    /\ updating' = TRUE
    /\ waiting' = TRUE /\ OnRePoEReady(1)

\* ItemsManagerWorker::Init
Init ==
    /\ updating' = TRUE
    /\ IF initialized THEN OnRePoEReady(1) /\ UNCHANGED waiting
       ELSE waiting' = TRUE /\ OnRePoEReady(0)

Login ==
    /\ ~loggedIn /\ loggedIn' = TRUE
    /\ Init
    /\ UNCHANGED <<repoeVars, loaded, updateRequest, user, updates>>

-----------------------------------------------------------------------------
(* The parser thread. *)

ParseItemMods ==
    /\ thread = "parsing" /\ thread' = "loaded"
    /\ loaded' = TRUE
    /\ UNCHANGED <<repoeVars, loggedIn, waiting, parsers, updating, updateRequest,
                   user, updates>>

ParserIsIdle ==
    /\ thread = "loaded" /\ thread' = "idle"
    /\ updating' = FALSE
    /\ UNCHANGED <<repoeVars, loggedIn, waiting, parsers, loaded, updateRequest,
                   user, updates>>

\* Mutant: the request is cleared before it is looked at.
ForgetfulParserChecks ==
    /\ thread = "idle" /\ thread' = "done"
    /\ updateRequest' = FALSE
    /\ UNCHANGED <<repoeVars, loggedIn, waiting, parsers, loaded, updating,
                   user, updates>>

ParserChecks ==
    /\ thread = "idle"
    /\ thread' = IF updateRequest THEN "update" ELSE "done"
    /\ updateRequest' = FALSE
    /\ UNCHANGED <<repoeVars, loggedIn, waiting, parsers, loaded, updating,
                   user, updates>>

\* Update on this thread: m_updating is tested, then set.
ParserUpdates ==
    /\ \/ thread = "update" /\ thread' = (IF updating THEN "done" ELSE "start")
          /\ UNCHANGED <<updating, updates>>
       \/ thread = "start" /\ thread' = "done"
          /\ updating' = TRUE /\ updates' = updates + 1
    /\ UNCHANGED <<repoeVars, loggedIn, waiting, parsers, loaded, updateRequest, user>>

-----------------------------------------------------------------------------
(* ItemsManager::Update on the main thread. *)

\* Mutant: an update is begun when it should be put off, and put off when not.
RashAskForUpdate ==
    /\ loggedIn /\ user = "free"
    /\ ~loaded \/ ~updating
    /\ user' = IF loaded THEN "request" ELSE "start"
    /\ UNCHANGED <<repoeVars, loggedIn, waiting, parsers, thread, workerVars, updates>>

\* An update already in progress is refused.
AskForUpdate ==
    /\ loggedIn /\ user = "free"
    /\ ~loaded \/ ~updating
    /\ user' = IF ~loaded THEN "request" ELSE "start"
    /\ UNCHANGED <<repoeVars, loggedIn, waiting, parsers, thread, workerVars, updates>>

\* UpdateRequest, and the message that the request has been queued.
UpdateRequest ==
    /\ user = "request" /\ user' = "free"
    /\ updateRequest' = TRUE
    /\ UNCHANGED <<repoeVars, loggedIn, waiting, parsers, thread, loaded, updating, updates>>

Update ==
    /\ user = "start" /\ user' = "free"
    /\ updating' = TRUE /\ updates' = updates + 1
    /\ UNCHANGED <<repoeVars, loggedIn, waiting, parsers, thread, loaded, updateRequest>>

StartupNext ==
    \/ RestartProgram
    \/ Download
    \/ ChangeUserDir
    \/ Login
    \/ ParseItemMods
    \/ ParserIsIdle
    \/ ParserChecks
    \/ ParserUpdates
    \/ AskForUpdate
    \/ UpdateRequest
    \/ Update

StartupSpec == StartupInit /\ [][StartupNext]_allVars

\* Both threads run, and the network answers.
StartupFairSpec ==
    /\ StartupSpec
    /\ WF_allVars(ParseItemMods) /\ WF_allVars(ParserIsIdle)
    /\ WF_allVars(ParserChecks) /\ WF_allVars(ParserUpdates)
    /\ WF_allVars(UpdateRequest) /\ WF_allVars(Update)

-----------------------------------------------------------------------------
(* Properties. *)

StartupTypeOK ==
    /\ RePoETypeOK
    /\ loggedIn \in BOOLEAN /\ waiting \in BOOLEAN /\ parsers \in Nat
    /\ thread \in {"none", "parsing", "loaded", "idle", "update", "start", "done"}
    /\ loaded \in BOOLEAN /\ updating \in BOOLEAN /\ updateRequest \in BOOLEAN
    /\ user \in {"free", "request", "start"} /\ updates \in Nat

(***************************************************************************)
(* The stored items are loaded by one thread only, whichever of the login  *)
(* and the download is finished first, unless two downloads overlapped.    *)
(***************************************************************************)
OneParser == (\A d \in Dirs : ~overlapped[d]) => parsers <= 1

\* The types, and that the stored items are parsed by one thread.
StartupInv == StartupTypeOK /\ OneParser

(***************************************************************************)
(* No update begins before the stored items and the game data are there.   *)
(***************************************************************************)
UpdateHasItems == [][updates' > updates => loaded /\ initialized]_allVars

(***************************************************************************)
(* The items are loaded once the user is logged in and the data are ready, *)
(* in either order.                                                        *)
(***************************************************************************)
ItemsGetLoaded == (loggedIn /\ initialized) ~> (loaded \/ ~loggedIn)

(***************************************************************************)
(* A request that is there before the thread looks for it leads to an      *)
(* update, be it this one or one the user began meanwhile.                 *)
(***************************************************************************)
RequestInTimeIsServed ==
    (updateRequest /\ thread \in {"parsing", "loaded", "idle"}) ~> (updates > 0 \/ ~loggedIn)

=============================================================================
