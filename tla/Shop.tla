--------------------------------- MODULE Shop ---------------------------------
(***************************************************************************)
(* The Shop (src/shop.cpp): it turns the priced items into text, and posts *)
(* that text to the user's forum threads, one thread after the other.  For *)
(* each thread it fetches the edit page, waits half a second, and posts;   *)
(* "rate limiting" and "security token" errors make it wait and post again.*)
(* Beside that it keeps an index of the stash tabs, without which it can   *)
(* do neither.                                                             *)
(*                                                                         *)
(* What the shop should say is one value, the content: the postable items, *)
(* their buyouts and the template.  The part of it that goes to a thread,  *)
(* or the "Empty" for a thread too many, is not told apart from the whole. *)
(* Each slot is an action; what is under way between the slots of a        *)
(* submission is a "chain".                                                *)
(***************************************************************************)
EXTENDS Integers, Sequences, FiniteSets

CONSTANTS
    Contents,        \* what the shop may have to say
    Nothing,         \* the content without any postable item
    MaxThreads,      \* bound: forum threads the user sets
    MaxChains,       \* bound: submissions started
    MaxEdits,        \* bound: changes of the content
    MaxIndexings,    \* bound: requests for the stash index
    MaxRetries       \* bound: times the forum asks to post again

NoHash == "no hash"  \* the empty string

ASSUME ShopAssumption ==
    /\ Nothing \in Contents /\ NoHash \notin Contents
    /\ MaxThreads \in Nat \ {0} /\ MaxChains \in Nat /\ MaxEdits \in Nat
    /\ MaxIndexings \in Nat /\ MaxRetries \in Nat

VARIABLES
    content,         \* what the items, the buyouts and the template say now
    outdated,        \* m_shop_data_outdated
    data,            \* m_shop_data
    hash,            \* m_shop_hash
    savedHash,       \* "shop_hash" in the data store
    threads,         \* the length of m_threads
    submitting,      \* m_submitting
    indexing,        \* m_indexing
    indexed,         \* m_tab_index is not empty
    completed,       \* m_requests_completed
    indexRequests,   \* requests for the stash index without a reply
    chains,          \* what each submission waits for
    posted,          \* what each forum thread shows
    edits, indexings, retries,   \* the bounded counts
    lost,            \* a post of the submission under way, or of the last, has failed
    spoiled          \* a bad stash index has come since the program was started

dataVars    == <<outdated, data, hash>>
indexVars   == <<indexing, indexed, indexRequests>>
countVars   == <<edits, indexings, retries>>
shopVars ==
    <<content, dataVars, savedHash, threads, submitting, indexVars, completed,
      chains, posted, countVars, lost, spoiled>>

Threads == 1..MaxThreads
Done == [at |-> "done"]
Running == {c \in DOMAIN chains : chains[c] # Done}

-----------------------------------------------------------------------------
\* The constructor starts indexing when there is a session.
ShopInit ==
    /\ content \in Contents
    /\ outdated = TRUE /\ data = Nothing /\ hash = NoHash /\ savedHash = NoHash
    /\ threads \in Threads
    /\ submitting = FALSE /\ indexing = TRUE /\ indexed = FALSE /\ completed = 0
    /\ indexRequests = 1 /\ chains = <<>>
    /\ posted = [k \in Threads |-> Nothing]
    /\ edits = 0 /\ indexings = 1 /\ retries = 0 /\ lost = FALSE /\ spoiled = FALSE

\* The program is started again: the data store and the forum keep what they have.
RestartShop ==
    /\ indexings < MaxIndexings /\ indexings' = indexings + 1
    /\ outdated' = TRUE /\ data' = Nothing /\ hash' = NoHash
    /\ submitting' = FALSE /\ indexing' = TRUE /\ indexed' = FALSE /\ completed' = 0
    /\ indexRequests' = 1 /\ chains' = [c \in DOMAIN chains |-> Done]
    /\ lost' = FALSE /\ spoiled' = FALSE
    /\ UNCHANGED <<content, savedHash, threads, posted, edits, retries>>

\* The user changes a buyout or the template: ExpireShopData.
ChangeContent ==
    /\ edits < MaxEdits /\ edits' = edits + 1
    /\ content' \in Contents \ {content}
    /\ outdated' = TRUE
    /\ UNCHANGED <<data, hash, savedHash, threads, submitting, indexVars, completed,
                   chains, posted, indexings, retries, lost, spoiled>>

SetThread ==
    /\ ~submitting
    /\ edits < MaxEdits /\ edits' = edits + 1
    /\ threads' \in Threads
    /\ savedHash' = NoHash /\ outdated' = TRUE
    /\ UNCHANGED <<content, data, hash, submitting, indexVars, completed, chains, posted,
                   indexings, retries, lost, spoiled>>

-----------------------------------------------------------------------------
(* The stash index. *)

UpdateStashIndex ==
    /\ indexings < MaxIndexings /\ indexings' = indexings + 1
    /\ indexing' = TRUE /\ indexed' = FALSE
    /\ indexRequests' = indexRequests + 1
    /\ UNCHANGED <<content, dataVars, savedHash, threads, submitting, completed, chains,
                   posted, edits, retries, lost, spoiled>>

\* The three replies OnStashTabIndexReceived distinguishes.  A reply without a
\* list of tabs resets m_submitting, and leaves m_indexing as it is.
IndexReply ==
    /\ indexRequests > 0 /\ indexRequests' = indexRequests - 1
    /\ \/ /\ indexing' = FALSE /\ indexed' = TRUE /\ outdated' = TRUE
          /\ UNCHANGED <<submitting, lost, spoiled>>
       \/ /\ indexing' = FALSE
          /\ UNCHANGED <<indexed, outdated, submitting, lost, spoiled>>
       \/ /\ submitting' = FALSE /\ spoiled' = TRUE
          /\ UNCHANGED <<indexing, indexed, outdated>>
    /\ UNCHANGED <<content, data, hash, savedHash, threads, completed, chains, posted, countVars, lost>>

-----------------------------------------------------------------------------
\* Mutant: the text is built again in the middle of a submission.
EagerMayUpdate == ~indexing /\ indexed

\* The early returns of Update.
MayUpdate == ~submitting /\ ~indexing /\ indexed

(***************************************************************************)
(* Update: the text is built again.  With nothing postable it returns      *)
(* before the hash is computed.                                            *)
(***************************************************************************)
Update(now) ==
    IF ~MayUpdate THEN UNCHANGED dataVars
    ELSE /\ outdated' = FALSE /\ data' = now
         /\ hash' = IF now = Nothing THEN hash ELSE now

\* The early returns of SubmitShopToForum, one that was not forced included.
Refused == submitting \/ indexing \/ ~indexed
Unchanged(force) == savedHash = hash' /\ ~force

\* Mutant: m_requests_completed is not reset.
ResumeChain == completed' = completed

StartChain == completed' = 0

(***************************************************************************)
(* SubmitShopToForum, with dataVars' as they are after the Update it calls *)
(* or the one before it: the edit page of the first thread is requested.   *)
(***************************************************************************)
SubmitShopToForum(force) ==
    IF Refused \/ Unchanged(force)
    THEN UNCHANGED <<submitting, completed, chains, lost>>
    ELSE /\ Len(chains) < MaxChains
         /\ StartChain /\ submitting' = TRUE /\ lost' = FALSE
         /\ chains' = Append(chains, [at |-> "page"])

\* The user's "update shops", which is forced.
SubmitForced ==
    /\ ~Refused
    /\ IF outdated THEN Update(content) ELSE UNCHANGED dataVars
    /\ SubmitShopToForum(TRUE)
    /\ UNCHANGED <<content, savedHash, threads, indexVars, posted, countVars, spoiled>>

\* Application::OnItemsRefreshed: the items have changed, or not.  Update comes first;
\* SubmitShopToForum only when the refresh was not the initial one and auto-update is on.
OnItemsRefreshed ==
    /\ edits < MaxEdits /\ edits' = edits + 1
    /\ content' \in Contents
    /\ Update(content')
    /\ \/ SubmitShopToForum(FALSE)
       \/ UNCHANGED <<submitting, completed, chains, lost>>
    /\ UNCHANGED <<savedHash, threads, indexVars, posted, indexings, retries, spoiled>>

-----------------------------------------------------------------------------
(* The steps of a submission. *)

Goto(c, step) == chains' = [chains EXCEPT ![c] = step]

\* The edit page arrives: with a token and a title, or not.
OnEditPageFinished ==
    \E c \in DOMAIN chains :
        /\ chains[c].at = "page"
        /\ \/ Goto(c, [at |-> "wait"]) /\ UNCHANGED submitting
           \/ Goto(c, Done) /\ submitting' = FALSE
        /\ UNCHANGED <<content, dataVars, savedHash, threads, indexVars, completed, posted,
                       countVars, lost, spoiled>>

\* The delay is over: the text for the thread whose turn it is is posted.
SubmitNextShop ==
    \E c \in DOMAIN chains :
        /\ chains[c].at = "wait"
        /\ Goto(c, [at |-> "post", thread |-> completed + 1, text |-> data])
        /\ UNCHANGED <<content, dataVars, savedHash, threads, submitting, indexVars, completed,
                       posted, countVars, lost, spoiled>>

(***************************************************************************)
(* SubmitSingleShop after count threads: the next one, or the end.  Beyond *)
(* the last thread m_threads is read out of range; nothing is claimed of   *)
(* such a chain and it stops here.                                         *)
(***************************************************************************)
SubmitSingleShop(c, count) ==
    IF count = threads
    THEN Goto(c, Done) /\ submitting' = FALSE /\ savedHash' = hash
    ELSE /\ Goto(c, IF count < threads THEN [at |-> "page"] ELSE Done)
         /\ UNCHANGED <<submitting, savedHash>>

\* The forum has taken the text; or the page does not say so but shows no error, as
\* when the request fails or times out.
ThreadDone(c) ==
    /\ completed' = completed + 1
    /\ SubmitSingleShop(c, completed + 1)
    /\ UNCHANGED retries

\* "Rate limiting" or an expired token: the same thread again after a delay.
PostAgain(c) ==
    /\ retries < MaxRetries /\ retries' = retries + 1
    /\ Goto(c, [at |-> "wait"])
    /\ UNCHANGED <<completed, savedHash, submitting>>

\* Mutant: the submission ends without m_submitting being reset.
SilentGiveUp(c) == Goto(c, Done) /\ UNCHANGED <<submitting, completed, savedHash, retries>>

\* Any other error on the page.
GiveUp(c) ==
    Goto(c, Done) /\ submitting' = FALSE /\ UNCHANGED <<completed, savedHash, retries>>

\* OnShopSubmitted: the reply to a post the forum has carried out, or not.
OnShopSubmitted ==
    \E c \in DOMAIN chains :
        /\ chains[c].at = "post"
        /\ \/ chains[c].thread \in Threads /\ ThreadDone(c)
              /\ posted' = [posted EXCEPT ![chains[c].thread] = chains[c].text]
           \/ (PostAgain(c) \/ GiveUp(c)) /\ UNCHANGED posted
        /\ UNCHANGED <<content, dataVars, threads, indexVars, edits, indexings, lost, spoiled>>

\* The request fails: no error is found in the bytes received.
PostFails ==
    \E c \in DOMAIN chains :
        /\ chains[c].at = "post"
        /\ ThreadDone(c) /\ lost' = TRUE
        /\ UNCHANGED <<content, dataVars, threads, indexVars, posted, edits, indexings, spoiled>>

ShopNext ==
    \/ RestartShop
    \/ ChangeContent
    \/ SetThread
    \/ UpdateStashIndex
    \/ IndexReply
    \/ SubmitForced
    \/ OnItemsRefreshed
    \/ OnEditPageFinished
    \/ SubmitNextShop
    \/ OnShopSubmitted
    \/ PostFails

ShopSpec == ShopInit /\ [][ShopNext]_shopVars

\* The event loop runs the slots and the timers; every request ends, if only by
\* its transfer timeout.
ShopFairSpec ==
    /\ ShopSpec
    /\ WF_shopVars(OnEditPageFinished) /\ WF_shopVars(SubmitNextShop)
    /\ WF_shopVars(OnShopSubmitted \/ PostFails)

-----------------------------------------------------------------------------
(* Properties. *)

Step == {Done, [at |-> "page"], [at |-> "wait"]}
            \cup [at : {"post"}, thread : Nat, text : Contents]

\* The variables have their types.
ShopTypeOK ==
    /\ content \in Contents /\ data \in Contents
    /\ hash \in Contents \cup {NoHash} /\ savedHash \in Contents \cup {NoHash}
    /\ outdated \in BOOLEAN /\ submitting \in BOOLEAN
    /\ indexing \in BOOLEAN /\ indexed \in BOOLEAN /\ indexRequests \in Nat
    /\ threads \in Threads /\ completed \in Nat
    /\ chains \in Seq(Step) /\ posted \in [Threads -> Contents]
    /\ edits \in Nat /\ indexings \in Nat /\ retries \in Nat
    /\ lost \in BOOLEAN /\ spoiled \in BOOLEAN

(***************************************************************************)
(* While no bad index came in: m_submitting stands for exactly one chain   *)
(* under way, which is at a thread that exists and posts what the shop     *)
(* data say; so two submissions never mix their threads or their texts.    *)
(***************************************************************************)
OneSubmission ==
    ~spoiled =>
        /\ submitting <=> Running # {}
        /\ \A c, d \in Running : c = d
        /\ submitting => completed < threads
        /\ \A c \in Running : chains[c].at = "post" =>
              chains[c].thread = completed + 1 /\ chains[c].text = data

SubmissionInv == ShopTypeOK /\ OneSubmission

\* A submission goes through to its last thread.
Completes == submitting /\ ~submitting' /\ completed' = threads

(***************************************************************************)
(* A submission that goes through without a failing request leaves one and *)
(* the same shop on all threads, whatever was edited, refreshed or indexed *)
(* while it ran.                                                           *)
(***************************************************************************)
SubmissionIsWhole ==
    [][Completes /\ ~lost /\ ~lost' /\ ~spoiled =>
          \A k \in 1..threads : posted'[k] = data']_shopVars

(***************************************************************************)
(* A submission ends: through, given up, or cut off; errors and retries    *)
(* cannot leave the shop submitting for ever.                              *)
(***************************************************************************)
SubmissionEnds == submitting ~> ~submitting

=============================================================================
