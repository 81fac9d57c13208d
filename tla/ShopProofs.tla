------------------------------ MODULE ShopProofs ------------------------------
(***************************************************************************)
(* However many threads, submissions, edits and retries there are: one     *)
(* submission at a time, and a submission that goes through leaves the     *)
(* same shop everywhere.                                                   *)
(***************************************************************************)
EXTENDS Shop, SequenceTheorems, TLAPS

\* The threads behind a submission under way show its shop, unless a post was lost.
WholeSoFar ==
    ~spoiled /\ submitting /\ ~lost => \A k \in 1..completed : posted[k] = data

ShopIInv == ShopTypeOK /\ OneSubmission /\ WholeSoFar

-----------------------------------------------------------------------------
LEMMA StepsAreSteps ==
    /\ Done \in Step /\ [at |-> "page"] \in Step /\ [at |-> "wait"] \in Step
    /\ [at |-> "page"] # Done /\ [at |-> "wait"] # Done
    /\ \A n \in Nat, t \in Contents :
          /\ [at |-> "post", thread |-> n, text |-> t] \in Step
          /\ [at |-> "post", thread |-> n, text |-> t] # Done
BY DEF Step, Done

LEMMA PostIsTyped ==
    ASSUME NEW s \in Step, s.at = "post"
    PROVE  s.thread \in Nat /\ s.text \in Contents
BY DEF Step, Done

\* A chain that goes on leaves the others alone.
LEMMA GotoChanges ==
    ASSUME chains \in Seq(Step), NEW c \in DOMAIN chains, NEW step \in Step, Goto(c, step)
    PROVE  /\ chains' \in Seq(Step) /\ DOMAIN chains' = DOMAIN chains
           /\ chains'[c] = step
           /\ \A d \in DOMAIN chains : d # c => chains'[d] = chains[d]
<1>1. chains' = [chains EXCEPT ![c] = step]
  BY DEF Goto
<1>2. chains \in [1..Len(chains) -> Step] /\ Len(chains) \in Nat /\ DOMAIN chains = 1..Len(chains)
  OBVIOUS
<1>3. chains' \in Seq(Step)
  BY <1>1, ExceptSeq
<1> QED
  BY <1>1, <1>2, <1>3

\* A chain that waits for anything is the one submission there is.
LEMMA TheSubmission ==
    ASSUME ShopTypeOK, OneSubmission, ~spoiled, NEW c \in DOMAIN chains, chains[c] # Done
    PROVE  /\ Running = {c} /\ submitting /\ completed < threads
           /\ chains[c].at = "post" =>
                 chains[c].thread = completed + 1 /\ chains[c].text = data
<1>1. c \in Running
  BY DEF Running
<1> QED
  BY <1>1 DEF OneSubmission

\* What a step of that chain does to the set of submissions under way.
LEMMA SubmissionGoesOn ==
    ASSUME ShopTypeOK, OneSubmission, ~spoiled, NEW c \in DOMAIN chains, chains[c] # Done,
           NEW step \in Step, Goto(c, step)
    PROVE  /\ step # Done => Running' = {c}
           /\ step = Done => Running' = {}
<1>1. Running = {c} /\ chains \in Seq(Step)
  BY TheSubmission DEF ShopTypeOK
<1>2. /\ DOMAIN chains' = DOMAIN chains /\ chains'[c] = step
      /\ \A d \in DOMAIN chains : d # c => chains'[d] = chains[d]
  BY <1>1, GotoChanges
<1>3. \A d \in DOMAIN chains : d # c => chains'[d] = Done
  BY <1>1, <1>2 DEF Running
<1> QED
  BY <1>2, <1>3 DEF Running

\* The submission goes on: OneSubmission holds as it did.
LEMMA StillOne ==
    ASSUME ShopTypeOK, OneSubmission, NEW c \in DOMAIN chains, chains[c] # Done,
           NEW step \in Step, Goto(c, step), step # Done,
           submitting' = submitting, spoiled' = spoiled, threads' = threads, data' = data,
           completed' <= completed \/ completed' < threads,
           completed' \in Nat,
           step.at = "post" => step.thread = completed' + 1 /\ step.text = data
    PROVE  OneSubmission'
<1> SUFFICES ASSUME ~spoiled
             PROVE  /\ submitting' <=> Running' # {}
                    /\ \A d, e \in Running' : d = e
                    /\ submitting' => completed' < threads'
                    /\ \A d \in Running' : chains'[d].at = "post" =>
                          chains'[d].thread = completed' + 1 /\ chains'[d].text = data'
  BY DEF OneSubmission
<1>1. submitting /\ completed < threads /\ completed \in Nat /\ threads \in Nat
  BY TheSubmission, ShopAssumption DEF ShopTypeOK, Threads
<1>2. Running' = {c}
  BY SubmissionGoesOn
<1>3. chains'[c] = step
  BY GotoChanges DEF ShopTypeOK
<1> QED
  BY <1>1, <1>2, <1>3

\* The submission ends: there is none.
LEMMA NoneLeft ==
    ASSUME ShopTypeOK, OneSubmission, NEW c \in DOMAIN chains, chains[c] # Done,
           Goto(c, Done), ~submitting', spoiled' = spoiled
    PROVE  OneSubmission'
<1>1. CASE spoiled
  BY <1>1 DEF OneSubmission
<1>2. CASE ~spoiled
  <2>1. Running' = {}
    BY <1>2, SubmissionGoesOn, StepsAreSteps
  <2> QED
    BY <2>1 DEF OneSubmission
<1> QED
  BY <1>1, <1>2

\* A step that touches no chain: OneSubmission holds as it did.
LEMMA NoChainTouched ==
    ASSUME ShopTypeOK, OneSubmission, UNCHANGED <<chains, submitting, completed>>,
           spoiled' = spoiled,
           submitting => threads' = threads /\ data' = data
    PROVE  OneSubmission'
<1>1. CASE spoiled
  BY <1>1 DEF OneSubmission
<1>2. CASE ~spoiled /\ submitting
  BY <1>2 DEF OneSubmission, Running
<1>3. CASE ~spoiled /\ ~submitting
  <2>1. Running' = {}
    BY <1>3 DEF OneSubmission, Running
  <2> QED
    BY <1>3, <2>1 DEF OneSubmission
<1> QED
  BY <1>1, <1>2, <1>3 DEF ShopTypeOK

\* The text is built again only between submissions.
LEMMA UpdateKeepsData ==
    ASSUME ShopTypeOK, NEW now \in Contents, Update(now)
    PROVE  /\ data' \in Contents /\ outdated' \in BOOLEAN
           /\ hash' \in Contents \cup {NoHash}
           /\ submitting => data' = data
<1>1. CASE MayUpdate
  BY <1>1 DEF Update, MayUpdate, ShopTypeOK
<1>2. CASE ~MayUpdate
  BY <1>2 DEF Update, dataVars, ShopTypeOK
<1> QED
  BY <1>1, <1>2

\* SubmitShopToForum starts a submission only when there is none.
LEMMA OneIsStarted ==
    ASSUME ShopTypeOK, OneSubmission, NEW force, SubmitShopToForum(force),
           threads' = threads, spoiled' = spoiled, submitting => data' = data
    PROVE  /\ OneSubmission'
           /\ submitting' \in BOOLEAN /\ completed' \in Nat /\ chains' \in Seq(Step)
           /\ lost' \in BOOLEAN
           /\ UNCHANGED <<submitting, completed, lost>> \/ completed' = 0
           /\ submitting => UNCHANGED <<submitting, completed, lost>>
<1>1. CASE Refused \/ Unchanged(force)
  <2>1. UNCHANGED <<submitting, completed, chains, lost>>
    BY <1>1 DEF SubmitShopToForum
  <2> QED
    BY <2>1, NoChainTouched DEF ShopTypeOK
<1>2. CASE ~(Refused \/ Unchanged(force))
  <2>1. /\ ~submitting /\ completed' = 0 /\ submitting' = TRUE /\ lost' = FALSE
        /\ chains' = Append(chains, [at |-> "page"])
    BY <1>2 DEF SubmitShopToForum, StartChain, Refused
  <2>2. chains \in Seq(Step) /\ Len(chains) \in Nat
    BY DEF ShopTypeOK
  <2>3. /\ chains' \in Seq(Step)
        /\ DOMAIN chains' = DOMAIN chains \cup {Len(chains) + 1}
        /\ chains'[Len(chains) + 1] = [at |-> "page"]
        /\ \A d \in DOMAIN chains : chains'[d] = chains[d]
    BY <2>1, <2>2, StepsAreSteps, AppendProperties
  <2>4. CASE spoiled
    BY <2>1, <2>3, <2>4 DEF OneSubmission
  <2>5. CASE ~spoiled
    <3>1. Running = {}
      BY <2>1, <2>5 DEF OneSubmission
    <3>2. Running' = {Len(chains) + 1}
      BY <2>3, <3>1, StepsAreSteps DEF Running
    <3>3. threads > 0 /\ chains'[Len(chains) + 1].at = "page"
      BY <2>3, ShopAssumption DEF ShopTypeOK, Threads
    <3>4. OneSubmission'
      BY <2>1, <3>2, <3>3 DEF OneSubmission
    <3> QED
      BY <2>1, <2>3, <3>4
  <2> QED
    BY <2>4, <2>5
<1> QED
  BY <1>1, <1>2

-----------------------------------------------------------------------------
LEMMA InitEstablishes == ShopInit => ShopIInv
<1> SUFFICES ASSUME ShopInit PROVE ShopIInv
  OBVIOUS
<1>1. <<>> \in Seq(Step) /\ Running = {}
  BY EmptySeq DEF ShopInit, Running
<1>2. ShopTypeOK
  BY <1>1, ShopAssumption DEF ShopInit, ShopTypeOK
<1>3. OneSubmission /\ WholeSoFar
  BY <1>1 DEF ShopInit, OneSubmission, WholeSoFar
<1> QED
  BY <1>2, <1>3 DEF ShopIInv

LEMMA RestartPreserves ==
    ASSUME ShopIInv, RestartShop
    PROVE  ShopIInv'
<1>1. chains \in Seq(Step) /\ DOMAIN chains = 1..Len(chains) /\ Len(chains) \in Nat
  BY DEF ShopIInv, ShopTypeOK
<1>2. chains' = [c \in 1..Len(chains) |-> Done]
  BY <1>1 DEF RestartShop
<1>3. chains' \in Seq(Step)
  BY <1>1, <1>2, StepsAreSteps, IsASeq
<1>4. Running' = {}
  BY <1>2 DEF Running
<1>5. ShopTypeOK'
  <2>1. /\ outdated' \in BOOLEAN /\ submitting' \in BOOLEAN /\ indexing' \in BOOLEAN
        /\ indexed' \in BOOLEAN /\ lost' \in BOOLEAN /\ spoiled' \in BOOLEAN
    BY DEF RestartShop
  <2>2. indexings' \in Nat /\ indexRequests' \in Nat /\ completed' \in Nat
    BY DEF RestartShop, ShopIInv, ShopTypeOK
  <2>3. data' \in Contents /\ hash' \in Contents \cup {NoHash}
    BY ShopAssumption DEF RestartShop
  <2>4. UNCHANGED <<content, savedHash, threads, posted, edits, retries>>
    BY DEF RestartShop
  <2> QED
    BY <1>3, <2>1, <2>2, <2>3, <2>4 DEF ShopIInv, ShopTypeOK
<1>6. OneSubmission' /\ WholeSoFar'
  BY <1>4 DEF RestartShop, OneSubmission, WholeSoFar
<1> QED
  BY <1>5, <1>6 DEF ShopIInv

LEMMA EditPreserves ==
    ASSUME ShopIInv, ChangeContent \/ SetThread \/ UpdateStashIndex
    PROVE  ShopIInv'
<1>1. ShopTypeOK'
  <2>1. edits' \in Nat /\ indexings' \in Nat /\ indexRequests' \in Nat
    BY DEF ShopIInv, ShopTypeOK, ChangeContent, SetThread, UpdateStashIndex, indexVars
  <2>2. indexing' \in BOOLEAN /\ indexed' \in BOOLEAN /\ outdated' \in BOOLEAN
    BY DEF ShopIInv, ShopTypeOK, ChangeContent, SetThread, UpdateStashIndex, indexVars, dataVars
  <2>3. /\ content' \in Contents /\ threads' \in Threads
        /\ savedHash' \in Contents \cup {NoHash}
    BY DEF ShopIInv, ShopTypeOK, ChangeContent, SetThread, UpdateStashIndex
  <2>4. UNCHANGED <<data, hash, submitting, completed, chains, posted, retries, lost, spoiled>>
    BY DEF ChangeContent, SetThread, UpdateStashIndex, dataVars
  <2> QED
    BY <2>1, <2>2, <2>3, <2>4 DEF ShopIInv, ShopTypeOK
<1>2. /\ UNCHANGED <<chains, submitting, completed>> /\ spoiled' = spoiled
      /\ UNCHANGED <<data, posted, lost>>
      /\ submitting => threads' = threads
  BY DEF ChangeContent, SetThread, UpdateStashIndex, dataVars
<1>3. OneSubmission'
  BY <1>2, NoChainTouched DEF ShopIInv
<1>4. WholeSoFar'
  BY <1>2 DEF ShopIInv, WholeSoFar
<1> QED
  BY <1>1, <1>3, <1>4 DEF ShopIInv

LEMMA IndexReplyPreserves ==
    ASSUME ShopIInv, IndexReply
    PROVE  ShopIInv'
<1>1. ShopTypeOK'
  <2>1. /\ indexing' \in BOOLEAN /\ indexed' \in BOOLEAN /\ outdated' \in BOOLEAN
        /\ submitting' \in BOOLEAN /\ spoiled' \in BOOLEAN
    BY DEF ShopIInv, ShopTypeOK, IndexReply
  <2>2. indexRequests' \in Nat
    BY DEF ShopIInv, ShopTypeOK, IndexReply
  <2> QED
    BY <2>1, <2>2 DEF ShopIInv, ShopTypeOK, IndexReply, countVars
<1>2. UNCHANGED <<chains, completed, threads, data, posted, lost>>
  BY DEF IndexReply
<1>3. CASE UNCHANGED <<submitting, spoiled>>
  <2>1. OneSubmission'
    BY <1>2, <1>3, NoChainTouched DEF ShopIInv
  <2>2. WholeSoFar'
    BY <1>2, <1>3 DEF ShopIInv, WholeSoFar
  <2> QED
    BY <1>1, <2>1, <2>2 DEF ShopIInv
<1>4. CASE submitting' = FALSE /\ spoiled' = TRUE
  BY <1>1, <1>4 DEF ShopIInv, OneSubmission, WholeSoFar
<1> QED
  BY <1>3, <1>4 DEF IndexReply

\* A shop that may be started, after the text may have been built again.
LEMMA StartPreserves ==
    ASSUME ShopIInv, NEW now \in Contents, NEW force,
           Update(now) \/ UNCHANGED dataVars,
           SubmitShopToForum(force) \/ UNCHANGED <<submitting, completed, chains, lost>>,
           content' \in Contents, edits' \in Nat,
           UNCHANGED <<savedHash, threads, indexVars, posted, indexings, retries, spoiled>>
    PROVE  ShopIInv'
<1>1. ShopTypeOK /\ OneSubmission /\ WholeSoFar
  BY DEF ShopIInv
<1>2. /\ data' \in Contents /\ outdated' \in BOOLEAN
      /\ hash' \in Contents \cup {NoHash}
      /\ submitting => data' = data
  BY <1>1, UpdateKeepsData DEF dataVars, ShopTypeOK
<1>3. /\ OneSubmission'
      /\ submitting' \in BOOLEAN /\ completed' \in Nat /\ chains' \in Seq(Step)
      /\ lost' \in BOOLEAN
      /\ UNCHANGED <<submitting, completed, lost>> \/ completed' = 0
      /\ submitting => UNCHANGED <<submitting, completed, lost>>
  <2>1. CASE SubmitShopToForum(force)
    BY <1>1, <1>2, <2>1, OneIsStarted
  <2>2. CASE UNCHANGED <<submitting, completed, chains, lost>>
    BY <1>1, <1>2, <2>2, NoChainTouched DEF ShopTypeOK
  <2> QED
    BY <2>1, <2>2
<1>4. ShopTypeOK'
  BY <1>1, <1>2, <1>3 DEF ShopTypeOK, indexVars
<1>5. WholeSoFar'
  <2>1. CASE completed' = 0 /\ ~submitting
    BY <2>1 DEF WholeSoFar
  <2>2. CASE UNCHANGED <<submitting, completed, lost>>
    BY <1>1, <1>2, <2>2 DEF WholeSoFar
  <2> QED
    BY <1>3, <2>1, <2>2
<1> QED
  BY <1>3, <1>4, <1>5 DEF ShopIInv

LEMMA SubmitPreserves ==
    ASSUME ShopIInv, SubmitForced \/ OnItemsRefreshed
    PROVE  ShopIInv'
<1>1. CASE SubmitForced
  <2>1. /\ content \in Contents /\ content' \in Contents /\ edits' \in Nat
        /\ Update(content) \/ UNCHANGED dataVars
        /\ SubmitShopToForum(TRUE)
        /\ UNCHANGED <<savedHash, threads, indexVars, posted, indexings, retries, spoiled>>
    BY <1>1 DEF SubmitForced, ShopIInv, ShopTypeOK, countVars
  <2> QED
    BY <2>1, StartPreserves
<1>2. CASE OnItemsRefreshed
  <2>1. /\ content' \in Contents /\ edits' \in Nat
        /\ Update(content')
        /\ SubmitShopToForum(FALSE) \/ UNCHANGED <<submitting, completed, chains, lost>>
        /\ UNCHANGED <<savedHash, threads, indexVars, posted, indexings, retries, spoiled>>
    <3>1. edits' \in Nat
      BY <1>2 DEF OnItemsRefreshed, ShopIInv, ShopTypeOK
    <3> QED
      BY <1>2, <3>1 DEF OnItemsRefreshed
  <2> QED
    BY <2>1, StartPreserves
<1> QED
  BY <1>1, <1>2

-----------------------------------------------------------------------------
(* The steps of a submission. *)

\* A step that ends the submission.
LEMMA EndPreserves ==
    ASSUME ShopIInv, NEW c \in DOMAIN chains, chains[c] # Done,
           Goto(c, Done), submitting' = FALSE,
           UNCHANGED <<content, dataVars, threads, indexVars, edits, indexings, spoiled>>,
           completed' \in Nat, savedHash' \in Contents \cup {NoHash}, retries' \in Nat,
           posted' \in [Threads -> Contents], lost' \in BOOLEAN
    PROVE  ShopIInv'
<1>1. chains' \in Seq(Step)
  BY GotoChanges, StepsAreSteps DEF ShopIInv, ShopTypeOK
<1>2. ShopTypeOK'
  BY <1>1 DEF ShopIInv, ShopTypeOK, dataVars, indexVars
<1>3. OneSubmission'
  BY NoneLeft DEF ShopIInv
<1>4. WholeSoFar'
  BY DEF WholeSoFar
<1> QED
  BY <1>2, <1>3, <1>4 DEF ShopIInv

\* A step with which the submission goes on.
LEMMA GoOnPreserves ==
    ASSUME ShopIInv, NEW c \in DOMAIN chains, chains[c] # Done,
           NEW step \in Step, Goto(c, step), step # Done,
           UNCHANGED <<content, dataVars, threads, indexVars, edits, indexings, spoiled>>,
           UNCHANGED <<submitting, savedHash>>,
           completed' \in Nat, completed' <= completed \/ completed' < threads,
           step.at = "post" => step.thread = completed' + 1 /\ step.text = data,
           retries' \in Nat, posted' \in [Threads -> Contents], lost' \in BOOLEAN,
           WholeSoFar'
    PROVE  ShopIInv'
<1>1. chains' \in Seq(Step)
  BY GotoChanges DEF ShopIInv, ShopTypeOK
<1>2. ShopTypeOK'
  BY <1>1 DEF ShopIInv, ShopTypeOK, dataVars, indexVars
<1>3. OneSubmission'
  BY StillOne DEF ShopIInv, dataVars
<1> QED
  BY <1>2, <1>3 DEF ShopIInv

LEMMA EditPagePreserves ==
    ASSUME ShopIInv, OnEditPageFinished
    PROVE  ShopIInv'
<1>1. PICK c \in DOMAIN chains :
          /\ chains[c].at = "page"
          /\ \/ Goto(c, [at |-> "wait"]) /\ UNCHANGED submitting
             \/ Goto(c, Done) /\ submitting' = FALSE
          /\ UNCHANGED <<content, dataVars, savedHash, threads, indexVars, completed, posted,
                         countVars, lost, spoiled>>
  BY DEF OnEditPageFinished
<1>2. chains[c] # Done
  BY <1>1 DEF Done
<1>3. CASE Goto(c, Done) /\ submitting' = FALSE
  BY <1>1, <1>2, <1>3, EndPreserves DEF ShopIInv, ShopTypeOK, countVars
<1>4. CASE Goto(c, [at |-> "wait"]) /\ UNCHANGED submitting
  <2>1. WholeSoFar'
    BY <1>1, <1>4 DEF ShopIInv, WholeSoFar, dataVars
  <2>2. completed \in Nat /\ completed' <= completed
    BY <1>1 DEF ShopIInv, ShopTypeOK
  <2> QED
    BY <1>1, <1>2, <1>4, <2>1, <2>2, StepsAreSteps, GoOnPreserves
       DEF ShopIInv, ShopTypeOK, countVars
<1> QED
  BY <1>1, <1>3, <1>4

LEMMA NextShopPreserves ==
    ASSUME ShopIInv, SubmitNextShop
    PROVE  ShopIInv'
<1>1. PICK c \in DOMAIN chains :
          /\ chains[c].at = "wait"
          /\ Goto(c, [at |-> "post", thread |-> completed + 1, text |-> data])
          /\ UNCHANGED <<content, dataVars, savedHash, threads, submitting, indexVars,
                         completed, posted, countVars, lost, spoiled>>
  BY DEF SubmitNextShop
<1> DEFINE step == [at |-> "post", thread |-> completed + 1, text |-> data]
<1>2. chains[c] # Done
  BY <1>1 DEF Done
<1>3. completed + 1 \in Nat /\ data \in Contents
  BY DEF ShopIInv, ShopTypeOK
<1>4. step \in Step /\ step # Done
  BY <1>3, StepsAreSteps
<1>5. WholeSoFar'
  BY <1>1 DEF ShopIInv, WholeSoFar, dataVars
<1>6. step.at = "post" => step.thread = completed' + 1 /\ step.text = data
  BY <1>1
<1>7. /\ completed' \in Nat /\ completed' <= completed
      /\ retries' \in Nat /\ posted' \in [Threads -> Contents] /\ lost' \in BOOLEAN
      /\ UNCHANGED <<edits, indexings>>
  BY <1>1 DEF ShopIInv, ShopTypeOK, countVars
<1> HIDE DEF step
<1>8. Goto(c, step)
  BY <1>1 DEF step
<1> QED
  BY <1>1, <1>2, <1>4, <1>5, <1>6, <1>7, <1>8, GoOnPreserves

\* The threads done so far, after one more whose post was taken.
LEMMA OneMoreIsWhole ==
    ASSUME ShopIInv, NEW c \in DOMAIN chains, chains[c].at = "post",
           completed' = completed + 1, data' = data, spoiled' = spoiled,
           \/ lost'
           \/ lost' = lost /\ posted' = [posted EXCEPT ![chains[c].thread] = chains[c].text]
    PROVE  submitting /\ ~lost' /\ ~spoiled => \A k \in 1..completed' : posted'[k] = data'
<1> SUFFICES ASSUME submitting, ~lost', ~spoiled, NEW k \in 1..completed'
             PROVE  posted'[k] = data'
  OBVIOUS
<1>1. chains[c] # Done
  BY DEF Done
<1>2. /\ chains[c].thread = completed + 1 /\ chains[c].text = data
      /\ completed < threads /\ completed \in Nat /\ threads \in Threads
  BY <1>1, TheSubmission DEF ShopIInv, ShopTypeOK
<1>3. \A j \in 1..completed : posted[j] = data
  BY DEF ShopIInv, WholeSoFar
<1>4. posted \in [Threads -> Contents] /\ k \in Threads /\ k \in 1..(completed + 1)
  BY <1>2, ShopAssumption DEF ShopIInv, ShopTypeOK, Threads
<1>5. posted'[k] = IF k = completed + 1 THEN data ELSE posted[k]
  BY <1>2, <1>4
<1> QED
  BY <1>2, <1>3, <1>4, <1>5

\* A thread is done, and the next one follows or the submission ends.
LEMMA ThreadDonePreserves ==
    ASSUME ShopIInv, NEW c \in DOMAIN chains, chains[c].at = "post", ThreadDone(c),
           \/ lost' = TRUE /\ UNCHANGED posted
           \/ /\ lost' = lost /\ chains[c].thread \in Threads
              /\ posted' = [posted EXCEPT ![chains[c].thread] = chains[c].text],
           UNCHANGED <<content, dataVars, threads, indexVars, edits, indexings, spoiled>>
    PROVE  ShopIInv'
<1>1. chains[c] # Done
  BY DEF Done
<1>2. completed \in Nat /\ threads \in Nat /\ hash \in Contents \cup {NoHash}
  BY ShopAssumption DEF ShopIInv, ShopTypeOK, Threads
<1>3. completed' = completed + 1 /\ retries' = retries /\ data' = data
  BY DEF ThreadDone, dataVars
<1>4. completed' \in Nat /\ retries' \in Nat /\ lost' \in BOOLEAN
  <2>1. lost' \in BOOLEAN
    BY DEF ShopIInv, ShopTypeOK
  <2> QED
    BY <1>2, <1>3, <2>1 DEF ShopIInv, ShopTypeOK
<1>5. posted' \in [Threads -> Contents]
  <2>1. chains[c] \in Step
    BY DEF ShopIInv, ShopTypeOK
  <2>2. chains[c].text \in Contents
    BY <2>1, PostIsTyped
  <2> QED
    BY <2>2 DEF ShopIInv, ShopTypeOK
<1>6. CASE completed + 1 = threads
  <2>1. Goto(c, Done) /\ submitting' = FALSE /\ savedHash' = hash
    BY <1>6 DEF ThreadDone, SubmitSingleShop
  <2> QED
    BY <1>1, <1>2, <1>4, <1>5, <2>1, EndPreserves
<1>7. CASE completed + 1 < threads
  <2>1. Goto(c, [at |-> "page"]) /\ UNCHANGED <<submitting, savedHash>>
    BY <1>2, <1>7 DEF ThreadDone, SubmitSingleShop
  <2>2. WholeSoFar'
    BY <1>3, <2>1, OneMoreIsWhole DEF WholeSoFar
  <2>3. completed' < threads
    BY <1>3, <1>7
  <2> QED
    BY <1>1, <1>4, <1>5, <2>1, <2>2, <2>3, StepsAreSteps, GoOnPreserves
\* Beyond the last thread: only after a bad index.
<1>8. CASE completed + 1 > threads
  <2>1. spoiled
    BY <1>1, <1>2, <1>8, TheSubmission DEF ShopIInv
  <2>2. spoiled' /\ Goto(c, Done) /\ UNCHANGED <<submitting, savedHash>>
    BY <1>2, <1>8, <2>1 DEF ThreadDone, SubmitSingleShop
  <2>3. chains' \in Seq(Step)
    BY <2>2, GotoChanges, StepsAreSteps DEF ShopIInv, ShopTypeOK
  <2>4. ShopTypeOK'
    BY <1>4, <1>5, <2>2, <2>3 DEF ShopIInv, ShopTypeOK, dataVars, indexVars
  <2> QED
    BY <2>2, <2>4 DEF ShopIInv, OneSubmission, WholeSoFar
<1> QED
  BY <1>2, <1>6, <1>7, <1>8

LEMMA SubmittedPreserves ==
    ASSUME ShopIInv, OnShopSubmitted
    PROVE  ShopIInv'
<1>1. PICK c \in DOMAIN chains :
          /\ chains[c].at = "post"
          /\ \/ chains[c].thread \in Threads /\ ThreadDone(c)
                /\ posted' = [posted EXCEPT ![chains[c].thread] = chains[c].text]
             \/ (PostAgain(c) \/ GiveUp(c)) /\ UNCHANGED posted
          /\ UNCHANGED <<content, dataVars, threads, indexVars, edits, indexings, lost, spoiled>>
  BY DEF OnShopSubmitted
<1>2. chains[c] # Done
  BY <1>1 DEF Done
<1>3. CASE ThreadDone(c) /\ chains[c].thread \in Threads
           /\ posted' = [posted EXCEPT ![chains[c].thread] = chains[c].text]
  BY <1>1, <1>3, ThreadDonePreserves
<1>4. CASE PostAgain(c) /\ UNCHANGED posted
  <2>1. /\ Goto(c, [at |-> "wait"]) /\ UNCHANGED <<completed, savedHash, submitting>>
        /\ retries' \in Nat
    BY <1>4 DEF PostAgain, ShopIInv, ShopTypeOK
  <2>2. WholeSoFar'
    BY <1>1, <1>4, <2>1 DEF ShopIInv, WholeSoFar, dataVars
  <2>3. /\ completed' \in Nat /\ completed' <= completed
        /\ posted' \in [Threads -> Contents] /\ lost' \in BOOLEAN
    BY <1>1, <1>4, <2>1 DEF ShopIInv, ShopTypeOK
  <2> QED
    BY <1>1, <1>2, <2>1, <2>2, <2>3, StepsAreSteps, GoOnPreserves
<1>5. CASE GiveUp(c) /\ UNCHANGED posted
  BY <1>1, <1>2, <1>5, EndPreserves DEF GiveUp, ShopIInv, ShopTypeOK
<1> QED
  BY <1>1, <1>3, <1>4, <1>5

LEMMA PostFailsPreserves ==
    ASSUME ShopIInv, PostFails
    PROVE  ShopIInv'
<1>1. PICK c \in DOMAIN chains :
          /\ chains[c].at = "post"
          /\ ThreadDone(c) /\ lost' = TRUE
          /\ UNCHANGED <<content, dataVars, threads, indexVars, posted, edits, indexings, spoiled>>
  BY DEF PostFails
<1> QED
  BY <1>1, ThreadDonePreserves

LEMMA NextPreserves == ShopIInv /\ [ShopNext]_shopVars => ShopIInv'
<1> SUFFICES ASSUME ShopIInv, [ShopNext]_shopVars PROVE ShopIInv'
  OBVIOUS
<1>1. CASE ShopNext
  BY <1>1, RestartPreserves, EditPreserves, IndexReplyPreserves, SubmitPreserves,
     EditPagePreserves, NextShopPreserves, SubmittedPreserves, PostFailsPreserves
     DEF ShopNext
<1>2. CASE UNCHANGED shopVars
  <2>1. OneSubmission'
    BY <1>2, NoChainTouched DEF ShopIInv, shopVars, dataVars
  <2>2. ShopTypeOK' /\ WholeSoFar'
    BY <1>2 DEF ShopIInv, ShopTypeOK, WholeSoFar, shopVars, dataVars, indexVars, countVars
  <2> QED
    BY <2>1, <2>2 DEF ShopIInv
<1> QED
  BY <1>1, <1>2

LEMMA InvariantHolds == ShopSpec => []ShopIInv
<1> QED
  BY InitEstablishes, NextPreserves, PTL DEF ShopSpec

(***************************************************************************)
(* One submission at a time, at a thread that exists, with the text of the *)
(* shop data, as long as no bad index came in: SubmitShopToForum and the   *)
(* slots that follow it.                                                   *)
(***************************************************************************)
THEOREM SubmissionInvHolds == ShopSpec => []SubmissionInv
<1>1. ShopIInv => SubmissionInv
  BY DEF ShopIInv, SubmissionInv
<1> QED
  BY <1>1, InvariantHolds, PTL

-----------------------------------------------------------------------------
\* The step with which a submission goes through.
LEMMA CompletionIsWhole ==
    ASSUME ShopIInv, ShopNext, Completes, ~lost, ~lost', ~spoiled
    PROVE  \A k \in 1..threads : posted'[k] = data'
<1>1. submitting /\ ~submitting' /\ completed' = threads
  BY DEF Completes
<1>2. /\ completed < threads /\ completed \in Nat /\ threads \in Nat /\ threads > 0
      /\ chains \in Seq(Step)
  BY <1>1, ShopAssumption DEF ShopIInv, OneSubmission, ShopTypeOK, Threads
<1>3. completed' # completed
  BY <1>1, <1>2
<1>4. completed' # 0
  BY <1>1, <1>2
<1>5. OnShopSubmitted
  BY <1>1, <1>3, <1>4 DEF ShopNext, RestartShop, ChangeContent, SetThread, UpdateStashIndex,
     IndexReply, SubmitForced, OnItemsRefreshed, SubmitShopToForum, Refused,
     OnEditPageFinished, SubmitNextShop, PostFails
<1>6. PICK c \in DOMAIN chains :
          /\ chains[c].at = "post"
          /\ ThreadDone(c)
          /\ posted' = [posted EXCEPT ![chains[c].thread] = chains[c].text]
          /\ UNCHANGED <<dataVars, lost, spoiled>>
  BY <1>3, <1>5 DEF OnShopSubmitted, PostAgain, GiveUp
<1>7. completed' = completed + 1 /\ data' = data
  BY <1>6 DEF ThreadDone, dataVars
<1> QED
  BY <1>1, <1>6, <1>7, OneMoreIsWhole

(***************************************************************************)
(* A submission that goes through without a failing request leaves the     *)
(* same shop on all threads: OnShopSubmitted, Update, SubmitShopToForum.   *)
(***************************************************************************)
THEOREM SubmissionIsWholeHolds == ShopSpec => SubmissionIsWhole
<1> DEFINE Whole == Completes /\ ~lost /\ ~lost' /\ ~spoiled =>
                        \A k \in 1..threads : posted'[k] = data'
<1>1. ShopIInv /\ [ShopNext]_shopVars => [Whole]_shopVars
  BY CompletionIsWhole
<1>2. [][Whole]_shopVars => SubmissionIsWhole
  BY DEF SubmissionIsWhole
<1> HIDE DEF Whole
<1> QED
  BY <1>1, <1>2, InvariantHolds, PTL DEF ShopSpec
=============================================================================
