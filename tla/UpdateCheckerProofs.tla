------------------------- MODULE UpdateCheckerProofs -------------------------
(***************************************************************************)
(* Whatever is published, asked and answered, and in whatever order the    *)
(* replies come: a newer release gets to the user, and one that is skipped *)
(* stays skipped.                                                          *)
(***************************************************************************)
EXTENDS UpdateChecker, FiniteSetTheorems, TLAPS

Requests == [id : 1..MaxChecks, had : Versions]

\* Each box of AskUserToUpdate comes from a reply of its own, so there are no more
\* of them than requests that have been answered.
Counted ==
    /\ CheckerTypeOK
    /\ requests \subseteq Requests /\ IsFiniteSet(requests)
    /\ questions + Cardinality(requests) <= checks
    /\ dropped \in [versions : Versions, start : Nat]

\* UpdateIsShown, before the main window is there too.
ShownSoFar ==
    (phase # "off" /\ ~unheard) => (button \/ Announced(latest) \subseteq told)

\* The settings hold what the user said last, and a checker that was started
\* after that compares with it.
SkipIsKnown ==
    /\ skip = dropped.versions
    /\ starts > dropped.start =>
          /\ previous.release >= skip.release
          /\ previous.prerelease >= skip.prerelease

CheckerIInv == Counted /\ ShownSoFar /\ SkipIsKnown

-----------------------------------------------------------------------------
LEMMA VersionsType ==
    /\ NullVersions \in Versions
    /\ \A v \in Versions : /\ v.release \in 0..Newest /\ v.prerelease \in 0..Newest
                           /\ v.release \in Nat /\ v.prerelease \in Nat
                           /\ AtMost(v, v)
BY CheckerBounds DEF Versions, NullVersions, AtMost

LEMMA AtMostTransitive ==
    ASSUME NEW u \in Versions, NEW v \in Versions, NEW w \in Versions,
           AtMost(u, v), AtMost(v, w)
    PROVE  AtMost(u, w)
BY CheckerBounds DEF Versions, AtMost

\* Version 0 is not newer than the one that runs.
LEMMA NothingIsNotNewer == Announced(NullVersions) = {} /\ ~HasNewer(NullVersions)
BY DEF Announced, HasNewer, Newer, NullVersions, Running

\* What is announced is newer.
LEMMA AnnouncedIsNewer ==
    ASSUME NEW v
    PROVE  /\ Announced(v) \subseteq {"release", "prerelease"}
           /\ ~HasNewer(v) => Announced(v) = {}
           /\ \A which \in Announced(v) : v[which] > previous[which]
BY DEF Announced, HasNewer, Newer

LEMMA CountOfFinite ==
    ASSUME NEW S, IsFiniteSet(S)
    PROVE  Cardinality(S) \in Nat
BY FS_CardinalityType

LEMMA OneElementMore ==
    ASSUME NEW S, NEW x, IsFiniteSet(S)
    PROVE  IsFiniteSet(S \cup {x}) /\ Cardinality(S \cup {x}) <= Cardinality(S) + 1
BY FS_AddElement, CountOfFinite

LEMMA RequestKeepsCounted ==
    ASSUME Counted, NEW others \in SUBSET requests, Request(others)
    PROVE  /\ checks' \in 0..MaxChecks /\ checks' = checks + 1
           /\ requests' \subseteq Requests /\ IsFiniteSet(requests')
           /\ \A r \in requests' : r.id \in 1..checks' /\ AtMost(r.had, published)
           /\ questions + Cardinality(requests') <= checks'
<1> DEFINE new == [id |-> checks + 1, had |-> published]
<1>1. checks \in Nat /\ checks + 1 \in 1..MaxChecks /\ checks' = checks + 1
  BY CheckerBounds DEF Counted, CheckerTypeOK, Request
<1>2. new \in Requests
  BY <1>1 DEF Counted, CheckerTypeOK, Requests
<1>3. requests' = others \cup {new}
  BY DEF Request
<1>4. IsFiniteSet(others) /\ Cardinality(others) <= Cardinality(requests)
  BY FS_Subset DEF Counted
<1>5. /\ IsFiniteSet(requests')
      /\ Cardinality(requests') \in Nat /\ Cardinality(others) \in Nat
      /\ Cardinality(requests) \in Nat
      /\ Cardinality(requests') <= Cardinality(others) + 1
  <2>1. IsFiniteSet(requests') /\ Cardinality(requests') <= Cardinality(others) + 1
    BY <1>3, <1>4, OneElementMore, Zenon
  <2> QED
    BY <2>1, <1>4, CountOfFinite, Zenon DEF Counted
<1>6. questions + Cardinality(requests') <= checks'
  BY <1>1, <1>4, <1>5 DEF Counted, CheckerTypeOK
<1>7. \A r \in requests' : r.id \in 1..checks' /\ AtMost(r.had, published)
  <2> SUFFICES ASSUME NEW r \in requests'
               PROVE  r.id \in 1..checks' /\ AtMost(r.had, published)
    OBVIOUS
  <2>1. CASE r \in others
    BY <2>1, <1>1 DEF Counted, CheckerTypeOK
  <2>2. CASE r = new
    BY <2>2, <1>1, VersionsType DEF Counted, CheckerTypeOK
  <2> QED BY <2>1, <2>2, <1>3
<1> QED
  BY <1>1, <1>2, <1>3, <1>5, <1>6, <1>7, CheckerBounds DEF Counted

\* A reply leaves one request less.
LEMMA ReplyLeavesOneLess ==
    ASSUME Counted, NEW r \in requests, requests' = requests \ {r}
    PROVE  /\ requests' \subseteq Requests /\ IsFiniteSet(requests')
           /\ Cardinality(requests') + 1 = Cardinality(requests)
           /\ Cardinality(requests') \in Nat
<1>1. IsFiniteSet(requests) /\ requests \subseteq Requests
  BY DEF Counted
<1>2. IsFiniteSet(requests') /\ Cardinality(requests') = Cardinality(requests) - 1
  BY <1>1, FS_RemoveElement
<1> QED
  BY <1>1, <1>2, CountOfFinite

-----------------------------------------------------------------------------
LEMMA InitEstablishes == Init => CheckerIInv
<1> SUFFICES ASSUME Init PROVE CheckerIInv
  OBVIOUS
<1>1. IsFiniteSet({}) /\ Cardinality({}) = 0
  BY FS_EmptySet
<1>2. Counted
  <2>1. CheckerTypeOK
    <3>1. NullVersions \in Versions
      BY VersionsType, Zenon
    <3>2. /\ checks \in 0..MaxChecks /\ starts \in 0..MaxStarts
          /\ questions \in 0..checks
      BY CheckerBounds DEF Init
    <3>3. requests = {} /\ told = {} /\ phase = "off" /\ published \in Versions
      BY DEF Init
    <3>4. latest \in Versions /\ previous \in Versions /\ skip \in Versions
      BY <3>1 DEF Init
    <3>5. button \in BOOLEAN /\ unheard \in BOOLEAN
      BY DEF Init
    <3> QED
      BY <3>2, <3>3, <3>4, <3>5 DEF CheckerTypeOK
  <2>2. dropped \in [versions : Versions, start : Nat]
    BY VersionsType DEF Init
  <2> QED
    BY <1>1, <2>1, <2>2 DEF Init, Counted
<1>3. ShownSoFar
  BY DEF Init, ShownSoFar
<1>4. SkipIsKnown
  BY VersionsType DEF Init, SkipIsKnown, NullVersions
<1> QED
  BY <1>2, <1>3, <1>4 DEF CheckerIInv

LEMMA NextPreserves == CheckerIInv /\ [Next]_vars => CheckerIInv'
<1> SUFFICES ASSUME CheckerIInv, [Next]_vars PROVE CheckerIInv'
  OBVIOUS
<1>1. Counted /\ ShownSoFar /\ SkipIsKnown
  BY DEF CheckerIInv
<1>2. CASE StartProgram
  <2>1. Request({})
    BY <1>2 DEF StartProgram
  <2>2. Counted'
    <3>1. checks' \in 0..MaxChecks /\ checks' = checks + 1
      BY <1>1, <2>1, RequestKeepsCounted
    <3>2. CheckerTypeOK'
      <4>1. CheckerTypeOK /\ NullVersions \in Versions
        BY <1>1, VersionsType DEF Counted
      <4>2. /\ published' \in Versions /\ latest' \in Versions
            /\ previous' \in Versions /\ skip' \in Versions
        BY <1>2, <4>1 DEF StartProgram, CheckerTypeOK
      <4>3. starts' \in 0..MaxStarts /\ questions' \in 0..checks'
        BY <1>2, <3>1, <4>1, CheckerBounds DEF StartProgram, CheckerTypeOK
      <4>4. \A r \in requests' : r.id \in 1..checks' /\ AtMost(r.had, published)'
        BY <1>1, <1>2, <2>1, RequestKeepsCounted DEF StartProgram, AtMost
      <4>5. button' \in BOOLEAN /\ unheard' \in BOOLEAN /\ told' = {} /\ phase' = "dialog"
        BY <1>2 DEF StartProgram
      <4> QED
        BY <3>1, <4>2, <4>3, <4>4, <4>5 DEF CheckerTypeOK
    <3> QED
      BY <1>1, <1>2, <2>1, <3>2, RequestKeepsCounted DEF StartProgram, Counted
  <2>3. ShownSoFar'
    <3>1. Announced(latest)' = {}
      BY <1>2 DEF StartProgram, Announced, Newer, NullVersions, Running
    <3> QED
      BY <3>1 DEF ShownSoFar
  <2>4. SkipIsKnown'
    BY <1>1, <1>2, VersionsType DEF StartProgram, SkipIsKnown, Counted, CheckerTypeOK
  <2> QED
    BY <2>2, <2>3, <2>4 DEF CheckerIInv
<1>3. CASE OnLogin
  <2>1. Counted'
    BY <1>1, <1>3 DEF OnLogin, Counted, CheckerTypeOK
  <2>2. ShownSoFar'
    BY <1>1, <1>3 DEF OnLogin, ShownSoFar, Announced, Newer
  <2>3. SkipIsKnown'
    BY <1>1, <1>3 DEF OnLogin, SkipIsKnown
  <2> QED
    BY <2>1, <2>2, <2>3 DEF CheckerIInv
<1>4. CASE EndProgram
  <2>1. Counted'
    <3>1. IsFiniteSet({}) /\ Cardinality({}) = 0
      BY FS_EmptySet
    <3>2. dropped' \in [versions : Versions, start : Nat] /\ skip' \in Versions
      BY <1>1, <1>4, VersionsType DEF EndProgram, Counted, CheckerTypeOK
    <3>3. CheckerTypeOK'
      <4>1. /\ requests' = {} /\ questions' = 0 /\ phase' = "off"
            /\ button' = FALSE /\ checks \in 0..MaxChecks /\ CheckerTypeOK
        BY <1>1, <1>4 DEF EndProgram, Counted, CheckerTypeOK
      <4>2. UNCHANGED <<published, latest, previous, checks, starts, told, unheard>>
        BY <1>4 DEF EndProgram
      <4>3. questions' \in 0..checks'
        BY <4>1, <4>2, CheckerBounds
      <4>4. button' \in BOOLEAN
        BY <4>1
      <4> QED
        BY <3>2, <4>1, <4>2, <4>3, <4>4 DEF CheckerTypeOK
    <3> QED
      BY <1>4, <3>1, <3>2, <3>3 DEF EndProgram, Counted, CheckerTypeOK
  <2>2. ShownSoFar'
    BY <1>4 DEF EndProgram, ShownSoFar
  <2>3. SkipIsKnown'
    BY <1>1, <1>4, VersionsType
       DEF EndProgram, SkipIsKnown, Counted, CheckerTypeOK, NullVersions
  <2> QED
    BY <2>1, <2>2, <2>3 DEF CheckerIInv
<1>5. CASE CheckForUpdates
  <2>1. Request(requests)
    BY <1>5 DEF CheckForUpdates
  <2>2. Counted'
    <3>1. checks' \in 0..MaxChecks /\ checks' = checks + 1
      BY <1>1, <2>1, RequestKeepsCounted
    <3>2. CheckerTypeOK'
      BY <1>1, <1>5, <2>1, <3>1, RequestKeepsCounted, CheckerBounds
         DEF CheckForUpdates, Counted, CheckerTypeOK
    <3> QED
      BY <1>1, <1>5, <2>1, <3>2, RequestKeepsCounted DEF CheckForUpdates, Counted
  <2>3. ShownSoFar'
    BY <1>1, <1>5 DEF CheckForUpdates, ShownSoFar, Announced, Newer
  <2>4. SkipIsKnown'
    BY <1>1, <1>5 DEF CheckForUpdates, SkipIsKnown
  <2> QED
    BY <2>2, <2>3, <2>4 DEF CheckerIInv
<1>6. CASE Publish
  <2>1. Counted'
    <3>1. published' \in Versions /\ AtMost(published, published')
      BY <1>6 DEF Publish
    <3>2. \A r \in requests : r.had \in Versions /\ AtMost(r.had, published')
      BY <1>1, <3>1, AtMostTransitive DEF Counted, CheckerTypeOK, Requests
    <3>3. CheckerTypeOK'
      BY <1>1, <1>6, <3>1, <3>2 DEF Publish, Counted, CheckerTypeOK
    <3> QED
      BY <1>1, <1>6, <3>3 DEF Publish, Counted
  <2>2. ShownSoFar'
    BY <1>1, <1>6 DEF Publish, ShownSoFar, Announced, Newer
  <2>3. SkipIsKnown'
    BY <1>1, <1>6 DEF Publish, SkipIsKnown
  <2> QED
    BY <2>1, <2>2, <2>3 DEF CheckerIInv
<1>7. CASE OnUpdateReplyReceived
  <2>1. PICK r \in requests, found \in Versions :
            /\ requests' = requests \ {r}
            /\ latest' = found
            /\ Signal(found)
            /\ UNCHANGED <<published, previous, skip, checks, phase, starts, dropped>>
    BY <1>7 DEF OnUpdateReplyReceived
  <2>2. Counted'
    <3>1. questions' \in {questions, questions + 1} /\ told' \in {told, told \cup Announced(found)}
      BY <2>1 DEF Signal
    <3>2. button' \in BOOLEAN /\ unheard' \in BOOLEAN
      BY <2>1 DEF Signal
    <3>3. told' \subseteq {"release", "prerelease"}
      BY <1>1, <3>1, AnnouncedIsNewer DEF Counted, CheckerTypeOK
    <3>4. questions' + Cardinality(requests') <= checks' /\ questions' \in 0..checks'
      BY <1>1, <2>1, <3>1, ReplyLeavesOneLess DEF Counted, CheckerTypeOK
    <3>5. CheckerTypeOK'
      BY <1>1, <2>1, <3>2, <3>3, <3>4 DEF Counted, CheckerTypeOK
    <3> QED
      BY <1>1, <2>1, <3>4, <3>5, ReplyLeavesOneLess DEF Counted
  <2>3. ShownSoFar'
    <3>1. Announced(latest)' = Announced(found) /\ HasNewer(latest)' = HasNewer(found)
      BY <2>1 DEF Announced, HasNewer, Newer
    <3>2. CASE Announced(found) = {}
      BY <3>1, <3>2 DEF ShownSoFar
    <3>3. CASE Announced(found) # {} /\ phase = "dialog"
      <4>1. questions' > questions
        BY <1>1, <2>1, <3>3 DEF Signal, Counted, CheckerTypeOK
      <4> QED
        BY <2>1, <3>1, <4>1 DEF Signal, ShownSoFar
    <3>4. CASE Announced(found) # {} /\ phase = "validating"
      BY <2>1, <3>4, AnnouncedIsNewer DEF Signal, ShownSoFar
    <3>5. CASE Announced(found) # {} /\ phase = "main"
      BY <2>1, <3>5, AnnouncedIsNewer DEF Signal, ShownSoFar
    <3>6. CASE phase = "off"
      BY <2>1, <3>6 DEF ShownSoFar
    <3> QED
      BY <1>1, <3>2, <3>3, <3>4, <3>5, <3>6 DEF Counted, CheckerTypeOK
  <2>4. SkipIsKnown'
    BY <1>1, <2>1 DEF SkipIsKnown
  <2> QED
    BY <2>2, <2>3, <2>4 DEF CheckerIInv
<1>8. CASE UpdateError
  <2>1. PICK r \in requests :
            /\ requests' = requests \ {r}
            /\ latest' \in {latest, NullVersions}
            /\ UNCHANGED <<published, previous, skip, checks, questions, button, phase,
                           starts, told, unheard, dropped>>
    BY <1>8 DEF UpdateError
  <2>2. Counted'
    <3>1. latest' \in Versions
      BY <1>1, <2>1, VersionsType DEF Counted, CheckerTypeOK
    <3>2. CheckerTypeOK'
      BY <1>1, <2>1, <3>1 DEF Counted, CheckerTypeOK
    <3>3. questions' + Cardinality(requests') <= checks'
      BY <1>1, <2>1, ReplyLeavesOneLess DEF Counted, CheckerTypeOK
    <3> QED
      BY <1>1, <2>1, <3>2, <3>3, ReplyLeavesOneLess DEF Counted
  <2>3. ShownSoFar'
    <3>1. CASE latest' = latest
      BY <1>1, <2>1, <3>1 DEF ShownSoFar, Announced, Newer
    <3>2. CASE latest' = NullVersions
      <4>1. Announced(latest)' = {}
        BY <3>2 DEF Announced, Newer, NullVersions, Running
      <4> QED
        BY <4>1 DEF ShownSoFar
    <3> QED
      BY <2>1, <3>1, <3>2
  <2>4. SkipIsKnown'
    BY <1>1, <2>1 DEF SkipIsKnown
  <2> QED
    BY <2>2, <2>3, <2>4 DEF CheckerIInv
<1>9. CASE AnswerQuestion
  <2>1. Counted'
    <3>1. dropped' \in [versions : Versions, start : Nat] /\ skip' \in Versions
      BY <1>1, <1>9, VersionsType, CheckerBounds
         DEF AnswerQuestion, Skipped, Counted, CheckerTypeOK
    <3>2. questions' \in 0..checks' /\ questions' <= questions
      BY <1>1, <1>9, CheckerBounds DEF AnswerQuestion, Counted, CheckerTypeOK
    <3>3. CheckerTypeOK'
      BY <1>1, <1>9, <3>1, <3>2 DEF AnswerQuestion, Counted, CheckerTypeOK
    <3>4. questions' + Cardinality(requests') <= checks'
      BY <1>1, <1>9, <3>2, CountOfFinite DEF AnswerQuestion, Counted, CheckerTypeOK
    <3> QED
      BY <1>1, <1>9, <3>1, <3>3, <3>4 DEF AnswerQuestion, Counted
  <2>2. ShownSoFar'
    BY <1>1, <1>9 DEF AnswerQuestion, ShownSoFar, Announced, Newer
  <2>3. SkipIsKnown'
    <3>1. starts \in Nat
      BY <1>1, CheckerBounds DEF Counted, CheckerTypeOK
    <3> QED
      BY <1>9, <3>1 DEF AnswerQuestion, Skipped, SkipIsKnown
  <2> QED
    BY <2>1, <2>2, <2>3 DEF CheckerIInv
<1>10. CASE UNCHANGED vars
  <2>1. Counted'
    BY <1>1, <1>10 DEF vars, Counted, CheckerTypeOK
  <2>2. ShownSoFar'
    BY <1>1, <1>10 DEF vars, ShownSoFar, Announced, Newer
  <2>3. SkipIsKnown'
    BY <1>1, <1>10 DEF vars, SkipIsKnown
  <2> QED
    BY <2>1, <2>2, <2>3 DEF CheckerIInv
<1> QED
  BY <1>2, <1>3, <1>4, <1>5, <1>6, <1>7, <1>8, <1>9, <1>10 DEF Next

LEMMA InvariantHolds == Spec => []CheckerIInv
<1> QED
  BY InitEstablishes, NextPreserves, PTL DEF Spec

(***************************************************************************)
(* The user gets to know of a newer release, with any number of releases,  *)
(* checks and starts: OnUpdateReplyReceived, OnLogin.                      *)
(***************************************************************************)
THEOREM CheckerInvHolds == Spec => []CheckerInv
<1>1. CheckerIInv => CheckerInv
  BY AnnouncedIsNewer DEF CheckerIInv, Counted, ShownSoFar, CheckerInv, UpdateIsShown
<1> QED
  BY <1>1, InvariantHolds, PTL

-----------------------------------------------------------------------------
\* One step of SkippedStaysSkipped.
LEMMA QuestionIsNew ==
    ASSUME CheckerIInv, Next, questions' > questions, starts > dropped.start
    PROVE  \E which \in Announced(latest') : latest'[which] > dropped.versions[which]
<1>1. Counted /\ SkipIsKnown /\ questions \in Nat
  BY DEF CheckerIInv, Counted, CheckerTypeOK
<1>2. OnUpdateReplyReceived
  BY <1>1 DEF Next, StartProgram, OnLogin, EndProgram, CheckForUpdates, Publish,
              UpdateError, AnswerQuestion
<1>3. PICK found \in Versions : latest' = found /\ Signal(found)
  BY <1>2 DEF OnUpdateReplyReceived
<1>4. Announced(found) # {}
  BY <1>1, <1>3 DEF Signal
<1>5. PICK which \in Announced(found) : found[which] > previous[which]
  BY <1>4, AnnouncedIsNewer
<1>6. which \in {"release", "prerelease"} /\ previous[which] >= dropped.versions[which]
  BY <1>1, AnnouncedIsNewer DEF SkipIsKnown
<1>7. found[which] \in Nat /\ previous[which] \in Nat /\ dropped.versions[which] \in Nat
  BY <1>1, <1>6, VersionsType DEF Counted, CheckerTypeOK
<1> QED
  BY <1>3, <1>5, <1>6, <1>7

(***************************************************************************)
(* A later start asks again only about something newer than what was       *)
(* skipped: AskUserToUpdate.                                               *)
(***************************************************************************)
THEOREM SkippedStaysSkippedHolds == Spec => SkippedStaysSkipped
<1> DEFINE Asks == questions' > questions /\ starts > dropped.start =>
                \E which \in Announced(latest') : latest'[which] > dropped.versions[which]
<1>1. CheckerIInv /\ [Next]_vars => [Asks]_vars
  BY QuestionIsNew
<1>2. [][Asks]_vars => SkippedStaysSkipped
  BY DEF SkippedStaysSkipped
<1> HIDE DEF Asks
<1> QED
  BY <1>1, <1>2, InvariantHolds, PTL DEF Spec
=============================================================================
