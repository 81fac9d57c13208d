---------------------------- MODULE UpdateChecker ----------------------------
(***************************************************************************)
(* The UpdateChecker (src/util/updatechecker.cpp): asks GitHub for the     *)
(* releases at the start and every 24 hours, and signals one that is newer *)
(* than the running program and than what the user chose to skip.  Who     *)
(* hears the signal depends on how far the Application has got: the        *)
(* checker's own message box before the login, a button of the main window *)
(* after it, and nobody while OnLogin runs the validator's event loop.     *)
(* Replies can overtake each other, and the box runs an event loop too.    *)
(***************************************************************************)
EXTENDS Integers

CONSTANTS
    Newest,      \* versions are 1..Newest; 0 is NULL_VERSION
    MaxChecks,   \* bound: requests to GitHub
    MaxStarts    \* bound: starts of the program

ASSUME CheckerBounds == Newest \in Nat /\ MaxChecks \in Nat /\ MaxStarts \in Nat

Running == 1     \* m_running_version
Versions == [release : 0..Newest, prerelease : 0..Newest]
NullVersions == [release |-> 0, prerelease |-> 0]

VARIABLES
    published,   \* the newest release and prerelease on GitHub
    latest,      \* m_latest_release and m_latest_prerelease
    previous,    \* m_previous_release and m_previous_prerelease
    skip,        \* skip_release and skip_prerelease in the settings
    requests,    \* requests under way, each with what GitHub had when it was sent
    checks,      \* how many requests there have been
    questions,   \* message boxes of AskUserToUpdate, one on top of the other
    button,      \* the button of the main window is shown
    phase,       \* "off", "dialog", "validating" (inside OnLogin), "main"
    starts,      \* how often the program has been started
    told,        \* what the user has been shown since the start
    unheard,     \* an update was signalled when nobody listened
    dropped      \* "don't ask again": what it was said of, and in which start

vars == <<published, latest, previous, skip, requests, checks, questions, button,
          phase, starts, told, unheard, dropped>>

Newer(which, seen) == seen[which] > previous[which] /\ Running < seen[which]

\* has_newer_release() or has_newer_prerelease()
HasNewer(seen) == Newer("release", seen) \/ Newer("prerelease", seen)

\* What AskUserToUpdate has to say: a prerelease only if it is the newest of all.
Announced(seen) ==
    {which \in {"release", "prerelease"} :
        /\ Newer(which, seen)
        /\ which = "prerelease" => seen.prerelease > seen.release}

AtMost(u, v) == u.release <= v.release /\ u.prerelease <= v.prerelease

Init ==
    /\ published \in Versions
    /\ latest = NullVersions /\ previous = NullVersions /\ skip = NullVersions
    /\ requests = {} /\ checks = 0 /\ questions = 0 /\ button = FALSE
    /\ phase = "off" /\ starts = 0 /\ told = {} /\ unheard = FALSE
    /\ dropped = [versions |-> NullVersions, start |-> 0]

Request(others) ==
    /\ checks < MaxChecks
    /\ checks' = checks + 1
    /\ requests' = others \cup {[id |-> checks + 1, had |-> published]}

\* InitUserDir and Start: a new checker reads what to skip and asks at once.
StartProgram ==
    /\ phase = "off" /\ starts < MaxStarts
    /\ phase' = "dialog" /\ starts' = starts + 1
    /\ previous' = skip /\ latest' = NullVersions
    /\ Request({})
    /\ button' = FALSE /\ told' = {} /\ unheard' = FALSE
    /\ UNCHANGED <<published, skip, questions, dropped>>

\* OnLogin disconnects the signal and, after InitLogin, connects the main window.
OnLogin ==
    /\ \/ phase = "dialog" /\ phase' \in {"validating", "main"}
       \/ phase = "validating" /\ phase' = "main"
    /\ UNCHANGED <<published, latest, previous, skip, requests, checks, questions,
                   button, starts, told, unheard, dropped>>

\* The program ends or dies.  ~LoginDialog clears the settings unless they are
\* to be remembered.
EndProgram ==
    /\ phase # "off" /\ phase' = "off"
    /\ requests' = {} /\ questions' = 0 /\ button' = FALSE
    /\ \/ UNCHANGED <<skip, dropped>>
       \/ skip' = NullVersions /\ dropped' = [dropped EXCEPT !.versions = NullVersions]
    /\ UNCHANGED <<published, latest, previous, checks, starts, told, unheard>>

\* CheckForUpdates: every 24 hours, or from the button.
CheckForUpdates ==
    /\ phase # "off"
    /\ Request(requests)
    /\ UNCHANGED <<published, latest, previous, skip, questions, button, phase, starts,
                   told, unheard, dropped>>

\* A release appears on GitHub.
Publish ==
    /\ published' \in {v \in Versions : AtMost(published, v)}
    /\ UNCHANGED <<latest, previous, skip, requests, checks, questions, button, phase,
                   starts, told, unheard, dropped>>

\* Mutant: what was found earlier decides, not what has just been found.
LateSignal(found) ==
    /\ questions' = IF phase = "dialog" /\ HasNewer(latest) /\ Announced(found) # {}
                    THEN questions + 1 ELSE questions
    /\ told' = IF questions' > questions THEN told \cup Announced(found) ELSE told
    /\ button' = (button \/ (phase = "main" /\ HasNewer(latest)))
    /\ unheard' = (unheard \/ (phase = "validating" /\ HasNewer(latest)))

(***************************************************************************)
(* UpdateAvailable, if a version found is new: AskUserToUpdate before the  *)
(* login, OnUpdateAvailable of the main window after it.                   *)
(***************************************************************************)
Signal(found) ==
    /\ questions' = IF phase = "dialog" /\ Announced(found) # {} THEN questions + 1 ELSE questions
    /\ told' = IF questions' > questions THEN told \cup Announced(found) ELSE told
    /\ button' = (button \/ (phase = "main" /\ HasNewer(found)))
    /\ unheard' = (unheard \/ (phase = "validating" /\ HasNewer(found)))

\* OnUpdateReplyReceived: the newest of each kind when GitHub answered.
OnUpdateReplyReceived ==
    \E r \in requests : \E found \in {v \in Versions : AtMost(r.had, v) /\ AtMost(v, published)} :
        /\ requests' = requests \ {r}
        /\ latest' = found
        /\ Signal(found)
        /\ UNCHANGED <<published, previous, skip, checks, phase, starts, dropped>>

\* A network error, or a reply without any release.
UpdateError ==
    \E r \in requests :
        /\ requests' = requests \ {r}
        /\ latest' \in {latest, NullVersions}
        /\ UNCHANGED <<published, previous, skip, checks, questions, button, phase, starts,
                       told, unheard, dropped>>

\* Mutant: only the release is saved.
HalfSkip == [latest EXCEPT !.prerelease = 0]

\* What "Ignore, and don't ask again" saves.
Skipped == latest

(***************************************************************************)
(* The answer to the box on top.  m_previous_release is left alone, so     *)
(* that the answer counts from the next start on.                          *)
(***************************************************************************)
AnswerQuestion ==
    /\ questions > 0
    /\ questions' = questions - 1
    /\ \/ skip' = Skipped /\ dropped' = [versions |-> latest, start |-> starts]
       \/ skip' = NullVersions /\ dropped' = [versions |-> NullVersions, start |-> starts]
    /\ UNCHANGED <<published, latest, previous, requests, checks, button, phase, starts,
                   told, unheard>>

Next ==
    \/ StartProgram \/ OnLogin \/ EndProgram
    \/ CheckForUpdates \/ Publish
    \/ OnUpdateReplyReceived \/ UpdateError \/ AnswerQuestion

Spec == Init /\ [][Next]_vars

-----------------------------------------------------------------------------
(* Properties. *)

\* The variables have their types.
CheckerTypeOK ==
    /\ published \in Versions /\ latest \in Versions /\ previous \in Versions
    /\ skip \in Versions /\ checks \in 0..MaxChecks /\ starts \in 0..MaxStarts
    /\ \A r \in requests : r.id \in 1..checks /\ AtMost(r.had, published)
    /\ questions \in 0..checks /\ button \in BOOLEAN /\ unheard \in BOOLEAN
    /\ phase \in {"off", "dialog", "validating", "main"}
    /\ told \subseteq {"release", "prerelease"}

(***************************************************************************)
(* OnUpdateReplyReceived and OnLogin: a newer release that the program     *)
(* knows of in the main window has been shown to the user, in a box before *)
(* the login or by the button, unless the signal came in the nested event  *)
(* loop of OnLogin, when nothing is connected to it.                       *)
(***************************************************************************)
UpdateIsShown ==
    (phase = "main" /\ HasNewer(latest) /\ ~unheard) =>
        (button \/ Announced(latest) \subseteq told)

\* The types, and that the user gets to know of a newer release.
CheckerInv == CheckerTypeOK /\ UpdateIsShown

(***************************************************************************)
(* AskUserToUpdate: a later start asks again only about something newer    *)
(* than what the user has last said not to be asked again about, as long   *)
(* as the settings are remembered.                                         *)
(***************************************************************************)
SkippedStaysSkipped ==
    [][(questions' > questions /\ starts > dropped.start) =>
            \E which \in Announced(latest') : latest'[which] > dropped.versions[which]]_vars
=============================================================================
