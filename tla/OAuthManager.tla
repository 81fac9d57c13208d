---------------------------- MODULE OAuthManager ----------------------------
(***************************************************************************)
(* The OAuthManager (src/util/oauthmanager.cpp): the access token of one   *)
(* account, the timer that refreshes it before it expires, the pages of    *)
(* the browser on which a user gives access, and the copy of the token in  *)
(* the data store of the user directory, if it is to be remembered.        *)
(*                                                                         *)
(* Login EXTENDS this module with the dialog and the application that own  *)
(* the manager; it says what else changes in each of these steps.          *)
(***************************************************************************)
EXTENDS Integers, FiniteSets

CONSTANTS
    Users,            \* accounts
    Nobody,           \* no account
    Dirs,             \* user directories, each with a data store
    Lifetime,         \* expires_in: how long access lasts
    Buffer,           \* EXPIRATION_BUFFER_SECS
    RefreshLifetime,  \* REFRESH_LIFETIME_DAYS
    ReplyTime,        \* the longest a reply may take
    MaxTime,          \* bound: the clock
    MaxPages,         \* bound: pages opened in the browser
    MaxPosts          \* bound: requests for a token

Off == -1
Undated == -2      \* an expiry that could not be made out

ASSUME TokenTimes ==
    /\ Lifetime \in Nat /\ Buffer \in Nat /\ RefreshLifetime \in Nat /\ ReplyTime \in Nat
    /\ ReplyTime < Buffer /\ Buffer + ReplyTime <= Lifetime
    /\ Lifetime <= RefreshLifetime
    /\ Nobody \notin Users

ASSUME OAuthBounds == MaxTime \in Nat /\ MaxPages \in Nat /\ MaxPosts \in Nat

\* OAuthToken(): no access token and no dates.
NoToken == [user |-> Nobody, access |-> 0, refresh |-> 0]

\* OAuthToken(reply): the dates are counted from the date of the reply.
TokenOf(user, birthday) ==
    [user |-> user, access |-> birthday + Lifetime, refresh |-> birthday + RefreshLifetime]

VARIABLES
    now,           \* the clock
    dir,           \* the user directory whose data store the manager has
    token,         \* m_token
    remember,      \* m_remember_token
    refreshTimer,  \* m_refresh_timer: when it fires, or Off
    pages,         \* pages opened in the browser, each with a server that answers
    verifier,      \* m_code_verifier: the number of the latest page
    posts,         \* requests for a token under way
    posted,        \* how many there have been
    stored,        \* "oauth_token" in the data store of each directory
    weak           \* the token was loaded, not granted, or a refresh has failed, or
                   \* what came as a token was none

oauthVars == <<now, dir, token, remember, refreshTimer, pages, verifier, posts,
               posted, stored, weak>>

\* What RememberToken puts in the data store for the token t.
Remembered(t, wanted) ==
    IF wanted /\ t # NoToken /\ now < t.refresh THEN t ELSE NoToken

\* Mutant: the buffer is not taken off, so that the refresh comes with the expiry.
LateRefreshTimer(t) == refreshTimer' = IF t.access - now > 0 THEN t.access ELSE Off

(***************************************************************************)
(* setRefreshTimer: Qt 6.8 refuses an interval below zero, which is what   *)
(* the conversions to unsigned long and back to int leave of it; to a date *)
(* that is not valid it is no time at all.                                 *)
(***************************************************************************)
SetRefreshTimer(t) ==
    refreshTimer' = IF t.access = Undated THEN now
                    ELSE IF t.access - Buffer >= now THEN t.access - Buffer ELSE Off

CanPost == posted < MaxPosts

\* requestToken and requestRefresh: a POST to the token endpoint.
Post(kind, user, page, expires) ==
    /\ CanPost
    /\ posted' = posted + 1
    /\ posts' = posts \cup
           {[id |-> posted + 1, kind |-> kind, user |-> user, page |-> page,
             verifier |-> verifier, expires |-> expires, at |-> now]}

(***************************************************************************)
(* A new manager for directory d, with what its data store holds, and the  *)
(* call of RememberToken that the new login dialog makes at once.          *)
(***************************************************************************)
NewManager(d, wanted) ==
    LET saved  == stored[d]
        loaded == IF saved # NoToken /\ now > saved.refresh THEN NoToken ELSE saved
        stale  == loaded # NoToken /\ now > loaded.access
    IN  /\ dir' = d /\ token' = loaded /\ remember' = wanted
        /\ stored' = [stored EXCEPT ![d] = Remembered(loaded, wanted)]
        /\ pages' = {} /\ verifier' = verifier /\ weak' = TRUE
        /\ IF stale
           THEN /\ CanPost
                /\ posted' = posted + 1
                /\ posts' = {[id |-> posted + 1, kind |-> "refresh", user |-> loaded.user,
                              page |-> 0, verifier |-> 0, expires |-> loaded.refresh,
                              at |-> now]}
           ELSE posts' = {} /\ UNCHANGED posted
        /\ IF stale \/ loaded = NoToken THEN refreshTimer' = Off ELSE SetRefreshTimer(loaded)
        /\ UNCHANGED now

\* The manager goes, and with it the slots of its requests and its timer.
EndManager ==
    /\ token' = NoToken /\ remember' = FALSE /\ refreshTimer' = Off
    /\ pages' = {} /\ posts' = {} /\ weak' = TRUE
    /\ UNCHANGED <<now, dir, verifier, posted, stored>>

RememberToken(wanted) ==
    /\ remember' = wanted
    /\ stored' = [stored EXCEPT ![dir] = Remembered(token, wanted)]
    /\ UNCHANGED <<now, dir, token, refreshTimer, pages, verifier, posts, posted, weak>>

\* requestAccess: a page with its own state, and one verifier for all; the
\* callback server of the page may fail to start.
RequestAccess ==
    /\ verifier < MaxPages
    /\ verifier' = verifier + 1
    /\ pages' \in {pages, pages \cup {verifier + 1}}
    /\ UNCHANGED <<now, dir, token, remember, refreshTimer, posts, posted, stored, weak>>

(***************************************************************************)
(* receiveAuthorization with a code: the user gives access to an account.  *)
(* A second later the manager forgets its latest server, but does not      *)
(* delete it: every server listens until the manager goes, so a page may   *)
(* be answered again, and for another account.                             *)
(***************************************************************************)
ApprovePage(page, user) ==
    /\ page \in pages
    /\ Post("code", user, page, 0)
    /\ UNCHANGED <<now, dir, token, remember, refreshTimer, pages, verifier, stored, weak>>

\* authorizationError: an error, no code, no state or another one; the page stays, too.
RefusePage(page) == page \in pages /\ UNCHANGED oauthVars

\* requestRefresh: from the timer, the menu or the constructor.
RequestRefresh == Post("refresh", token.user, 0, token.refresh)

RefreshTimeout ==
    /\ refreshTimer # Off /\ refreshTimer <= now
    /\ refreshTimer' = Off
    /\ RequestRefresh
    /\ UNCHANGED <<now, dir, token, remember, pages, verifier, stored, weak>>

\* The server grants a token for a fresh code with the verifier of its page,
\* or for a refresh token that has not expired.
Grantable(p, birthday) ==
    /\ p.user # Nobody
    /\ p.kind = "code" => p.page = p.verifier
    /\ p.kind = "refresh" => p.expires = Undated \/ birthday <= p.expires

Granted(p) == {TokenOf(p.user, b) : b \in {birthday \in p.at..now : Grantable(p, birthday)}}

\* What becomes of a reply that has no date, or does not parse (expires_in is -1 then).
Garbled(p) ==
    [user : {p.user, Nobody}, access : {Undated}, refresh : {Undated}] \cup
    {[user |-> Nobody, access |-> b - 1, refresh |-> b + RefreshLifetime] : b \in p.at..now}

\* Mutants: the first token alone starts the timer; a refreshed token is not stored.
OnceReceiveToken(p) ==
    \E t \in Granted(p) \cup Garbled(p) :
        /\ p \in posts /\ posts' = posts \ {p}
        /\ token' = t /\ weak' = (t \notin Granted(p))
        /\ stored' = [stored EXCEPT ![dir] = IF remember THEN t ELSE NoToken]
        /\ IF p.kind = "code" THEN SetRefreshTimer(t) ELSE UNCHANGED refreshTimer
        /\ UNCHANGED <<now, dir, remember, pages, verifier, posted>>

UnstoredReceiveToken(p) ==
    \E t \in Granted(p) \cup Garbled(p) :
        /\ p \in posts /\ posts' = posts \ {p}
        /\ token' = t /\ weak' = (t \notin Granted(p))
        /\ stored' = IF p.kind = "refresh" THEN stored
                     ELSE [stored EXCEPT ![dir] = IF remember THEN t ELSE NoToken]
        /\ SetRefreshTimer(t)
        /\ UNCHANGED <<now, dir, remember, pages, verifier, posted>>

\* receiveToken: whichever reply comes last decides whose token it is, and any reply
\* without an error is taken for a token.
ReceiveToken(p) ==
    \E t \in Granted(p) \cup Garbled(p) :
        /\ p \in posts /\ posts' = posts \ {p}
        /\ token' = t /\ weak' = (t \notin Granted(p))
        /\ stored' = [stored EXCEPT ![dir] = IF remember THEN t ELSE NoToken]
        /\ SetRefreshTimer(t)
        /\ UNCHANGED <<now, dir, remember, pages, verifier, posted>>

\* An error is logged: no token, no timer, no other attempt.
TokenError(p) ==
    /\ p \in posts
    /\ posts' = posts \ {p}
    /\ weak' = (weak \/ p.kind = "refresh")
    /\ UNCHANGED <<now, dir, token, remember, refreshTimer, pages, verifier, posted, stored>>

\* The event loop is prompt: a timer that is due runs before time goes on.
OAuthTick ==
    /\ now < MaxTime
    /\ refreshTimer # Off => refreshTimer > now
    /\ \A p \in posts : now < p.at + ReplyTime
    /\ now' = now + 1
    /\ UNCHANGED <<dir, token, remember, refreshTimer, pages, verifier, posts, posted,
                   stored, weak>>

\* The variables have their types.
OAuthTypeOK ==
    /\ now \in 0..MaxTime /\ dir \in Dirs /\ remember \in BOOLEAN
    /\ \A t \in {token} \cup {stored[d] : d \in Dirs} :
          t.user \in Users \cup {Nobody} /\ t.access \in Int /\ t.refresh \in Int
    /\ refreshTimer \in Nat \cup {Off}
    /\ pages \subseteq 1..verifier /\ verifier \in 0..MaxPages
    /\ posted \in 0..MaxPosts /\ \A p \in posts : p.id \in 1..posted
    /\ weak \in BOOLEAN

(***************************************************************************)
(* Requests are authorised for as long as a session lasts: a token that    *)
(* was granted is replaced before it expires, unless a refresh of it has   *)
(* failed or brought something else.  What the refresh timer and its       *)
(* buffer are for: setAuthorization sends requests without a token once it *)
(* has expired.                                                            *)
(***************************************************************************)
Authorised == (token # NoToken /\ ~weak) => now < token.access
=============================================================================
