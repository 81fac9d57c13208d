----------------------------- MODULE LoginProofs -----------------------------
(***************************************************************************)
(* For any accounts, directories, leagues and times, and any number of     *)
(* pages and requests: what a session has to do with the token it uses.    *)
(*                                                                         *)
(* First the manager by itself: each step of Login is one of its steps, or *)
(* leaves it alone.  Then the dialog.                                      *)
(***************************************************************************)
EXTENDS Login, TLAPS

Token == [user : Users \cup {Nobody}, access : Int, refresh : Int]

TokenRequest ==
    [id : Nat, kind : {"code", "refresh"}, user : Users \cup {Nobody}, page : Nat,
     verifier : Nat, expires : Int, at : Nat]

OAuthTyped ==
    /\ now \in 0..MaxTime /\ dir \in Dirs /\ token \in Token /\ remember \in BOOLEAN
    /\ refreshTimer \in Nat \cup {Off}
    /\ pages \subseteq 1..verifier /\ verifier \in 0..MaxPages
    /\ posts \subseteq TokenRequest /\ posted \in 0..MaxPosts
    /\ \A p \in posts : p.id \in 1..posted
    /\ stored \in [Dirs -> Token] /\ weak \in BOOLEAN

\* What is nobody's token, for want of one or after a reply that was none, is no use.
Useless(t) == t.user = Nobody => t.access <= now

NobodyEnters == Useless(token) /\ \A d \in Dirs : Useless(stored[d])

\* No timer is overdue, and no request is under way for longer than a reply takes.
Prompt ==
    /\ refreshTimer # Off =>
          refreshTimer >= now /\ (~weak => refreshTimer = token.access - Buffer)
    /\ \A p \in posts : p.at <= now /\ now <= p.at + ReplyTime

\* A granted token is to be refreshed, or is being refreshed since the timer fired.
Renewing ==
    ~weak =>
        \/ refreshTimer # Off
        \/ \E p \in posts : p.kind = "refresh" /\ p.at <= token.access - Buffer

OAuthIInv == OAuthTyped /\ NobodyEnters /\ Prompt /\ Renewing

\* The data store of the directory in use.
StoreFollows ==
    /\ stored[dir] \in {token, NoToken}
    /\ ~remember => stored[dir] = NoToken
    /\ (remember /\ now < token.refresh) => stored[dir] = token

\* The refresh that the menu of the main window asks for.
MenuRefresh ==
    /\ RequestRefresh
    /\ UNCHANGED <<now, dir, token, remember, refreshTimer, pages, verifier, stored, weak>>

\* The steps of the manager in a session, but for an answer to a page.
SessionStep ==
    \/ RefreshTimeout
    \/ \E p \in posts : TokenError(p)
    \/ OAuthTick
    \/ \E p \in posts : ReceiveToken(p)
    \/ MenuRefresh
    \/ UNCHANGED oauthVars

\* The steps that belong to the dialog.
DialogStep ==
    \/ \E wanted \in BOOLEAN : RememberToken(wanted)
    \/ RequestAccess

NewStep == \E d \in Dirs, wanted \in BOOLEAN : NewManager(d, wanted)

-----------------------------------------------------------------------------
LEMMA NoTokenFields ==
    NoToken \in Token /\ NoToken.user = Nobody /\ NoToken.access = 0 /\ NoToken.refresh = 0
BY DEF NoToken, Token

LEMMA TokenFields ==
    ASSUME NEW t \in Token
    PROVE  t.user \in Users \cup {Nobody} /\ t.access \in Int /\ t.refresh \in Int
BY DEF Token

LEMMA TokenOfIsToken ==
    ASSUME NEW user \in Users, NEW birthday \in Nat
    PROVE  /\ TokenOf(user, birthday) \in Token
           /\ TokenOf(user, birthday).user = user
           /\ TokenOf(user, birthday).access = birthday + Lifetime
           /\ TokenOf(user, birthday).refresh = birthday + RefreshLifetime
BY TokenTimes DEF TokenOf, Token

LEMMA RememberedIsToken ==
    ASSUME NEW t \in Token, NEW wanted
    PROVE  /\ Remembered(t, wanted) \in {t, NoToken} /\ Remembered(t, wanted) \in Token
           /\ ~wanted => Remembered(t, wanted) = NoToken
           /\ now < t.refresh /\ t # NoToken /\ wanted => Remembered(t, wanted) = t
BY NoTokenFields DEF Remembered

\* The timer is set a buffer before the expiry, or not at all, or goes off at once.
LEMMA TimerIsAhead ==
    ASSUME now \in Nat, NEW t \in Token, SetRefreshTimer(t)
    PROVE  /\ refreshTimer' \in Nat \cup {Off}
           /\ refreshTimer' # Off =>
                 refreshTimer' >= now /\ refreshTimer' \in {t.access - Buffer, now}
           /\ t.access - Buffer >= now =>
                 refreshTimer' # Off /\ refreshTimer' = t.access - Buffer
BY TokenFields, TokenTimes DEF SetRefreshTimer, Off, Undated

\* One request more.
LEMMA PostIsTyped ==
    ASSUME OAuthTyped, NEW kind \in {"code", "refresh"}, NEW user \in Users \cup {Nobody},
           NEW page \in Nat, NEW expires \in Int, Post(kind, user, page, expires)
    PROVE  /\ posts' \subseteq TokenRequest /\ posted' \in 0..MaxPosts
           /\ \A p \in posts' : p.id \in 1..posted'
           /\ \E q \in TokenRequest : /\ posts' = posts \cup {q} /\ q.kind = kind
                                      /\ q.user = user /\ q.at = now
<1> DEFINE q == [id |-> posted + 1, kind |-> kind, user |-> user, page |-> page,
                 verifier |-> verifier, expires |-> expires, at |-> now]
<1>1. /\ posted \in Nat /\ posted + 1 \in 0..MaxPosts /\ posted' = posted + 1
      /\ posts' = posts \cup {q}
  BY OAuthBounds DEF OAuthTyped, Post, CanPost
<1>2. q \in TokenRequest
  BY <1>1, OAuthBounds DEF OAuthTyped, TokenRequest
<1>3. \A p \in posts' : p.id \in 1..posted'
  <2> SUFFICES ASSUME NEW p \in posts' PROVE p.id \in 1..posted'
    OBVIOUS
  <2>1. CASE p \in posts
    BY <1>1, <2>1 DEF OAuthTyped
  <2>2. CASE p = q
    BY <1>1, <2>2
  <2> QED
    BY <1>1, <2>1, <2>2
<1>4. q.kind = kind /\ q.user = user /\ q.at = now
  OBVIOUS
<1> HIDE DEF q
<1> QED
  BY <1>1, <1>2, <1>3, <1>4 DEF OAuthTyped

-----------------------------------------------------------------------------
(* The times of the manager. *)

LEMMA NewManagerPreserves ==
    ASSUME OAuthIInv, NEW d \in Dirs, NEW wanted \in BOOLEAN, NewManager(d, wanted)
    PROVE  /\ OAuthIInv' /\ StoreFollows'
<1> DEFINE saved  == stored[d]
           loaded == IF saved # NoToken /\ now > saved.refresh THEN NoToken ELSE saved
           stale  == loaded # NoToken /\ now > loaded.access
<1>1. OAuthTyped /\ now \in Nat
  BY OAuthBounds DEF OAuthIInv, OAuthTyped
<1>2. loaded \in Token
  BY <1>1, NoTokenFields DEF OAuthTyped
<1>3. /\ dir' = d /\ token' = loaded /\ remember' = wanted
      /\ stored' = [stored EXCEPT ![d] = Remembered(loaded, wanted)]
      /\ pages' = {} /\ verifier' = verifier /\ weak' = TRUE /\ now' = now
  BY DEF NewManager
<1>4. /\ stale => /\ CanPost /\ posted' = posted + 1
                  /\ posts' = {[id |-> posted + 1, kind |-> "refresh", user |-> loaded.user,
                                page |-> 0, verifier |-> 0, expires |-> loaded.refresh,
                                at |-> now]}
      /\ ~stale => posts' = {} /\ posted' = posted
      /\ stale \/ loaded = NoToken => refreshTimer' = Off
      /\ ~(stale \/ loaded = NoToken) => SetRefreshTimer(loaded)
  BY DEF NewManager
<1> HIDE DEF loaded, stale
<1>5. /\ refreshTimer' \in Nat \cup {Off}
      /\ refreshTimer' # Off => refreshTimer' >= now
  BY <1>1, <1>2, <1>4, TimerIsAhead
<1>6. /\ posts' \subseteq TokenRequest /\ posted' \in 0..MaxPosts
      /\ \A p \in posts' : p.id \in 1..posted' /\ p.at = now
  <2>1. CASE ~stale
    BY <1>1, <1>4, <2>1 DEF OAuthTyped
  <2>2. CASE stale
    <3>1. posted + 1 \in 0..MaxPosts /\ posted + 1 \in Nat /\ posted + 1 \in 1..(posted + 1)
      BY <1>1, <1>4, <2>2, OAuthBounds DEF OAuthTyped, CanPost
    <3>2. loaded.user \in Users \cup {Nobody} /\ loaded.refresh \in Int
      BY <1>2, TokenFields
    <3> QED
      BY <1>1, <1>4, <2>2, <3>1, <3>2 DEF TokenRequest
  <2> QED
    BY <2>1, <2>2
<1>7. /\ stored' \in [Dirs -> Token] /\ stored'[d] = Remembered(loaded, wanted)
  BY <1>1, <1>2, <1>3, RememberedIsToken DEF OAuthTyped
<1>8. OAuthTyped'
  BY <1>1, <1>2, <1>3, <1>5, <1>6, <1>7 DEF OAuthTyped
<1>9. Prompt' /\ Renewing'
  BY <1>1, <1>3, <1>5, <1>6, TokenTimes DEF Prompt, Renewing
<1>10. NobodyEnters'
  <2>1. \A e \in Dirs : stored'[e] \in {stored[e], loaded, NoToken}
    BY <1>1, <1>2, <1>3, <1>7, RememberedIsToken DEF OAuthTyped
  <2>2. Useless(stored[d]) /\ Useless(NoToken) /\ \A e \in Dirs : Useless(stored[e])
    BY <1>1, NoTokenFields DEF OAuthIInv, NobodyEnters, Useless
  <2>3. Useless(loaded)
    BY <2>2 DEF loaded
  <2> QED
    BY <1>3, <2>1, <2>2, <2>3 DEF NobodyEnters, Useless
<1>11. StoreFollows'
  <2>1. loaded # NoToken \/ ~(now < loaded.refresh)
    BY <1>1, NoTokenFields
  <2> QED
    BY <1>2, <1>3, <1>7, <2>1, RememberedIsToken DEF StoreFollows
<1> QED
  BY <1>8, <1>9, <1>11, <1>10 DEF OAuthIInv

LEMMA EndManagerPreserves ==
    ASSUME OAuthIInv, EndManager
    PROVE  OAuthIInv'
<1>1. /\ token' = NoToken /\ refreshTimer' = Off /\ pages' = {} /\ posts' = {}
      /\ remember' \in BOOLEAN /\ weak' = TRUE
      /\ UNCHANGED <<now, dir, verifier, posted, stored>>
  BY DEF EndManager
<1>2. OAuthTyped'
  BY <1>1, NoTokenFields DEF OAuthIInv, OAuthTyped
<1>3. Prompt' /\ Renewing'
  BY <1>1 DEF Prompt, Renewing
<1>4. NobodyEnters'
  BY <1>1, NoTokenFields, OAuthBounds DEF OAuthIInv, OAuthTyped, NobodyEnters, Useless
<1> QED
  BY <1>2, <1>3, <1>4 DEF OAuthIInv

LEMMA DialogStepPreserves ==
    ASSUME OAuthIInv, DialogStep
    PROVE  OAuthIInv' /\ (StoreFollows => StoreFollows')
<1>1. OAuthTyped
  BY DEF OAuthIInv
<1>2. CASE \E wanted \in BOOLEAN : RememberToken(wanted)
  <2>1. PICK wanted \in BOOLEAN : RememberToken(wanted)
    BY <1>2
  <2>2. /\ remember' = wanted
        /\ stored' = [stored EXCEPT ![dir] = Remembered(token, wanted)]
        /\ UNCHANGED <<now, dir, token, refreshTimer, pages, verifier, posts, posted, weak>>
    BY <2>1 DEF RememberToken
  <2>3. stored' \in [Dirs -> Token] /\ stored'[dir] = Remembered(token, wanted)
    BY <1>1, <2>2, RememberedIsToken DEF OAuthTyped
  <2>4. OAuthTyped'
    BY <1>1, <2>2, <2>3 DEF OAuthTyped
  <2>5. Prompt' /\ Renewing'
    BY <2>2 DEF OAuthIInv, Prompt, Renewing
  <2>6. StoreFollows'
    <3>1. token # NoToken \/ ~(now < token.refresh)
      BY <1>1, NoTokenFields, OAuthBounds DEF OAuthTyped
    <3>2. token \in Token
      BY <1>1 DEF OAuthTyped
    <3> QED
      BY <2>2, <2>3, <3>1, <3>2, RememberedIsToken DEF StoreFollows
  <2>7. NobodyEnters'
    <3>1. \A d \in Dirs : stored'[d] \in {stored[d], token, NoToken}
      BY <1>1, <2>2, <2>3, RememberedIsToken DEF OAuthTyped
    <3>2. Useless(NoToken) /\ Useless(token) /\ \A d \in Dirs : Useless(stored[d])
      BY <1>1, NoTokenFields, OAuthBounds DEF OAuthIInv, OAuthTyped, NobodyEnters, Useless
    <3> QED
      BY <2>2, <3>1, <3>2 DEF NobodyEnters, Useless
  <2> QED
    BY <2>4, <2>5, <2>6, <2>7 DEF OAuthIInv
<1>3. CASE RequestAccess
  <2>1. /\ verifier' = verifier + 1 /\ verifier' \in 0..MaxPages
        /\ pages' \subseteq 1..verifier'
        /\ UNCHANGED <<now, dir, token, remember, refreshTimer, posts, posted, stored, weak>>
    BY <1>1, <1>3, OAuthBounds DEF OAuthTyped, RequestAccess
  <2>2. OAuthTyped'
    BY <1>1, <2>1 DEF OAuthTyped
  <2>3. NobodyEnters' /\ Prompt' /\ Renewing' /\ (StoreFollows => StoreFollows')
    BY <2>1 DEF OAuthIInv, NobodyEnters, Useless, Prompt, Renewing, StoreFollows
  <2> QED
    BY <2>2, <2>3 DEF OAuthIInv
<1> QED
  BY <1>2, <1>3 DEF DialogStep

\* A request that is posted while the token stays.
LEMMA PostPreserves ==
    ASSUME OAuthIInv, NEW kind \in {"code", "refresh"}, NEW user \in Users \cup {Nobody},
           NEW page \in Nat, NEW expires \in Int, Post(kind, user, page, expires),
           UNCHANGED <<now, dir, token, remember, pages, verifier, stored, weak>>,
           \/ UNCHANGED refreshTimer
           \/ /\ refreshTimer' = Off /\ kind = "refresh"
              /\ refreshTimer # Off => refreshTimer <= now
    PROVE  /\ OAuthIInv' /\ (StoreFollows => StoreFollows')
           /\ \A p \in posts' : p \in posts \/ p.user = user
<1>1. OAuthTyped
  BY DEF OAuthIInv
<1>2. PICK q \in TokenRequest :
          posts' = posts \cup {q} /\ q.kind = kind /\ q.user = user /\ q.at = now
  BY <1>1, PostIsTyped
<1>3. /\ posts' \subseteq TokenRequest /\ posted' \in 0..MaxPosts
      /\ \A p \in posts' : p.id \in 1..posted'
  BY <1>1, PostIsTyped
<1>4. OAuthTyped'
  BY <1>1, <1>3 DEF OAuthTyped
<1>5. Prompt'
  <2>1. now \in Nat /\ now <= now /\ now <= now + ReplyTime
    BY <1>1, OAuthBounds, TokenTimes DEF OAuthTyped
  <2> QED
    BY <1>2, <2>1 DEF OAuthIInv, Prompt
<1>6. Renewing'
  <2> SUFFICES ASSUME ~weak
               PROVE  refreshTimer' # Off \/ \E p \in posts' :
                          p.kind = "refresh" /\ p.at <= token.access - Buffer
    BY DEF Renewing
  <2>1. CASE \E p \in posts : p.kind = "refresh" /\ p.at <= token.access - Buffer
    BY <1>2, <2>1
  <2>2. CASE refreshTimer # Off /\ UNCHANGED refreshTimer
    BY <2>2
  <2>3. CASE refreshTimer # Off /\ kind = "refresh" /\ refreshTimer <= now
    <3>1. now <= token.access - Buffer
      BY <1>1, <2>3, OAuthBounds DEF OAuthIInv, Prompt, OAuthTyped, Off
    <3> QED
      BY <1>2, <2>3, <3>1
  <2> QED
    BY <2>1, <2>2, <2>3 DEF OAuthIInv, Renewing
<1>7. NobodyEnters' /\ (StoreFollows => StoreFollows')
  BY DEF OAuthIInv, NobodyEnters, Useless, StoreFollows
<1> QED
  BY <1>2, <1>4, <1>5, <1>6, <1>7 DEF OAuthIInv

\* A token that is granted, at whatever time the reply is dated.
LEMMA GrantedIsToken ==
    ASSUME OAuthIInv, NEW p \in posts, NEW t \in Granted(p)
    PROVE  /\ t \in Token /\ t.user = p.user /\ p.user \in Users
           /\ t.access - Buffer >= now
<1>1. PICK birthday \in p.at..now : t = TokenOf(p.user, birthday) /\ Grantable(p, birthday)
  BY DEF Granted
<1>2. p.at \in Nat /\ p.user \in Users /\ now \in Nat /\ birthday \in Nat
      /\ p.at <= birthday /\ now <= p.at + ReplyTime
  BY <1>1, OAuthBounds DEF OAuthIInv, OAuthTyped, TokenRequest, Prompt, Grantable
<1>3. t \in Token /\ t.user = p.user /\ t.access = birthday + Lifetime
  BY <1>1, <1>2, TokenOfIsToken
<1> QED
  BY <1>2, <1>3, TokenTimes

\* A reply that is no token.
LEMMA GarbledIsToken ==
    ASSUME OAuthIInv, NEW p \in posts, NEW t \in Garbled(p)
    PROVE  /\ t \in Token /\ t.user \in {p.user, Nobody} /\ t.access <= now
<1>1. p.at \in Nat /\ p.user \in Users \cup {Nobody} /\ now \in Nat
  BY OAuthBounds DEF OAuthIInv, OAuthTyped, TokenRequest
<1>2. CASE t \in [user : {p.user, Nobody}, access : {Undated}, refresh : {Undated}]
  BY <1>1, <1>2 DEF Token, Undated
<1>3. CASE \E b \in p.at..now :
              t = [user |-> Nobody, access |-> b - 1, refresh |-> b + RefreshLifetime]
  BY <1>1, <1>3, TokenTimes DEF Token
<1> QED
  BY <1>2, <1>3 DEF Garbled

LEMMA ReceivePreserves ==
    ASSUME OAuthIInv, NEW p \in posts, ReceiveToken(p)
    PROVE  /\ OAuthIInv' /\ StoreFollows'
           /\ token'.user \in {p.user, Nobody} /\ posts' = posts \ {p} /\ pages' = pages
<1>1. OAuthTyped /\ Prompt /\ NobodyEnters /\ now \in Nat
  BY OAuthBounds DEF OAuthIInv, OAuthTyped
<1>2. PICK t \in Granted(p) \cup Garbled(p) :
          /\ posts' = posts \ {p} /\ token' = t /\ weak' = (t \notin Granted(p))
          /\ stored' = [stored EXCEPT ![dir] = IF remember THEN t ELSE NoToken]
          /\ SetRefreshTimer(t)
          /\ UNCHANGED <<now, dir, remember, pages, verifier, posted>>
  BY DEF ReceiveToken
<1>3. /\ t \in Token /\ t.user \in {p.user, Nobody}
      /\ t \in Granted(p) => p.user \in Users /\ t.user = p.user /\ t.access - Buffer >= now
      /\ t \notin Granted(p) => t.access <= now
  BY <1>2, GrantedIsToken, GarbledIsToken
<1>4. /\ refreshTimer' \in Nat \cup {Off} /\ (refreshTimer' # Off => refreshTimer' >= now)
      /\ t \in Granted(p) => refreshTimer' # Off /\ refreshTimer' = t.access - Buffer
  BY <1>1, <1>2, <1>3, TimerIsAhead
<1>5. /\ stored' \in [Dirs -> Token] /\ stored'[dir] = IF remember THEN t ELSE NoToken
      /\ \A d \in Dirs : stored'[d] \in {stored[d], t, NoToken}
  BY <1>1, <1>2, <1>3, NoTokenFields DEF OAuthTyped
<1>6. OAuthTyped'
  <2>1. weak' \in BOOLEAN
    BY <1>2
  <2> QED
    BY <1>1, <1>2, <1>3, <1>4, <1>5, <2>1 DEF OAuthTyped
<1>7. Prompt' /\ Renewing' /\ StoreFollows'
  BY <1>1, <1>2, <1>4, <1>5 DEF Prompt, Renewing, StoreFollows
<1>8. NobodyEnters'
  <2>1. Useless(t) /\ Useless(NoToken) /\ \A d \in Dirs : Useless(stored[d])
    BY <1>1, <1>3, NoTokenFields, TokenTimes DEF NobodyEnters, Useless
  <2> QED
    BY <1>2, <1>5, <2>1 DEF NobodyEnters, Useless
<1> QED
  BY <1>2, <1>3, <1>6, <1>7, <1>8 DEF OAuthIInv

LEMMA ErrorPreserves ==
    ASSUME OAuthIInv, NEW p \in posts, TokenError(p)
    PROVE  OAuthIInv' /\ (StoreFollows => StoreFollows')
<1>1. /\ posts' = posts \ {p} /\ weak' = (weak \/ p.kind = "refresh")
      /\ UNCHANGED <<now, dir, token, remember, refreshTimer, pages, verifier, posted, stored>>
  BY DEF TokenError
<1>2. weak' \in BOOLEAN
  BY <1>1 DEF OAuthIInv, OAuthTyped
<1>3. OAuthTyped'
  BY <1>1, <1>2 DEF OAuthIInv, OAuthTyped
<1>4. Renewing'
  <2> SUFFICES ASSUME ~weak, p.kind # "refresh"
               PROVE  refreshTimer # Off \/ \E q \in posts' :
                          q.kind = "refresh" /\ q.at <= token.access - Buffer
    BY <1>1 DEF Renewing
  <2>1. CASE refreshTimer # Off
    BY <2>1
  <2>2. CASE \E q \in posts : q.kind = "refresh" /\ q.at <= token.access - Buffer
    BY <1>1, <2>2
  <2> QED
    BY <2>1, <2>2 DEF OAuthIInv, Renewing
<1>5. NobodyEnters' /\ (StoreFollows => StoreFollows')
  BY <1>1 DEF OAuthIInv, NobodyEnters, Useless, StoreFollows
<1>6. Prompt'
  BY <1>1, <1>2 DEF OAuthIInv, OAuthTyped, Prompt
<1> QED
  BY <1>3, <1>4, <1>5, <1>6 DEF OAuthIInv

LEMMA TickPreserves ==
    ASSUME OAuthIInv, OAuthTick
    PROVE  OAuthIInv' /\ (StoreFollows => StoreFollows')
<1>1. /\ now \in Nat /\ now < MaxTime /\ now' = now + 1
      /\ refreshTimer # Off => refreshTimer > now
      /\ \A p \in posts : now < p.at + ReplyTime /\ p.at \in Nat /\ p.at <= now
      /\ UNCHANGED <<dir, token, remember, refreshTimer, pages, verifier, posts, posted,
                     stored, weak>>
  BY OAuthBounds DEF OAuthTick, OAuthIInv, OAuthTyped, Prompt, TokenRequest
<1>2. now' \in 0..MaxTime
  BY <1>1, OAuthBounds
<1>3. OAuthTyped'
  BY <1>1, <1>2 DEF OAuthIInv, OAuthTyped
<1>4. Prompt'
  <2>1. refreshTimer # Off => refreshTimer >= now'
    BY <1>1 DEF OAuthIInv, OAuthTyped
  <2>2. \A p \in posts : p.at <= now' /\ now' <= p.at + ReplyTime
    BY <1>1, TokenTimes
  <2> QED
    BY <1>1, <2>1, <2>2 DEF OAuthIInv, Prompt
<1>5. Renewing'
  BY <1>1 DEF OAuthIInv, Renewing
<1>6. StoreFollows => StoreFollows'
  <2>1. token.refresh \in Int
    BY TokenFields DEF OAuthIInv, OAuthTyped
  <2> QED
    BY <1>1, <2>1 DEF StoreFollows
<1>7. NobodyEnters'
  <2>1. token.access \in Int /\ \A d \in Dirs : stored[d].access \in Int
    BY TokenFields DEF OAuthIInv, OAuthTyped
  <2> QED
    BY <1>1, <2>1 DEF OAuthIInv, NobodyEnters, Useless
<1> QED
  BY <1>3, <1>4, <1>5, <1>6, <1>7 DEF OAuthIInv

\* Tokens are those of this account, and come only to it.
OwnedBy(account) ==
    token.user \in {account, Nobody} /\ \A p \in posts : p.user \in {account, Nobody}

LEMMA ApprovePreserves ==
    ASSUME OAuthIInv, NEW page \in pages, NEW u \in Users, ApprovePage(page, u)
    PROVE  /\ OAuthIInv' /\ (StoreFollows => StoreFollows') /\ UNCHANGED pages
           /\ OwnedBy(u) => OwnedBy(u)'
<1>1. page \in Nat /\ 0 \in Int /\ u \in Users \cup {Nobody}
  BY OAuthBounds DEF OAuthIInv, OAuthTyped
<1>2. /\ Post("code", u, page, 0)
      /\ UNCHANGED <<now, dir, token, remember, refreshTimer, pages, verifier, stored, weak>>
  BY DEF ApprovePage
<1>3. /\ OAuthIInv' /\ (StoreFollows => StoreFollows')
      /\ \A p \in posts' : p \in posts \/ p.user = u
  BY <1>1, <1>2, PostPreserves
<1> QED
  BY <1>2, <1>3 DEF OwnedBy

LEMMA SessionPreserves ==
    ASSUME OAuthIInv, SessionStep
    PROVE  /\ OAuthIInv' /\ (StoreFollows => StoreFollows') /\ UNCHANGED pages
           /\ \A account : OwnedBy(account) => OwnedBy(account)'
<1>1. /\ OAuthTyped /\ token.user \in Users \cup {Nobody} /\ token.refresh \in Int
  BY TokenFields DEF OAuthIInv, OAuthTyped
<1>2. CASE RefreshTimeout \/ MenuRefresh
  <2>1. /\ Post("refresh", token.user, 0, token.refresh)
        /\ UNCHANGED <<now, dir, token, remember, pages, verifier, stored, weak>>
        /\ \/ UNCHANGED refreshTimer
           \/ refreshTimer' = Off /\ (refreshTimer # Off => refreshTimer <= now)
    BY <1>2 DEF RefreshTimeout, MenuRefresh, RequestRefresh
  <2>2. /\ OAuthIInv' /\ (StoreFollows => StoreFollows')
        /\ \A p \in posts' : p \in posts \/ p.user = token.user
    BY <1>1, <2>1, PostPreserves
  <2> QED
    BY <2>1, <2>2 DEF OwnedBy
<1>3. CASE \E p \in posts : TokenError(p)
  <2>1. PICK p \in posts : TokenError(p)
    BY <1>3
  <2>2. posts' \subseteq posts /\ UNCHANGED <<pages, token>>
    BY <2>1 DEF TokenError
  <2> QED
    BY <2>1, <2>2, ErrorPreserves DEF OwnedBy
<1>4. CASE OAuthTick
  BY <1>4, TickPreserves DEF OAuthTick, OwnedBy
<1>5. CASE \E p \in posts : ReceiveToken(p)
  <2>1. PICK p \in posts : ReceiveToken(p)
    BY <1>5
  <2> QED
    BY <2>1, ReceivePreserves DEF OwnedBy
<1>6. CASE UNCHANGED oauthVars
  <2>1. OAuthTyped' /\ NobodyEnters' /\ Prompt' /\ Renewing'
    BY <1>6 DEF OAuthIInv, OAuthTyped, NobodyEnters, Useless, Prompt, Renewing, oauthVars
  <2> QED
    BY <1>6, <2>1 DEF OAuthIInv, StoreFollows, OwnedBy, oauthVars
<1> QED
  BY <1>2, <1>3, <1>4, <1>5, <1>6 DEF SessionStep

-----------------------------------------------------------------------------
(* The dialog. *)

Setting == [league : Leagues \cup {NoLeague}, remember : BOOLEAN]

LoginRecord ==
    [api : {"none", "OAUTH", "LEGACY"}, account : Users \cup {Nobody},
     league : Leagues \cup {NoLeague}, clean : BOOLEAN, pages : SUBSET Nat]

DialogTyped ==
    /\ login \in LoginRecord
    /\ phase \in {"off", "dialog", "validating", "fatal", "main"}
    /\ settings \in [Dirs -> Setting]
    /\ leagues \in {"asked", "failed", "got"}
    /\ offered \subseteq Leagues /\ league \in offered \cup {NoLeague}
    /\ legacyLogin \in {"none", "start", "finish"} /\ cookie \in Users \cup {Nobody}

\* What the login button relies on.
DialogReady ==
    /\ leagues = "got" => league \in offered \/ (offered = {} /\ league = NoLeague)
    /\ loginEnabled => leagues = "got"
    /\ phase \in {"off", "dialog"} <=> login = NoLogin
    /\ login = NoLogin <=> login.api = "none"
    /\ login # NoLogin => leagues = "got"

\* What is settled between the two requests of a login with a session id.
LegacySettled ==
    legacyLogin # "none" /\ phase = "dialog" =>
        /\ cookie \in Users /\ leagues = "got"
        /\ settings[dir].league = league

DialogIInv == DialogTyped /\ DialogReady /\ LegacySettled /\ LoginIsWhole

\* The token stays with the account of the login, as long as no page that was there then
\* brings in another one; new ones are not opened.
OwnerStays ==
    login # NoLogin => /\ pages \subseteq login.pages
                       /\ login.api = "OAUTH" /\ login.clean => OwnedBy(login.account)

LoginIInv ==
    /\ OAuthIInv /\ DialogIInv /\ OwnerStays
    /\ phase # "off" => StoreFollows

\* A step of Login that is a session's, for the manager.
InSession ==
    /\ phase = "off" <=> phase' = "off"
    /\ \/ SessionStep /\ UNCHANGED login
       \/ AuthorizationReceived
       \/ /\ UNCHANGED oauthVars
          /\ login'.clean = Clean /\ login'.pages = pages
          /\ login'.api = "OAUTH" => login'.account = token.user

\* Every step of Login, as the manager sees it.
LEMMA StepsOfTheManager ==
    ASSUME OAuthIInv, DialogTyped, [LoginNext]_loginVars
    PROVE  \/ NewStep /\ login' = NoLogin
           \/ EndManager /\ phase' = "off" /\ login' = NoLogin
           \/ DialogStep /\ phase = "dialog" /\ UNCHANGED <<phase, login>>
           \/ InSession
<1>1. SettingsAtEnd \in [Dirs -> Setting] /\ settings \in [Dirs -> Setting]
  BY DEF SettingsAtEnd, DialogTyped, Setting, Forgotten
<1>2. ASSUME NEW d \in Dirs, NEW kept \in [Dirs -> Setting], Open(d, kept)
      PROVE  NewStep /\ login' = NoLogin
  <2>1. kept[d].remember \in BOOLEAN
    BY DEF Setting
  <2> QED
    BY <1>2, <2>1 DEF Open, NewStep
<1>3. CASE StartProgram \/ ChangeUserDir
  BY <1>1, <1>2, <1>3 DEF StartProgram, ChangeUserDir
<1>4. CASE EndProgram
  BY <1>4 DEF EndProgram
<1>5. CASE OnRememberMeCheckBoxChanged \/ OnAuthenticateButtonClicked
  <2>1. (~remember) \in BOOLEAN
    OBVIOUS
  <2> QED
    BY <1>5, <2>1 DEF OnRememberMeCheckBoxChanged, OnAuthenticateButtonClicked, DialogStep
<1>6. CASE OnLeaguesReceived \/ LeaguesRequestError \/ OnLeagueChanged
           \/ OnStartLegacyLogin \/ SetSessionId
  BY <1>6 DEF OnLeaguesReceived, LeaguesRequestError, OnLeagueChanged,
     OnStartLegacyLogin, SetSessionId, InSession, SessionStep
<1>7. CASE ValidatorClosed
  BY <1>7 DEF ValidatorClosed, InSession, SessionStep
<1>8. CASE AccessGranted
  BY <1>8 DEF AccessGranted, InSession, SessionStep
<1>9. CASE AuthorizationReceived
  BY <1>9 DEF AuthorizationReceived, InSession
<1>10. CASE OAuthStep
  BY <1>10 DEF OAuthStep, RefusePage, QuietDialog, dialogVars, InSession, SessionStep
<1>11. CASE MainMenuRefresh
  BY <1>11 DEF MainMenuRefresh, QuietDialog, dialogVars, InSession, SessionStep, MenuRefresh
<1>12. CASE \E tab \in {"oauth", "session"}, u \in Users \cup {Nobody} :
                OnLoginButtonClicked(tab, u)
  <2>1. UNCHANGED oauthVars /\ phase = "dialog"
    BY <1>12 DEF OnLoginButtonClicked
  <2>2. \/ UNCHANGED <<phase, login>>
        \/ OnLogin("OAUTH", token.user, league)
    BY <1>12 DEF OnLoginButtonClicked
  <2>3. CASE UNCHANGED <<phase, login>>
    BY <2>1, <2>3 DEF InSession, SessionStep
  <2>4. CASE OnLogin("OAUTH", token.user, league)
    BY <2>1, <2>4 DEF OnLogin, InitLogin, InSession, SessionStep
  <2> QED
    BY <2>2, <2>3, <2>4
<1>13. CASE OnFinishLegacyLogin
  <2>1. UNCHANGED oauthVars /\ phase = "dialog"
    BY <1>13 DEF OnFinishLegacyLogin
  <2>2. \/ UNCHANGED <<phase, login>>
        \/ \E account : OnLogin("LEGACY", account, settings[dir].league)
    BY <1>13 DEF OnFinishLegacyLogin
  <2>3. CASE UNCHANGED <<phase, login>>
    BY <2>1, <2>3 DEF InSession, SessionStep
  <2>4. CASE \E account : OnLogin("LEGACY", account, settings[dir].league)
    BY <2>1, <2>4 DEF OnLogin, InitLogin, InSession, SessionStep
  <2> QED
    BY <2>2, <2>3, <2>4
<1>14. CASE UNCHANGED loginVars
  BY <1>14 DEF loginVars, dialogVars, InSession, SessionStep
<1> QED
  BY <1>3, <1>4, <1>5, <1>6, <1>7, <1>8, <1>10, <1>11, <1>12, <1>13, <1>14, <1>9 DEF LoginNext

\* The manager's part of the invariant.
LEMMA ManagerPreserves ==
    ASSUME LoginIInv, [LoginNext]_loginVars
    PROVE  OAuthIInv' /\ OwnerStays' /\ (phase' # "off" => StoreFollows')
<1>1. OAuthIInv /\ DialogTyped /\ OwnerStays /\ (phase # "off" => StoreFollows)
      /\ (phase = "dialog" => login = NoLogin)
  BY DEF LoginIInv, DialogIInv, DialogReady
<1>2. CASE NewStep /\ login' = NoLogin
  BY <1>1, <1>2, NewManagerPreserves DEF NewStep, OwnerStays
<1>3. CASE EndManager /\ phase' = "off" /\ login' = NoLogin
  BY <1>1, <1>3, EndManagerPreserves DEF OwnerStays
<1>4. CASE DialogStep /\ phase = "dialog" /\ UNCHANGED <<phase, login>>
  BY <1>1, <1>4, DialogStepPreserves DEF OwnerStays
<1>5. CASE InSession
  <2>1. CASE SessionStep /\ UNCHANGED login
    <3>1. /\ OAuthIInv' /\ (StoreFollows => StoreFollows') /\ UNCHANGED pages
          /\ \A account : OwnedBy(account) => OwnedBy(account)'
      BY <1>1, <2>1, SessionPreserves
    <3> QED
      BY <1>1, <1>5, <2>1, <3>1 DEF InSession, OwnerStays
  <2>2. CASE AuthorizationReceived
    <3>1. PICK page \in pages, u \in Users :
              /\ ApprovePage(page, u)
              /\ login' = IF page \in login.pages /\ u # login.account
                          THEN [login EXCEPT !.clean = FALSE] ELSE login
      BY <2>2 DEF AuthorizationReceived
    <3>2. /\ OAuthIInv' /\ (StoreFollows => StoreFollows') /\ UNCHANGED pages
          /\ OwnedBy(u) => OwnedBy(u)'
      BY <1>1, <3>1, ApprovePreserves
    <3>3. login = NoLogin => login' = NoLogin
      <4>1. login = NoLogin => login.pages = {}
        BY DEF NoLogin
      <4> QED
        BY <3>1, <4>1
    <3>4. CASE login = NoLogin
      BY <1>1, <1>5, <3>2, <3>3, <3>4 DEF InSession, OwnerStays
    <3>5. CASE login # NoLogin /\ u # login.account
      <4>1. page \in login.pages
        BY <1>1, <3>1, <3>5 DEF OwnerStays
      <4>2. login' = [login EXCEPT !.clean = FALSE]
        BY <3>1, <3>5, <4>1
      <4>3. login'.pages = login.pages /\ ~login'.clean
        BY <1>1, <3>5, <4>2 DEF DialogTyped, LoginRecord
      <4> QED
        BY <1>1, <1>5, <3>2, <3>5, <4>3 DEF InSession, OwnerStays
    <3>6. CASE login # NoLogin /\ u = login.account
      BY <1>1, <1>5, <3>1, <3>2, <3>6 DEF InSession, OwnerStays
    <3> QED
      BY <3>4, <3>5, <3>6
  <2>3. CASE /\ UNCHANGED oauthVars
             /\ login'.clean = Clean /\ login'.pages = pages
             /\ login'.api = "OAUTH" => login'.account = token.user
    <3>1. /\ OAuthIInv' /\ (StoreFollows => StoreFollows') /\ UNCHANGED <<pages, posts, token>>
      BY <1>1, <2>3, SessionPreserves DEF SessionStep, oauthVars
    <3>2. login'.api = "OAUTH" /\ login'.clean => OwnedBy(login.account)'
      <4> SUFFICES ASSUME login'.api = "OAUTH", login'.clean PROVE OwnedBy(login.account)'
        OBVIOUS
      <4>1. token.user = login'.account /\ \A p \in posts : p.user \in {token.user, Nobody}
        BY <2>3 DEF Clean
      <4> QED
        BY <3>1, <4>1 DEF OwnedBy
    <3> QED
      BY <1>1, <1>5, <2>3, <3>1, <3>2 DEF InSession, OwnerStays
  <2> QED
    BY <1>5, <2>1, <2>2, <2>3 DEF InSession
<1> QED
  BY <1>1, <1>2, <1>3, <1>4, <1>5, StepsOfTheManager DEF OAuthIInv

-----------------------------------------------------------------------------
LEMMA NoLoginIsRecord == NoLogin \in LoginRecord /\ NoLogin.api = "none"
BY DEF NoLogin, LoginRecord

LEMMA ChangeIsSetting ==
    ASSUME DialogTyped, dir \in Dirs, NEW l \in Leagues \cup {NoLeague}
    PROVE  /\ Change("league", l) \in [Dirs -> Setting]
           /\ Change("league", l)[dir].league = l
BY DEF DialogTyped, Change, Setting

LEMMA RememberIsSetting ==
    ASSUME DialogTyped, dir \in Dirs, NEW wanted \in BOOLEAN
    PROVE  /\ Change("remember", wanted) \in [Dirs -> Setting]
           /\ Change("remember", wanted)[dir].league = settings[dir].league
BY DEF DialogTyped, Change, Setting

\* A dialog that is new, or gone.
LEMMA FreshDialog ==
    ASSUME DialogTyped, settings' \in [Dirs -> Setting], phase' \in {"off", "dialog"},
           leagues' = "asked", offered' = {}, league' = NoLeague,
           loginEnabled' = FALSE, legacyLogin' = "none", login' = NoLogin,
           cookie' \in {cookie, Nobody}
    PROVE  DialogIInv'
BY NoLoginIsRecord DEF DialogIInv, DialogTyped, DialogReady, LegacySettled, LoginIsWhole

\* A step that leaves alone what the invariant of the dialog is about.
LEMMA QuietPreserves ==
    ASSUME DialogIInv, settings' \in [Dirs -> Setting], UNCHANGED dir,
           settings'[dir].league = settings[dir].league,
           UNCHANGED <<leagues, offered, league, loginEnabled>>,
           \/ UNCHANGED login
           \/ \E flag \in BOOLEAN : login' = [login EXCEPT !.clean = flag],
           login = NoLogin <=> login' = NoLogin,
           \/ UNCHANGED phase
           \/ phase = "validating" /\ phase' = "main",
           \/ UNCHANGED <<legacyLogin, cookie>>
           \/ phase = "main" /\ UNCHANGED legacyLogin /\ cookie' \in Users
           \/ phase = "dialog" /\ UNCHANGED cookie /\ legacyLogin = "start"
              /\ legacyLogin' \in {"finish", "none"}
           \/ UNCHANGED cookie /\ legacyLogin' = "none"
    PROVE  DialogIInv'
<1>1. /\ login' \in LoginRecord /\ login'.api = login.api
      /\ login'.account = login.account /\ login'.league = login.league
  BY DEF DialogIInv, DialogTyped, LoginRecord
<1>2. DialogTyped'
  BY <1>1 DEF DialogIInv, DialogTyped
<1>3. DialogReady'
  BY <1>1 DEF DialogIInv, DialogReady
<1>4. LegacySettled'
  BY DEF DialogIInv, LegacySettled
<1>5. LoginIsWhole'
  BY <1>1 DEF DialogIInv, LoginIsWhole
<1> QED
  BY <1>2, <1>3, <1>4, <1>5 DEF DialogIInv

LEMMA LeaguesPreserve ==
    ASSUME DialogIInv, dir \in Dirs, OnLeaguesReceived \/ LeaguesRequestError
    PROVE  DialogIInv'
<1>1. DialogTyped /\ DialogReady /\ LegacySettled /\ leagues = "asked" /\ login = NoLogin
      /\ phase \in {"off", "dialog"} /\ UNCHANGED <<dir, phase, legacyLogin, cookie, login>>
  BY DEF DialogIInv, DialogReady, OnLeaguesReceived, LeaguesRequestError, oauthVars
<1>2. CASE OnLeaguesReceived
  <2>1. PICK offer \in SUBSET Leagues :
            /\ offered' = offer
            /\ league' \in ShownLeague(settings[dir].league, offer)
            /\ settings' = IF settings[dir].league \in offer THEN settings
                           ELSE Change("league", NoLeague)
    BY <1>2 DEF OnLeaguesReceived
  <2>2. /\ leagues' = "got" /\ offered' \subseteq Leagues
        /\ league' \in offered' \/ (offered' = {} /\ league' = NoLeague)
    BY <1>2, <2>1 DEF OnLeaguesReceived, ShownLeague
  <2>3. settings' \in [Dirs -> Setting]
    BY <1>1, <2>1, ChangeIsSetting DEF DialogTyped
  <2>4. DialogTyped'
    BY <1>1, <2>2, <2>3 DEF DialogTyped
  <2>5. DialogReady' /\ LegacySettled' /\ LoginIsWhole'
    BY <1>1, <2>2 DEF DialogReady, LegacySettled, LoginIsWhole
  <2> QED
    BY <2>4, <2>5 DEF DialogIInv
<1>3. CASE LeaguesRequestError
  <2>1. leagues' = "failed" /\ loginEnabled' = FALSE /\ UNCHANGED <<settings, offered, league>>
    BY <1>3 DEF LeaguesRequestError
  <2>2. DialogTyped'
    BY <1>1, <2>1 DEF DialogTyped
  <2>3. DialogReady' /\ LegacySettled' /\ LoginIsWhole'
    BY <1>1, <2>1 DEF DialogReady, LegacySettled, LoginIsWhole
  <2> QED
    BY <2>2, <2>3 DEF DialogIInv
<1> QED
  BY <1>2, <1>3

LEMMA LeagueChangedPreserves ==
    ASSUME DialogIInv, dir \in Dirs, OnLeagueChanged
    PROVE  DialogIInv'
<1>1. DialogTyped /\ DialogReady /\ LegacySettled /\ login = NoLogin /\ phase = "dialog"
  BY DEF DialogIInv, DialogReady, OnLeagueChanged
<1>2. PICK l \in offered : league' = l /\ settings' = Change("league", l)
  BY DEF OnLeagueChanged
<1>3. /\ leagues = "got"
      /\ UNCHANGED <<dir, phase, leagues, offered, loginEnabled, legacyLogin, cookie, login>>
  BY DEF OnLeagueChanged, oauthVars
<1>4. settings' \in [Dirs -> Setting] /\ settings'[dir].league = league'
      /\ league' \in offered'
  BY <1>1, <1>2, <1>3, ChangeIsSetting DEF DialogTyped
<1>5. DialogTyped'
  BY <1>1, <1>3, <1>4 DEF DialogTyped
<1>6. DialogReady' /\ LegacySettled' /\ LoginIsWhole'
  BY <1>1, <1>3, <1>4 DEF DialogReady, LegacySettled, LoginIsWhole
<1> QED
  BY <1>5, <1>6 DEF DialogIInv

\* OnLogin, with the league that is shown: without one the program ends.
LEMMA OnLoginPreserves ==
    ASSUME OAuthTyped, DialogIInv, NEW api \in {"OAUTH", "LEGACY"},
           NEW account \in Users \cup {Nobody}, OnLogin(api, account, league),
           account = Nobody => api = "LEGACY",
           leagues = "got", settings' \in [Dirs -> Setting], UNCHANGED dir,
           settings'[dir].league = league,
           loginEnabled' \in {loginEnabled, FALSE}, cookie' \in Users \cup {Nobody},
           legacyLogin' \in {"none", "start", "finish"},
           UNCHANGED <<leagues, offered, league>>
    PROVE  DialogIInv'
<1>1. /\ login' = [api |-> api, account |-> account, league |-> league, clean |-> Clean,
                   pages |-> pages]
      /\ phase' \in {"validating", "fatal", "main"}
      /\ phase' = "fatal" <=> league = NoLeague \/ account = Nobody
      /\ league \in offered \/ (offered = {} /\ league = NoLeague)
      /\ offered \subseteq Leagues
  BY DEF OnLogin, InitLogin, DialogIInv, DialogReady, DialogTyped
<1>2. Clean \in BOOLEAN /\ pages \in SUBSET Nat /\ league \in Leagues \cup {NoLeague}
  BY <1>1, OAuthBounds DEF Clean, OAuthTyped
<1>3. /\ login' \in LoginRecord /\ login' # NoLogin
      /\ login'.api = api /\ login'.account = account /\ login'.league = league
  BY <1>1, <1>2, NoLoginIsRecord DEF LoginRecord
<1>4. DialogTyped'
  BY <1>1, <1>3 DEF DialogIInv, DialogTyped
<1>5. DialogReady' /\ LegacySettled'
  BY <1>1, <1>3 DEF DialogIInv, DialogReady, LegacySettled
<1>6. LoginIsWhole'
  BY <1>1, <1>3, LeagueNames DEF LoginIsWhole
<1> QED
  BY <1>4, <1>5, <1>6 DEF DialogIInv

LEMMA LoginButtonPreserves ==
    ASSUME OAuthTyped, NobodyEnters, DialogIInv, NEW tab \in {"oauth", "session"},
           NEW session \in Users \cup {Nobody}, OnLoginButtonClicked(tab, session)
    PROVE  DialogIInv'
<1>1. /\ DialogTyped /\ DialogReady /\ LegacySettled /\ login = NoLogin
      /\ phase = "dialog" /\ leagues = "got" /\ dir \in Dirs
      /\ league \in Leagues \cup {NoLeague}
  BY DEF DialogIInv, DialogTyped, DialogReady, OnLoginButtonClicked, OAuthTyped
<1>2. /\ settings' = Change("league", league)
      /\ cookie' = IF session # Nobody THEN session ELSE cookie
      /\ UNCHANGED <<dir, leagues, offered, league>>
  BY DEF OnLoginButtonClicked, oauthVars
<1>3. /\ settings' \in [Dirs -> Setting] /\ settings'[dir].league = league
      /\ cookie' \in Users \cup {Nobody}
      /\ cookie # Nobody => cookie' # Nobody
  BY <1>1, <1>2, ChangeIsSetting DEF DialogTyped
<1>4. CASE OnLogin("OAUTH", token.user, league) /\ now < token.access /\ loginEnabled' = FALSE
           /\ UNCHANGED legacyLogin
  <2>1. token.user \in Users
    BY <1>4, TokenFields, OAuthBounds DEF OAuthTyped, NobodyEnters, Useless
  <2>2. legacyLogin' \in {"none", "start", "finish"}
    BY <1>1, <1>4 DEF DialogTyped
  <2>3. token.user # Nobody
    BY <2>1, TokenTimes
  <2> QED
    BY <1>1, <1>2, <1>3, <1>4, <2>1, <2>2, <2>3, OnLoginPreserves
<1>5. CASE /\ loginEnabled' \in {loginEnabled, FALSE} /\ UNCHANGED <<phase, login>>
           /\ \/ UNCHANGED legacyLogin
              \/ session # Nobody /\ legacyLogin' = "start"
  <2>1. DialogTyped'
    BY <1>1, <1>2, <1>3, <1>5 DEF DialogTyped
  <2>2. DialogReady' /\ LoginIsWhole'
    BY <1>1, <1>2, <1>5 DEF DialogReady, LoginIsWhole
  <2>3. LegacySettled'
    BY <1>1, <1>2, <1>3, <1>5, TokenTimes DEF LegacySettled
  <2> QED
    BY <2>1, <2>2, <2>3 DEF DialogIInv
<1> QED
  BY <1>4, <1>5 DEF OnLoginButtonClicked

LEMMA FinishPreserves ==
    ASSUME OAuthTyped, DialogIInv, OnFinishLegacyLogin
    PROVE  DialogIInv'
<1>1. /\ phase = "dialog" /\ legacyLogin = "finish" /\ legacyLogin' = "none"
      /\ settings \in [Dirs -> Setting] /\ settings[dir].league = league
      /\ cookie \in Users /\ leagues = "got"
      /\ UNCHANGED <<dir, settings, leagues, offered, league, loginEnabled, cookie>>
  BY DEF OnFinishLegacyLogin, DialogIInv, DialogTyped, LegacySettled, oauthVars
<1>2. CASE UNCHANGED <<login, phase>>
  BY <1>1, <1>2, QuietPreserves
<1>3. CASE \E account \in {cookie, Nobody} :
              OnLogin("LEGACY", account, settings[dir].league)
  <2>1. PICK account \in Users \cup {Nobody} : OnLogin("LEGACY", account, league)
    BY <1>1, <1>3
  <2>2. cookie' \in Users \cup {Nobody}
    BY <1>1
  <2> QED
    BY <1>1, <2>1, <2>2, OnLoginPreserves
<1> QED
  BY <1>2, <1>3 DEF OnFinishLegacyLogin

LEMMA DialogPreserves ==
    ASSUME LoginIInv, [LoginNext]_loginVars
    PROVE  DialogIInv'
<1>1. /\ DialogIInv /\ DialogTyped /\ OAuthTyped /\ NobodyEnters /\ dir \in Dirs
      /\ settings \in [Dirs -> Setting] /\ remember \in BOOLEAN
  BY DEF LoginIInv, DialogIInv, OAuthIInv, OAuthTyped, DialogTyped
<1>2. SettingsAtEnd \in [Dirs -> Setting]
  BY <1>1 DEF SettingsAtEnd, Setting, Forgotten
<1>3. CASE StartProgram \/ ChangeUserDir \/ EndProgram
  BY <1>1, <1>2, <1>3, FreshDialog DEF StartProgram, ChangeUserDir, EndProgram, Open
<1>4. CASE OnLeaguesReceived \/ LeaguesRequestError
  BY <1>1, <1>4, LeaguesPreserve
<1>5. CASE OnLeagueChanged
  BY <1>1, <1>5, LeagueChangedPreserves
<1>6. CASE OnRememberMeCheckBoxChanged
  <2>1. (~remember) \in BOOLEAN
    OBVIOUS
  <2>2. /\ settings' = Change("remember", ~remember)
        /\ UNCHANGED <<dir, phase, leagues, offered, league, loginEnabled, legacyLogin,
                       cookie, login>>
    BY <1>6 DEF OnRememberMeCheckBoxChanged, RememberToken
  <2>3. settings' \in [Dirs -> Setting] /\ settings'[dir].league = settings[dir].league
    BY <1>1, <2>1, <2>2, RememberIsSetting
  <2> QED
    BY <1>1, <2>2, <2>3, QuietPreserves
<1>7. CASE OnAuthenticateButtonClicked \/ ValidatorClosed \/ AccessGranted \/ SetSessionId
  <2>1. UNCHANGED dir
    BY <1>7 DEF OnAuthenticateButtonClicked, ValidatorClosed, AccessGranted, SetSessionId,
       RequestAccess, ReceiveToken, oauthVars
  <2>2. /\ UNCHANGED <<settings, leagues, offered, league, loginEnabled, login>>
        /\ UNCHANGED phase \/ (phase = "validating" /\ phase' = "main")
        /\ \/ UNCHANGED <<legacyLogin, cookie>>
           \/ phase = "main" /\ UNCHANGED legacyLogin /\ cookie' \in Users
    BY <1>7 DEF OnAuthenticateButtonClicked, ValidatorClosed, AccessGranted, SetSessionId
  <2> QED
    BY <1>1, <2>1, <2>2, QuietPreserves
<1>8. CASE OnStartLegacyLogin
  <2>1. /\ UNCHANGED <<dir, phase, settings, leagues, offered, league, loginEnabled, cookie,
                       login>>
        /\ phase = "dialog" /\ legacyLogin = "start" /\ legacyLogin' \in {"finish", "none"}
    BY <1>8 DEF OnStartLegacyLogin, oauthVars
  <2> QED
    BY <1>1, <2>1, QuietPreserves
<1>9. CASE OAuthStep \/ MainMenuRefresh \/ UNCHANGED loginVars
  <2>1. UNCHANGED <<dir, dialogVars>>
    BY <1>9 DEF OAuthStep, MainMenuRefresh, QuietDialog, loginVars, oauthVars, ApprovePage,
       RefusePage, RefreshTimeout, TokenError, OAuthTick
  <2> QED
    BY <1>1, <2>1, QuietPreserves DEF dialogVars
<1>10. CASE \E tab \in {"oauth", "session"}, u \in Users \cup {Nobody} :
               OnLoginButtonClicked(tab, u)
  BY <1>1, <1>10, LoginButtonPreserves
<1>11. CASE OnFinishLegacyLogin
  BY <1>1, <1>11, FinishPreserves
<1>12. CASE AuthorizationReceived
  <2>1. PICK page \in pages, u \in Users :
            /\ ApprovePage(page, u)
            /\ login' = IF page \in login.pages /\ u # login.account
                        THEN [login EXCEPT !.clean = FALSE] ELSE login
    BY <1>12 DEF AuthorizationReceived
  <2>2. UNCHANGED <<dir, phase, settings, leagues, offered, league, loginEnabled,
                    legacyLogin, cookie>>
    BY <1>12, <2>1 DEF AuthorizationReceived, ApprovePage
  <2>3. \/ UNCHANGED login
        \/ /\ login' = [login EXCEPT !.clean = FALSE]
           /\ login # NoLogin /\ login' # NoLogin
    <3>1. CASE page \in login.pages /\ u # login.account
      <4>1. login # NoLogin
        BY <3>1 DEF NoLogin
      <4>2. login' = [login EXCEPT !.clean = FALSE] /\ login'.api = login.api
        BY <1>1, <2>1, <3>1 DEF DialogTyped, LoginRecord
      <4>3. login.api # "none"
        BY <1>1, <4>1 DEF DialogIInv, DialogReady
      <4> QED
        BY <4>1, <4>2, <4>3, NoLoginIsRecord
    <3> QED
      BY <2>1, <3>1
  <2> QED
    BY <1>1, <2>2, <2>3, QuietPreserves
<1> QED
  BY <1>3, <1>4, <1>5, <1>6, <1>7, <1>8, <1>9, <1>10, <1>11, <1>12 DEF LoginNext

LEMMA InitEstablishes == LoginInit => LoginIInv
<1> SUFFICES ASSUME LoginInit PROVE LoginIInv
  OBVIOUS
<1>1. OAuthTyped
  <2>1. /\ now = 0 /\ dir \in Dirs /\ token = NoToken /\ remember \in BOOLEAN
        /\ refreshTimer = Off /\ pages = {} /\ verifier = 0 /\ posts = {} /\ posted = 0
        /\ stored = [d \in Dirs |-> NoToken] /\ weak \in BOOLEAN
    BY DEF LoginInit
  <2>2. 0 \in 0..MaxTime /\ 0 \in 0..MaxPages /\ 0 \in 0..MaxPosts
    BY OAuthBounds
  <2> QED
    BY <2>1, <2>2, NoTokenFields DEF OAuthTyped
<1>2. OAuthIInv
  <2>1. NobodyEnters
    BY <1>1, NoTokenFields DEF LoginInit, NobodyEnters, Useless
  <2> QED
    BY <1>1, <2>1 DEF LoginInit, OAuthIInv, Prompt, Renewing
<1>3. DialogIInv
  <2>1. settings \in [Dirs -> Setting]
    BY DEF LoginInit, Setting, Forgotten
  <2>2. DialogTyped
    BY <2>1, NoLoginIsRecord DEF LoginInit, DialogTyped
  <2> QED
    BY <2>2, NoLoginIsRecord DEF LoginInit, DialogIInv, DialogReady, LegacySettled, LoginIsWhole
<1> QED
  BY <1>2, <1>3 DEF LoginInit, LoginIInv, OwnerStays, NoLogin

LEMMA NextPreserves == LoginIInv /\ [LoginNext]_loginVars => LoginIInv'
BY ManagerPreserves, DialogPreserves DEF LoginIInv

LEMMA InvariantHolds == LoginSpec => []LoginIInv
<1> QED
  BY InitEstablishes, NextPreserves, PTL DEF LoginSpec

-----------------------------------------------------------------------------
(***************************************************************************)
(* A login never hands an empty account or league to the main window, the  *)
(* league is the one shown, and it ends in the fatal error only for want   *)
(* of a list of leagues or of the name of an account: OnLogin, InitLogin,  *)
(* OnLeaguesReceived, OnFinishLegacyLogin.                                 *)
(***************************************************************************)
THEOREM LoginInvHolds == LoginSpec => []LoginInv
<1>1. LoginIInv => LoginInv
  <2> SUFFICES ASSUME LoginIInv PROVE LoginInv
    OBVIOUS
  <2>1. OAuthTyped /\ DialogTyped /\ LoginIsWhole
    BY DEF LoginIInv, OAuthIInv, DialogIInv
  <2>2. \A t \in {token} \cup {stored[d] : d \in Dirs} : t \in Token
    BY <2>1 DEF OAuthTyped
  <2>3. \A t \in {token} \cup {stored[d] : d \in Dirs} :
            t.user \in Users \cup {Nobody} /\ t.access \in Int /\ t.refresh \in Int
    BY <2>2, TokenFields
  <2>4. OAuthTypeOK
    BY <2>1, <2>3 DEF OAuthTypeOK, OAuthTyped
  <2>5. LoginTypeOK
    BY <2>1, <2>4 DEF LoginTypeOK, DialogTyped, Setting
  <2> QED
    BY <2>1, <2>5 DEF LoginInv
<1> QED
  BY <1>1, InvariantHolds, PTL

(***************************************************************************)
(* A granted token is replaced before it expires, unless a refresh fails:  *)
(* setRefreshTimer, requestRefresh, receiveToken.                          *)
(***************************************************************************)
THEOREM AuthorisedHolds == LoginSpec => []Authorised
<1>1. LoginIInv => Authorised
  <2> SUFFICES ASSUME LoginIInv, ~weak PROVE now < token.access
    BY DEF Authorised
  <2>1. /\ OAuthTyped /\ Prompt /\ Renewing /\ now \in Nat /\ token.access \in Int
    BY OAuthBounds, TokenFields DEF LoginIInv, OAuthIInv, OAuthTyped
  <2>2. CASE refreshTimer # Off
    BY <2>1, <2>2, TokenTimes DEF Prompt
  <2>3. CASE \E p \in posts : p.kind = "refresh" /\ p.at <= token.access - Buffer
    <3>1. PICK p \in posts : p.at <= token.access - Buffer
      BY <2>3
    <3>2. p.at \in Nat /\ now <= p.at + ReplyTime
      BY <2>1 DEF OAuthTyped, TokenRequest, Prompt
    <3> QED
      BY <2>1, <3>1, <3>2, TokenTimes
  <2> QED
    BY <2>1, <2>2, <2>3 DEF Renewing
<1> QED
  BY <1>1, InvariantHolds, PTL

(***************************************************************************)
(* The token of a session stays with the account of the login, or is no    *)
(* token, if no other account was on its way in then and no page opened    *)
(* before brings one in: receiveToken, receiveAuthorization, OnLogin.      *)
(***************************************************************************)
THEOREM TokenIsTheAccountsHolds == LoginSpec => []TokenIsTheAccounts
<1>1. LoginIInv => TokenIsTheAccounts
  BY NoLoginIsRecord DEF LoginIInv, OwnerStays, OwnedBy, TokenIsTheAccounts
<1> QED
  BY <1>1, InvariantHolds, PTL

(***************************************************************************)
(* The data store holds the token in use or none: receiveToken,            *)
(* RememberToken and the constructor of the manager.                       *)
(***************************************************************************)
THEOREM StoredFollowsTokenHolds == LoginSpec => []StoredFollowsToken
<1>1. LoginIInv => StoredFollowsToken
  BY DEF LoginIInv, StoreFollows, StoredFollowsToken
<1> QED
  BY <1>1, InvariantHolds, PTL
=============================================================================
