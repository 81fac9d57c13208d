-------------------------------- MODULE Login --------------------------------
(***************************************************************************)
(* The start of the program up to the main window: the LoginDialog         *)
(* (src/ui/logindialog.cpp) and the Application (src/application.cpp) that *)
(* creates it together with an OAuthManager for a user directory, and      *)
(* opens the data of an account and a league once the login is complete.   *)
(* The slots of the dialog, of token replies and of other replies          *)
(* interleave; a login with a session id is a chain of two requests; the   *)
(* validator of old buyouts may run a nested event loop in the middle of   *)
(* OnLogin.                                                                *)
(***************************************************************************)
EXTENDS OAuthManager

CONSTANTS
    Leagues,
    NoLeague,
    MaxStarts    \* bound: starts of the program and changes of the directory

ASSUME LeagueNames == NoLeague \notin Leagues

VARIABLES
    phase,         \* "off", "dialog", "validating" or "fatal" (inside OnLogin), "main"
    starts,        \* how often a dialog has been created
    settings,      \* settings.ini of each directory, what the next start reads of it
    leagues,       \* the league request: "asked", "failed" or "got"
    offered,       \* what the league combo box offers
    league,        \* what it shows
    loginEnabled,  \* the login button
    authEnabled,   \* the authenticate button
    legacyLogin,   \* the request of a login with a session id: "none", "start", "finish"
    cookie,        \* whose POESESSID is in the cookie jar
    login          \* what OnLogin was to open, and the pages there were then

dialogVars == <<phase, starts, settings, leagues, offered, league, loginEnabled,
                authEnabled, legacyLogin, cookie, login>>
loginVars == <<oauthVars, dialogVars>>

Forgotten == [league |-> NoLeague, remember |-> FALSE]
NoLogin ==
    [api |-> "none", account |-> Nobody, league |-> NoLeague, clean |-> FALSE, pages |-> {}]

Change(field, value) == [settings EXCEPT ![dir][field] = value]

\* ~LoginDialog: everything in the settings goes unless it is to be remembered.
SettingsAtEnd == IF remember THEN settings ELSE [settings EXCEPT ![dir] = Forgotten]

-----------------------------------------------------------------------------
LoginInit ==
    /\ now = 0 /\ dir \in Dirs /\ token = NoToken /\ remember = FALSE
    /\ refreshTimer = Off /\ pages = {} /\ verifier = 0 /\ posts = {} /\ posted = 0
    /\ stored = [d \in Dirs |-> NoToken] /\ weak = TRUE
    /\ phase = "off" /\ starts = 0 /\ settings = [d \in Dirs |-> Forgotten]
    /\ leagues = "asked" /\ offered = {} /\ league = NoLeague
    /\ loginEnabled = FALSE /\ authEnabled = TRUE /\ legacyLogin = "none"
    /\ cookie = Nobody /\ login = NoLogin

(***************************************************************************)
(* InitUserDir and Start: settings, manager and dialog for a directory.    *)
(* The dialog asks for the leagues; until they come nobody can log in.     *)
(***************************************************************************)
Open(d, kept) ==
    /\ starts < MaxStarts /\ starts' = starts + 1
    /\ phase' = "dialog" /\ settings' = kept
    /\ NewManager(d, kept[d].remember)
    /\ leagues' = "asked" /\ offered' = {} /\ league' = NoLeague
    /\ loginEnabled' = FALSE /\ authEnabled' = TRUE /\ legacyLogin' = "none"
    /\ login' = NoLogin

StartProgram ==
    /\ phase = "off"
    /\ \E d \in Dirs : Open(d, settings)
    /\ cookie' = Nobody

\* OnUserDirButtonPushed and SetUserDir: Stop destroys the dialog first.
ChangeUserDir ==
    /\ phase = "dialog"
    /\ \E d \in Dirs \ {dir} : Open(d, SettingsAtEnd)
    /\ UNCHANGED cookie

\* The program ends in order, or dies; the dialog of a fatal error aborts it.
EndProgram ==
    /\ phase # "off"
    /\ phase' = "off" /\ login' = NoLogin
    /\ EndManager
    /\ settings' \in {settings} \cup (IF phase = "fatal" THEN {} ELSE {SettingsAtEnd})
    /\ leagues' = "asked" /\ offered' = {} /\ league' = NoLeague
    /\ loginEnabled' = FALSE /\ authEnabled' = TRUE /\ legacyLogin' = "none"
    /\ cookie' = Nobody /\ UNCHANGED starts

-----------------------------------------------------------------------------
(* The leagues. *)

\* The combo box shows the saved league, or else the first of the list, if there is one.
ShownLeague(saved, offer) ==
    IF saved \in offer THEN {saved} ELSE IF offer = {} THEN {NoLeague} ELSE offer

\* A list that does not parse is an empty one, and enables the button all the same.
OnLeaguesReceived ==
    /\ phase # "off" /\ leagues = "asked"
    /\ leagues' = "got"
    /\ \E offer \in SUBSET Leagues :
          /\ offered' = offer
          /\ league' \in ShownLeague(settings[dir].league, offer)
          /\ settings' = IF settings[dir].league \in offer THEN settings
                         ELSE Change("league", NoLeague)
    /\ loginEnabled' = TRUE
    /\ UNCHANGED <<oauthVars, phase, starts, authEnabled, legacyLogin, cookie, login>>

LeaguesRequestError ==
    /\ phase # "off" /\ leagues = "asked"
    /\ leagues' = "failed" /\ loginEnabled' = FALSE
    /\ UNCHANGED <<oauthVars, phase, starts, settings, offered, league,
                   authEnabled, legacyLogin, cookie, login>>

-----------------------------------------------------------------------------
(* What the user does in the dialog. *)

OnLeagueChanged ==
    /\ phase = "dialog" /\ leagues = "got"
    /\ \E l \in offered \ {league} : league' = l /\ settings' = Change("league", l)
    /\ UNCHANGED <<oauthVars, phase, starts, leagues, offered, loginEnabled,
                   authEnabled, legacyLogin, cookie, login>>

OnRememberMeCheckBoxChanged ==
    /\ phase = "dialog"
    /\ RememberToken(~remember)
    /\ settings' = Change("remember", ~remember)
    /\ UNCHANGED <<phase, starts, leagues, offered, league, loginEnabled,
                   authEnabled, legacyLogin, cookie, login>>

\* Mutant: the dialog is still there after the login.
LingeringAuthenticate ==
    /\ phase # "off" /\ authEnabled
    /\ authEnabled' = FALSE
    /\ RequestAccess
    /\ UNCHANGED <<phase, starts, settings, leagues, offered, league,
                   loginEnabled, legacyLogin, cookie, login>>

OnAuthenticateButtonClicked ==
    /\ phase = "dialog" /\ authEnabled
    /\ authEnabled' = FALSE
    /\ RequestAccess
    /\ UNCHANGED <<phase, starts, settings, leagues, offered, league,
                   loginEnabled, legacyLogin, cookie, login>>

\* No request for another account's token is under way.
Clean == \A p \in posts : p.user \in {token.user, Nobody}

(***************************************************************************)
(* InitLogin: without a league or an account the program ends with the     *)
(* dialog of a fatal error.  On the way to the data the validator of old   *)
(* buyouts may show a dialog.                                              *)
(***************************************************************************)
InitLogin(account, chosen) ==
    phase' \in IF chosen = NoLeague \/ account = Nobody THEN {"fatal"}
               ELSE {"validating", "main"}

\* Mutant: what the settings said before the click is opened.
StaleOnLogin(api, account, chosen) ==
    /\ login' = [api |-> api, account |-> account, league |-> settings[dir].league,
                 clean |-> Clean, pages |-> pages]
    /\ InitLogin(account, settings[dir].league)

\* OnLogin: the data of this account and league are opened.  UpdateAvailable has no
\* slot any more.
OnLogin(api, account, chosen) ==
    /\ login' = [api |-> api, account |-> account, league |-> chosen,
                 clean |-> Clean, pages |-> pages]
    /\ InitLogin(account, chosen)

(***************************************************************************)
(* OnLoginButtonClicked with a tab open and a session id in the edit field *)
(* (which OnSessionIDChanged has saved already): the button stays disabled *)
(* unless the session id is blank.                                         *)
(***************************************************************************)
OnLoginButtonClicked(tab, session) ==
    /\ phase = "dialog" /\ loginEnabled
    /\ settings' = Change("league", league)
    /\ cookie' = IF session # Nobody THEN session ELSE cookie
    /\ \/ tab = "oauth" /\ now < token.access
          /\ OnLogin("OAUTH", token.user, league)
          /\ loginEnabled' = FALSE /\ UNCHANGED legacyLogin
       \/ tab = "oauth" /\ ~(now < token.access)
          /\ loginEnabled' = FALSE /\ UNCHANGED <<legacyLogin, phase, login>>
       \/ tab = "session" /\ session = Nobody
          /\ UNCHANGED <<loginEnabled, legacyLogin, phase, login>>
       \/ tab = "session" /\ session # Nobody
          /\ legacyLogin' = "start"
          /\ loginEnabled' = FALSE /\ UNCHANGED <<phase, login>>
    /\ UNCHANGED <<oauthVars, starts, leagues, offered, league, authEnabled>>

-----------------------------------------------------------------------------
(* The two requests of a login with a session id. *)

OnStartLegacyLogin ==
    /\ phase = "dialog" /\ legacyLogin = "start"
    /\ legacyLogin' \in {"finish", "none"}
    /\ UNCHANGED <<oauthVars, phase, starts, settings, leagues, offered,
                   league, loginEnabled, authEnabled, cookie, login>>

\* The name of the account is cut out of a page, and may be empty.
OnFinishLegacyLogin ==
    /\ phase = "dialog" /\ legacyLogin = "finish"
    /\ legacyLogin' = "none"
    /\ \/ UNCHANGED <<login, phase>>
       \/ \E account \in {cookie, Nobody} :
             OnLogin("LEGACY", account, settings[dir].league)
    /\ UNCHANGED <<oauthVars, starts, settings, leagues, offered, league,
                   loginEnabled, authEnabled, cookie>>

\* The user closes the validator's dialog, and OnLogin goes on.
ValidatorClosed ==
    /\ phase = "validating"
    /\ phase' = "main"
    /\ UNCHANGED <<oauthVars, starts, settings, leagues, offered, league,
                   loginEnabled, authEnabled, legacyLogin, cookie, login>>

-----------------------------------------------------------------------------
(* Slots of the manager, and what the dialog hears of them. *)

QuietDialog == UNCHANGED dialogVars

\* accessGranted: also a token that was refreshed enables the button.
AccessGranted ==
    /\ \E p \in posts : ReceiveToken(p)
    /\ authEnabled' = TRUE
    /\ UNCHANGED <<phase, starts, settings, leagues, offered, league,
                   loginEnabled, legacyLogin, cookie, login>>

\* A page is answered with a code: one that was there at the login may bring in another
\* account.
AuthorizationReceived ==
    /\ \E page \in pages, u \in Users :
          /\ ApprovePage(page, u)
          /\ login' = IF page \in login.pages /\ u # login.account
                      THEN [login EXCEPT !.clean = FALSE] ELSE login
    /\ UNCHANGED <<phase, starts, settings, leagues, offered, league, loginEnabled,
                   authEnabled, legacyLogin, cookie>>

OAuthStep ==
    /\ \/ \E page \in pages : RefusePage(page)
       \/ RefreshTimeout
       \/ \E p \in posts : TokenError(p)
       \/ OAuthTick
    /\ QuietDialog

\* The menu of the main window: a refresh, and another session id.
MainMenuRefresh ==
    /\ phase = "main"
    /\ RequestRefresh
    /\ UNCHANGED <<now, dir, token, remember, refreshTimer, pages, verifier, stored, weak>>
    /\ QuietDialog

SetSessionId ==
    /\ phase = "main"
    /\ cookie' \in Users
    /\ UNCHANGED <<oauthVars, phase, starts, settings, leagues, offered, league,
                   loginEnabled, authEnabled, legacyLogin, login>>

LoginNext ==
    \/ StartProgram \/ ChangeUserDir \/ EndProgram
    \/ OnLeaguesReceived \/ LeaguesRequestError
    \/ OnLeagueChanged \/ OnRememberMeCheckBoxChanged
    \/ OnAuthenticateButtonClicked
    \/ \E tab \in {"oauth", "session"}, u \in Users \cup {Nobody} : OnLoginButtonClicked(tab, u)
    \/ OnStartLegacyLogin \/ OnFinishLegacyLogin \/ ValidatorClosed
    \/ AccessGranted \/ AuthorizationReceived \/ OAuthStep
    \/ MainMenuRefresh \/ SetSessionId

LoginSpec == LoginInit /\ [][LoginNext]_loginVars

-----------------------------------------------------------------------------
(* Properties. *)

LoginTypeOK ==
    /\ OAuthTypeOK
    /\ phase \in {"off", "dialog", "validating", "fatal", "main"}
    /\ \A d \in Dirs : settings[d].league \in Leagues \cup {NoLeague}
    /\ offered \subseteq Leagues /\ league \in offered \cup {NoLeague}
    /\ legacyLogin \in {"none", "start", "finish"} /\ cookie \in Users \cup {Nobody}

(***************************************************************************)
(* What the main window shows and saves is the data of the account whose   *)
(* token its requests carry: the token of a session changes hands only if  *)
(* another account was on its way in when the login was completed, or a    *)
(* page opened before it is answered for another account.  (The code       *)
(* leaves such pages open, against its comment on receiveAuthorization.)   *)
(* In between there may be no token, after a reply that was none.          *)
(***************************************************************************)
TokenIsTheAccounts ==
    (login.api = "OAUTH" /\ login.clean) => token.user \in {login.account, Nobody}

(***************************************************************************)
(* The main window gets an account and the league that the dialog shows,   *)
(* out of those on offer, whatever was changed while the requests of the   *)
(* login were under way.  A login ends in the fatal error of InitLogin     *)
(* only if the list of leagues came empty, or the page with the name of    *)
(* the account without one.                                                *)
(***************************************************************************)
LoginIsWhole ==
    /\ phase \in {"validating", "main"} =>
          /\ login.account \in Users
          /\ login.league = league /\ league \in offered
          /\ login.league = settings[dir].league
    /\ phase = "fatal" =>
          offered = {} \/ (login.api = "LEGACY" /\ login.account = Nobody)

\* The types, and that what a login hands to the main window is whole.
LoginInv == LoginTypeOK /\ LoginIsWhole

(***************************************************************************)
(* The data store holds the token in use if it is to be remembered, also   *)
(* after a refresh, and none if it is not: what comes back at the next     *)
(* start is the last token of that directory or nothing.                   *)
(***************************************************************************)
StoredFollowsToken ==
    phase # "off" =>
        /\ stored[dir] \in {token, NoToken}
        /\ ~remember => stored[dir] = NoToken
        /\ (remember /\ now < token.refresh) => stored[dir] = token
=============================================================================
