------------------------------- MODULE Entry -------------------------------
(***************************************************************************)
(* The way in and out of the application, in the tabs of one browser: the  *)
(* pages /welcome, /signup and /login with their forms, Google's button    *)
(* and the dialog to log out (app/, components/signup/, components/login/, *)
(* components/settings/), the server actions behind them (actions/auth.ts) *)
(* and the proxy's redirects (proxy.ts).                                   *)
(*                                                                         *)
(* The tabs share the cookies: any of them can change the account that the *)
(* others are signed in with.  A request is processed by the API in one    *)
(* step, when it is sent, and answered later or never; its statements are  *)
(* in Accounts, tokens and their rotation in Sessions, and the form of the *)
(* first profile in SignupProfile.                                         *)
(***************************************************************************)
CONSTANTS Tabs,  \* tabs of the browser
          Users  \* the people that use it; each has an email address and a Google account

VARIABLES registered, \* whose account exists
          profiles,   \* who has a profile
          cookies,    \* whose session the browser has, and cookie has_profile
          tab,        \* each tab: its page, the step there, the server action under way
          crossed     \* history: has_profile was set by an answer about somebody else's
                      \* profile, and not replaced since

entryVars == <<registered, profiles, cookies, tab, crossed>>

Nobody == "nobody"
ASSUME UsersAssumption == Nobody \notin Users

\* PUBLIC_PATHS, and the others: the form of the first profile and the application.
Public == {"welcome", "signup", "login"}
Pages == Public \union {"form", "app", "error"}

Kinds == {"signUp", "login", "google", "create"}

\* Of a server action: what it is, what its answer will be, and who still awaits it in
\* the tab: the form that sent it, no more than its page, a callback that outlives the
\* page, or nobody.
Action(kind, result, user, has, waits) ==
    [kind |-> kind, result |-> result, user |-> user, has |-> has, waits |-> waits]
NoAction == Action("none", "none", Nobody, FALSE, "nobody")

\* One that changes no cookie and whose end no form shows (a callback may, in a toast).
Unseen == Action("none", "unseen", Nobody, FALSE, "nobody")

\* (Of the fields of the forms only the two boxes of the consent are kept: whether both
\* are ticked.)
Loaded(page) == [page |-> page, step |-> "first", agreed |-> FALSE, action |-> NoAction]

EntryInit ==
    /\ registered = {} /\ profiles = {}
    /\ cookies = [user |-> Nobody, has |-> FALSE]
    /\ tab = [t \in Tabs |-> Loaded("welcome")]
    /\ crossed = FALSE

Becomes(t, new) == tab' = [tab EXCEPT ![t] = new]
OnlyTab(t, new) == Becomes(t, new) /\ UNCHANGED <<registered, profiles, cookies, crossed>>

-----------------------------------------------------------------------------
(* The proxy, and the ways to a page                                       *)

\* A session does not pass if the access token is gone and cannot be refreshed.
Authenticated == IF cookies.user = Nobody THEN {FALSE} ELSE BOOLEAN

\* Where the proxy lets a request for a page end.
Landing(page, authenticated) ==
    CASE page \in Public /\ authenticated -> IF cookies.has THEN "app" ELSE "form"
      [] page \notin Public /\ ~authenticated -> "welcome"
      [] OTHER -> page

Landings == {Landing(page, a) : page \in Pages \ {"error"}, a \in Authenticated}

\* An address is typed or the page reloaded: nobody waits in the new document.
Visit(t) == \E page \in Landings : OnlyTab(t, Loaded(page))

\* The form an action was sent from is gone.
Left(action, waits) ==
    CASE action.result \in {"refused", "failed"} -> Unseen
      [] action.waits \in {"form", "page"} -> [action EXCEPT !.waits = waits]
      [] OTHER -> action

\* Another page in the same document: what is under way goes on.
Show(t, page) == [Loaded(page) EXCEPT !.action = Left(tab[t].action, "nobody")]

\* A link, and the browser's history, of pages that are shown without asking the proxy.
Navigate(t, page) == tab[t].page # "error" /\ OnlyTab(t, Show(t, page))

WelcomePage(t) ==
    tab[t].page = "welcome" /\ \E page \in {"signup", "login"} : Navigate(t, page)

History(t) == \E page \in Pages \ {"error", tab[t].page} : Navigate(t, page)

\* Mutant: the proxy's answer sets the tokens only.
RefreshTokens ==
    /\ cookies.user # Nobody
    /\ UNCHANGED entryVars

\* Without an access token a request passes the proxy with new tokens, and has_profile.
Refresh ==
    /\ cookies.user # Nobody
    /\ cookies' = [cookies EXCEPT !.has = cookies.user \in profiles]
    /\ crossed' = FALSE
    /\ UNCHANGED <<registered, profiles, tab>>

\* 30 days without a refresh.
SessionEnds ==
    /\ cookies.user # Nobody
    /\ cookies' = [cookies EXCEPT !.user = Nobody]
    /\ UNCHANGED <<registered, profiles, tab, crossed>>

-----------------------------------------------------------------------------
(* The API's answers, and what has been done by then.  Whatever has been   *)
(* done, the answer may be lost or a 500: "failed".                        *)

Does(action, newUsers, newProfiles) ==
    [action |-> action, users |-> newUsers, profiles |-> newProfiles]

Refuses(kind) == Does(Action(kind, "refused", Nobody, FALSE, "form"), {}, {})
Fails(kind, newUsers) == Does(Action(kind, "failed", Nobody, FALSE, "form"), newUsers, {})
SignsIn(kind, u, waits, newUsers) ==
    Does(Action(kind, "ok", u, u \in profiles, waits), newUsers, {})

\* 201, 400, or 409 for an address that has an account.
PostSignup(u) ==
    {Refuses("signUp"), Fails("signUp", {})}
    \union IF u \in registered THEN {}
           ELSE {SignsIn("signUp", u, "form", {u}), Fails("signUp", {u})}

\* 200, 400, or 401 without the account and its password.
PostLogin(u) ==
    {Refuses("login"), Fails("login", {})}
    \union IF u \in registered THEN {SignsIn("login", u, "form", {})} ELSE {}

\* 200 or 400; an account is made of the Google account's address if there is none.
PostGoogleLogin(u) ==
    {Does(Unseen, {}, {}), Does(Unseen, {u}, {}), SignsIn("google", u, "callback", {u})}

\* 201 for the account whose token the request has; 400, 401, and 409 for a second profile.
PostMyprofile(u) ==
    {Does(Unseen, {}, {})}
    \union IF u \in profiles \union {Nobody} THEN {}
           ELSE {Does(Action("create", "ok", u, TRUE, "callback"), {}, {u}),
                 Does(Unseen, {}, {u})}

\* The actions of a tab are sent one after the other.  (On a public page the proxy
\* redirects an action that comes with a session.  It may fail then; whether it runs
\* on the page it is redirected to is left open.)
Sends(t, does) ==
    /\ tab[t].action = NoAction
    /\ Becomes(t, [tab[t] EXCEPT !.action = does.action])
    /\ registered' = registered \union does.users
    /\ profiles' = profiles \union does.profiles
    /\ UNCHANGED <<cookies, crossed>>

-----------------------------------------------------------------------------
(* /signup and /login                                                      *)

At(t, page, step) == tab[t].page = page /\ tab[t].step = step
GoTo(t, step) == OnlyTab(t, [tab[t] EXCEPT !.step = step])

\* The steps of SignupPage, which keeps the action's state: landing, consent and form.
SignupLanding(t) ==
    /\ At(t, "signup", "first")
    /\ GoTo(t, "consent") \/ Navigate(t, "welcome")

SignupConsent(t) ==
    /\ At(t, "signup", "consent")
    /\ \/ OnlyTab(t, [tab[t] EXCEPT !.agreed = ~@])
       \/ GoTo(t, "first")
       \/ tab[t].agreed /\ GoTo(t, "email")

\* Also of the boxes, whose errors no step shows; and of an address and a password.
AuthSchema(t) == tab[t].agreed

SignupEmailForm(t) ==
    /\ At(t, "signup", "email")
    /\ \/ GoTo(t, "consent")
       \/ AuthSchema(t) /\ \E u \in Users : \E does \in PostSignup(u) : Sends(t, does)

\* LoginPage's form goes with its step, and the state of the action with the form.
LoginPage(t) ==
    \/ At(t, "login", "first") /\ (GoTo(t, "email") \/ Navigate(t, "welcome"))
    \/ /\ At(t, "login", "email")
       /\ OnlyTab(t, [tab[t] EXCEPT !.step = "first",
                        !.action = IF @.waits = "form" THEN Left(@, "page") ELSE @])

EmailLoginForm(t) ==
    /\ At(t, "login", "email")
    /\ \E u \in Users : \E does \in PostLogin(u) : Sends(t, does)

\* Google's popup, and the request its callback makes: they outlive the page.
GoogleSignInButton(t) ==
    /\ At(t, "signup", "first") \/ At(t, "login", "first")
    /\ \E u \in Users : \E does \in PostGoogleLogin(u) : Sends(t, does)

HandleCreateProfile(t) ==
    /\ At(t, "form", "first")
    /\ \E does \in PostMyprofile(cookies.user) : Sends(t, does)

-----------------------------------------------------------------------------
(* The answers                                                             *)

Answered(t, kind, result) == tab[t].action.kind = kind /\ tab[t].action.result = result

SetAuthCookies(user, has) == cookies' = [user |-> user, has |-> has] /\ crossed' = FALSE

Keeps(t) == OnlyTab(t, [tab[t] EXCEPT !.action = NoAction])

\* Who waits for the answer goes on to the next page; the proxy sees the new cookies.
GoesOn(t, page) ==
    Becomes(t, IF tab[t].action.waits = "nobody" THEN [tab[t] EXCEPT !.action = NoAction]
               ELSE Loaded(page))

Start(has) == IF has THEN "app" ELSE "form"

\* Mutant: the cookie has_profile of who was here before stays.
SignupKeepingHas(t) ==
    \/ Answered(t, "signUp", "refused") /\ Keeps(t)
    \/ /\ Answered(t, "signUp", "ok")
       /\ SetAuthCookies(tab[t].action.user, cookies.has) /\ GoesOn(t, "form")
       /\ UNCHANGED <<registered, profiles>>

\* Nobody has a profile right after signing up.
SignupAnswer(t) ==
    \/ Answered(t, "signUp", "refused") /\ Keeps(t)
    \/ /\ Answered(t, "signUp", "ok")
       /\ SetAuthCookies(tab[t].action.user, FALSE) /\ GoesOn(t, "form")
       /\ UNCHANGED <<registered, profiles>>

SignedIn(t, kind) ==
    /\ Answered(t, kind, "ok")
    /\ SetAuthCookies(tab[t].action.user, tab[t].action.has)
    /\ GoesOn(t, Start(tab[t].action.has))
    /\ UNCHANGED <<registered, profiles>>

LoginAnswer(t) == SignedIn(t, "login") \/ (Answered(t, "login", "refused") /\ Keeps(t))

GoogleLoginAnswer(t) == SignedIn(t, "google")

\* The answer 201 sets has_profile, for whomever the browser is signed in as by now, and
\* the page asked for next is that account's, or /welcome.
CreateMyProfileAnswer(t) ==
    /\ Answered(t, "create", "ok")
    /\ cookies' = [cookies EXCEPT !.has = TRUE]
    /\ crossed' = (crossed \/ cookies.user # tab[t].action.user)
    /\ \E a \in Authenticated : GoesOn(t, Landing("app", a))
    /\ UNCHANGED <<registered, profiles>>

\* Of a 500 or a lost answer no action makes a result.  If it throws where a form awaits
\* it, the error page comes instead of the form; elsewhere the action just ends.
Throws(t) ==
    /\ tab[t].action # NoAction
    /\ IF tab[t].action.waits = "form" THEN OnlyTab(t, Loaded("error")) ELSE Keeps(t)

-----------------------------------------------------------------------------
(* Logging out                                                             *)

SettingsPage(t) == At(t, "app", "first") /\ GoTo(t, "dialog")
LogoutDialog(t) == At(t, "app", "dialog") /\ GoTo(t, "first")

\* logout deletes the cookies of the tokens, not has_profile.  If the API is not reached
\* it throws, and without a session the proxy does not let it run: the error page.
Logout(t) ==
    /\ At(t, "app", "dialog") /\ tab[t].action = NoAction
    /\ \/ /\ cookies.user # Nobody
          /\ cookies' = [cookies EXCEPT !.user = Nobody]
          /\ Becomes(t, Loaded("login"))
          /\ UNCHANGED <<registered, profiles, crossed>>
       \/ OnlyTab(t, Loaded("error"))

-----------------------------------------------------------------------------

Answers(t) ==
    \/ SignupAnswer(t) \/ LoginAnswer(t) \/ GoogleLoginAnswer(t)
    \/ CreateMyProfileAnswer(t) \/ Throws(t)

EntryNext ==
    \/ \E t \in Tabs :
         \/ Visit(t) \/ WelcomePage(t) \/ History(t)
         \/ SignupLanding(t) \/ SignupConsent(t) \/ SignupEmailForm(t)
         \/ LoginPage(t) \/ EmailLoginForm(t) \/ GoogleSignInButton(t)
         \/ HandleCreateProfile(t)
         \/ Answers(t)
         \/ SettingsPage(t) \/ LogoutDialog(t) \/ Logout(t)
    \/ Refresh \/ SessionEnds

EntrySpec == EntryInit /\ [][EntryNext]_entryVars

\* The access token runs out every hour, and whoever stays signed in comes back then.
Fairness == WF_entryVars(Refresh)

FairSpec == EntrySpec /\ Fairness

-----------------------------------------------------------------------------
(* Properties                                                              *)

Actions == [kind : Kinds \union {"none"},
            result : {"none", "ok", "refused", "failed", "unseen"},
            user : Users \union {Nobody}, has : BOOLEAN,
            waits : {"form", "page", "callback", "nobody"}]

\* A form that waits is on the page; and nothing goes on behind the error page.
WaitsThere(page, action) ==
    /\ action.waits = "form" => page = IF action.kind = "signUp" THEN "signup" ELSE "login"
    /\ page = "error" => action = NoAction

\* The types of the state; who waits is still there.
EntryTypeOK ==
    /\ profiles \subseteq registered /\ registered \subseteq Users
    /\ cookies \in [user : Users \union {Nobody}, has : BOOLEAN]
    /\ tab \in [Tabs -> [page : Pages, step : {"first", "consent", "email", "dialog"},
                         agreed : BOOLEAN, action : Actions]]
    /\ crossed \in BOOLEAN
    /\ \A t \in Tabs : WaitsThere(tab[t].page, tab[t].action)

\* Who has no profile is not let past its form by a cookie of somebody else's, or of an
\* earlier session: however the tabs log in, sign up and log out, has_profile is not set
\* for an account without a profile, unless the answer to another account's form set it.
HasIsOfThisAccount ==
    cookies.user \notin profiles \union {Nobody} /\ ~crossed => ~cookies.has

\* A cookie that does not know of the profile (the answer 201 was lost, or the profile was
\* made on another device, or the cookie was another account's) does not stay so.
ProfileCookieCatchesUp ==
    <>[](cookies.user \in profiles) => <>[]cookies.has
=============================================================================
