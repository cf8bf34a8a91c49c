------------------------------ MODULE Sessions ------------------------------
(***************************************************************************)
(* The session of one user in one browser: the cookies, the proxy every    *)
(* request passes (apps/web/proxy.ts), the rotation of refresh tokens in   *)
(* the API (auth_usecase.go Refresh) and the server actions that log in,   *)
(* log out and create the profile.                                         *)
(*                                                                         *)
(* Several requests are under way at once, each with the cookies as they   *)
(* were when it left, and their answers reach the browser in any order.    *)
(* The proxy waits 5 seconds for a refresh; the API does not know and goes *)
(* on.                                                                     *)
(***************************************************************************)
EXTENDS Naturals

CONSTANTS Requests,   \* requests that may be under way at once
          MaxTokens   \* bound on the refresh tokens ever issued

ASSUME MaxTokensAssumption == MaxTokens \in Nat \ {0}

VARIABLES live,        \* unexpired rows of refresh_tokens
          issued,      \* tokens issued so far; they are named 1, 2, ...
          hasProfile,  \* the user has a profile row
          cookies,     \* the browser's cookies
          req,         \* each request: where the web server is with it
          call,        \* its POST /refresh: where the API is with it
          closed,      \* history: tokens ended by a logout, by expiry or by a
                       \* rotation whose answer will never reach the browser
          stray        \* history: tokens left valid that the browser has not got, or
                       \* has no more: their answer failed or was lost, another answer
                       \* took their place, or the logout that named them failed

vars == <<live, issued, hasProfile, cookies, req, call, closed, stray>>

NoToken == 0
Tokens == 1..MaxTokens
Kinds == {"page", "login", "logout", "createProfile"}
WebStates == {"idle", "refreshing", "authenticated", "anonymous", "answered"}
CallStates == {"none", "find", "create", "delete", "profile", "ok", "error"}
\* What an answer does to the cookies; "forgotten" deletes them like "loggedOut",
\* but the API has failed to revoke the token.
Answers == {"nothing", "tokens", "profile", "loggedOut", "forgotten"}

NoCall == [state |-> "none", token |-> NoToken, new |-> NoToken, has |-> FALSE]
Idle == [web |-> "idle", kind |-> "page", token |-> NoToken,
         new |-> NoToken, has |-> FALSE, answer |-> "nothing"]

\* Logged in, no profile yet.
Init ==
    /\ live = {1} /\ issued = 1
    /\ hasProfile = FALSE
    /\ cookies = [access |-> TRUE, refresh |-> 1, has |-> FALSE]
    /\ req = [r \in Requests |-> Idle]
    /\ call = [r \in Requests |-> NoCall]
    /\ closed = {} /\ stray = {}

Issue ==
    /\ issued < MaxTokens
    /\ issued' = issued + 1

LeaveBehind(tokens) == stray' = stray \union (tokens \intersect live)

-----------------------------------------------------------------------------
(* The browser                                                             *)

\* A request leaves, and the proxy decides by its cookies what to do first.  (Left
\* out: pages and logins that find the access token they need, or no token at
\* all; they touch no cookie.)
Send(r, kind) ==
    /\ req[r].web = "idle" /\ call[r].state = "none"
    /\ kind \in {"page", "login"} => ~cookies.access
    /\ kind # "login" => cookies.access \/ cookies.refresh # NoToken
    /\ LET refresh == ~cookies.access /\ cookies.refresh # NoToken
       IN  /\ req' = [req EXCEPT ![r] = [Idle EXCEPT
                        !.kind = kind, !.token = cookies.refresh,
                        !.web = IF cookies.access THEN "authenticated"
                                ELSE IF refresh THEN "refreshing" ELSE "anonymous"]]
           /\ call' = IF refresh
                      THEN [call EXCEPT ![r].state = "find", ![r].token = cookies.refresh]
                      ELSE call
    /\ UNCHANGED <<live, issued, hasProfile, cookies, closed, stray>>

\* An answer reaches the browser, which applies its Set-Cookie headers.
Receive(r) ==
    /\ req[r].web = "answered"
    /\ cookies' =
         CASE req[r].answer = "tokens" ->
                [access |-> TRUE, refresh |-> req[r].new, has |-> req[r].has]
           [] req[r].answer = "profile" -> [cookies EXCEPT !.has = TRUE]
           [] req[r].answer \in {"loggedOut", "forgotten"} ->
                [cookies EXCEPT !.access = FALSE, !.refresh = NoToken]
           [] OTHER -> cookies
    /\ LeaveBehind(IF req[r].answer = "profile" THEN {} ELSE {cookies.refresh} \ {req[r].token})
    /\ req' = [req EXCEPT ![r] = Idle]
    /\ UNCHANGED <<live, issued, hasProfile, call, closed>>

\* An answer is lost: the user navigated on, or the connection broke.
Lose(r) ==
    /\ req[r].web = "answered"
    /\ closed' = IF req[r].answer = "tokens" THEN closed \union ({req[r].token} \ {NoToken})
                 ELSE closed
    /\ LeaveBehind(IF req[r].answer = "tokens" THEN {req[r].new} ELSE {})
    /\ req' = [req EXCEPT ![r] = Idle]
    /\ UNCHANGED <<live, issued, hasProfile, cookies, call>>

\* access_token lives an hour; a refresh token, cookie and row, 30 days.
ExpireAccess ==
    /\ cookies.access
    /\ cookies' = [cookies EXCEPT !.access = FALSE]
    /\ UNCHANGED <<live, issued, hasProfile, req, call, closed, stray>>

\* No request lasts as long, and of the other rows nobody asks again.
ExpireRefresh ==
    /\ ~cookies.access /\ cookies.refresh # NoToken
    /\ \A r \in Requests : req[r].web = "idle" /\ call[r].state = "none"
    /\ live' = live \ {cookies.refresh}
    /\ closed' = closed \union {cookies.refresh}
    /\ cookies' = [cookies EXCEPT !.refresh = NoToken]
    /\ UNCHANGED <<issued, hasProfile, req, call, stray>>

-----------------------------------------------------------------------------
(* POST /refresh                                                           *)

CallTo(r, state) == call' = [call EXCEPT ![r].state = state]
GaveUp(r) == req[r].web # "refreshing"

RefreshFind(r) ==
    /\ call[r].state = "find"
    /\ CallTo(r, IF call[r].token \in live THEN "create" ELSE "error")
    /\ UNCHANGED <<live, issued, hasProfile, cookies, req, closed, stray>>

RefreshCreate(r) ==
    /\ call[r].state = "create"
    /\ Issue
    /\ live' = live \union {issued'}
    /\ call' = [call EXCEPT ![r].state = "delete", ![r].new = issued']
    /\ UNCHANGED <<hasProfile, cookies, req, closed, stray>>

\* Mutant: rotation revokes every other token of the user.
RefreshDeleteOthers(r) ==
    /\ call[r].state = "delete"
    /\ live' = live \intersect {call[r].new}
    /\ CallTo(r, "profile")
    /\ closed' = IF GaveUp(r) THEN closed \union {call[r].token} ELSE closed
    /\ UNCHANGED <<issued, hasProfile, cookies, req, stray>>

\* Mutant: the old token is not revoked.
RefreshKeepsOld(r) ==
    /\ call[r].state = "delete"
    /\ CallTo(r, "profile")
    /\ closed' = IF GaveUp(r) THEN closed \union {call[r].token} ELSE closed
    /\ UNCHANGED <<live, issued, hasProfile, cookies, req, stray>>

\* The old token is revoked; deleting a row that is gone is no error.
RefreshDelete(r) ==
    /\ call[r].state = "delete"
    /\ live' = live \ {call[r].token}
    /\ CallTo(r, "profile")
    /\ closed' = IF GaveUp(r) THEN closed \union {call[r].token} ELSE closed
    /\ UNCHANGED <<issued, hasProfile, cookies, req, stray>>

RefreshProfile(r) ==
    /\ call[r].state = "profile"
    /\ call' = [call EXCEPT ![r].state = "ok", ![r].has = hasProfile]
    /\ UNCHANGED <<live, issued, hasProfile, cookies, req, closed, stray>>

\* A statement fails, or the process ends; nothing is rolled back.
RefreshFails(r) ==
    /\ call[r].state \in {"find", "create", "delete", "profile"}
    /\ CallTo(r, "error")
    /\ closed' = IF call[r].state = "profile" THEN closed \union {call[r].token} ELSE closed
    /\ LeaveBehind(IF call[r].state \in {"delete", "profile"} THEN {call[r].new} ELSE {})
    /\ UNCHANGED <<live, issued, hasProfile, cookies, req>>

-----------------------------------------------------------------------------
(* The proxy                                                               *)

Refreshed(r) ==
    /\ req[r].web = "refreshing" /\ call[r].state = "ok"
    /\ req' = [req EXCEPT ![r].web = "authenticated",
                 ![r].new = call[r].new, ![r].has = call[r].has]
    /\ call' = [call EXCEPT ![r] = NoCall]
    /\ UNCHANGED <<live, issued, hasProfile, cookies, closed, stray>>

NotRefreshed(r) ==
    /\ req[r].web = "refreshing" /\ call[r].state = "error"
    /\ req' = [req EXCEPT ![r].web = "anonymous"]
    /\ call' = [call EXCEPT ![r] = NoCall]
    /\ UNCHANGED <<live, issued, hasProfile, cookies, closed, stray>>

\* 5 seconds are over: the request goes on without a session, the call too.
Timeout(r) ==
    /\ req[r].web = "refreshing"
    /\ req' = [req EXCEPT ![r].web = "anonymous"]
    /\ closed' = IF call[r].state \in {"profile", "ok"}
                 THEN closed \union {call[r].token} ELSE closed
    /\ UNCHANGED <<live, issued, hasProfile, cookies, call, stray>>

\* The API's answer to a call that the proxy has given up.
CallEnds(r) ==
    /\ GaveUp(r) /\ call[r].state \in {"ok", "error"}
    /\ call' = [call EXCEPT ![r] = NoCall]
    /\ LeaveBehind(IF call[r].state = "ok" THEN {call[r].new} ELSE {})
    /\ UNCHANGED <<live, issued, hasProfile, cookies, req, closed>>

\* An answer that sets no cookie is no event for the browser.
Answer(r, answer) == req' = [req EXCEPT ![r] =
    CASE answer = "nothing" -> Idle
      [] answer \in {"profile", "forgotten"} -> [Idle EXCEPT !.web = "answered", !.answer = answer]
      [] OTHER -> [req[r] EXCEPT !.web = "answered", !.answer = answer]]
\* The proxy's own cookies, if it has refreshed.
ProxyCookies(r) == IF req[r].new = NoToken THEN "nothing" ELSE "tokens"

\* A page is served or redirected; so is a login by someone who is logged in.
Pass(r) ==
    /\ req[r].web = "authenticated" /\ req[r].kind \in {"page", "login"}
    /\ Answer(r, ProxyCookies(r))
    /\ UNCHANGED <<live, issued, hasProfile, cookies, call, closed, stray>>

\* Redirect to /welcome: no cookie is touched.
Redirect(r) ==
    /\ req[r].web = "anonymous" /\ req[r].kind # "login"
    /\ Answer(r, "nothing")
    /\ UNCHANGED <<live, issued, hasProfile, cookies, call, closed, stray>>

-----------------------------------------------------------------------------
(* The server actions                                                      *)

\* login: the API stores a token and looks for the profile.
Login(r) ==
    /\ req[r].web = "anonymous" /\ req[r].kind = "login"
    /\ Issue
    /\ live' = live \union {issued'}
    /\ req' = [req EXCEPT ![r].web = "answered", ![r].answer = "tokens",
                 ![r].token = NoToken, ![r].new = issued', ![r].has = hasProfile]
    /\ UNCHANGED <<hasProfile, cookies, call, closed, stray>>

\* The token may have been stored before the login failed or its answer got lost.
LoginFails(r) ==
    /\ req[r].web = "anonymous" /\ req[r].kind = "login"
    /\ Answer(r, "nothing")
    /\ \/ UNCHANGED <<live, issued, stray>>
       \/ /\ Issue
          /\ live' = live \union {issued'} /\ stray' = stray \union {issued'}
    /\ UNCHANGED <<hasProfile, cookies, call, closed>>

\* The action reads the cookies after the proxy's have been merged into them.
SessionToken(r) == IF req[r].new = NoToken THEN req[r].token ELSE req[r].new

\* Mutant: the action sends the token that came with the request.
LogoutOfTheRequest(r) ==
    /\ req[r].web = "authenticated" /\ req[r].kind = "logout"
    /\ live' = live \ {req[r].token}
    /\ closed' = closed \union {req[r].token, SessionToken(r)}
    /\ Answer(r, "loggedOut")
    /\ UNCHANGED <<issued, hasProfile, cookies, call, stray>>

\* logout: the token's row is deleted, and the cookies whatever the status.
\* Looking a row up and deleting it is one step, since a row never comes back.
Logout(r) ==
    /\ req[r].web = "authenticated" /\ req[r].kind = "logout"
    /\ live' = live \ {SessionToken(r)}
    /\ closed' = closed \union {req[r].token, SessionToken(r)}
    /\ Answer(r, "loggedOut")
    /\ UNCHANGED <<issued, hasProfile, cookies, call, stray>>

\* The API answers 401 or 500, since a statement failed: the cookies go all the same.
LogoutFails(r) ==
    /\ req[r].web = "authenticated" /\ req[r].kind = "logout"
    /\ Answer(r, "forgotten")
    /\ closed' = closed \union ({req[r].token} \ live)
    /\ LeaveBehind({SessionToken(r)})
    /\ UNCHANGED <<live, issued, hasProfile, cookies, call>>

\* No answer of POST /logout arrives, the row deleted or not: the action throws before
\* it deletes cookies, and those of the proxy are set all the same.
LogoutThrows(r) ==
    /\ req[r].web = "authenticated" /\ req[r].kind = "logout"
    /\ Answer(r, ProxyCookies(r))
    /\ \/ UNCHANGED <<live, closed>>
       \/ /\ live' = live \ {SessionToken(r)}
          /\ closed' = closed \union {req[r].token, SessionToken(r)}
    /\ UNCHANGED <<issued, hasProfile, cookies, call, stray>>

\* createMyProfile: the action sets has_profile only if it created the profile.
CreateProfile(r) ==
    /\ req[r].web = "authenticated" /\ req[r].kind = "createProfile"
    /\ hasProfile' = TRUE
    /\ IF req[r].new = NoToken
       THEN Answer(r, IF hasProfile THEN "nothing" ELSE "profile")
       ELSE req' = [req EXCEPT ![r].web = "answered", ![r].answer = "tokens",
                      ![r].has = req[r].has \/ ~hasProfile]
    /\ UNCHANGED <<live, issued, cookies, call, closed, stray>>

\* The row may have been stored before the request failed or its answer got lost.
CreateProfileFails(r) ==
    /\ req[r].web = "authenticated" /\ req[r].kind = "createProfile"
    /\ hasProfile' \in {hasProfile, TRUE}
    /\ Answer(r, ProxyCookies(r))
    /\ UNCHANGED <<live, issued, cookies, call, closed, stray>>

-----------------------------------------------------------------------------

Api(r) ==
    \/ RefreshFind(r) \/ RefreshCreate(r) \/ RefreshDelete(r) \/ RefreshProfile(r)
    \/ RefreshFails(r) \/ CallEnds(r)

Next ==
    \/ \E r \in Requests :
         \/ \E kind \in Kinds : Send(r, kind)
         \/ Receive(r) \/ Lose(r) \/ Api(r)
         \/ Refreshed(r) \/ NotRefreshed(r) \/ Timeout(r) \/ Pass(r) \/ Redirect(r)
         \/ Login(r) \/ LoginFails(r) \/ Logout(r) \/ LogoutFails(r) \/ LogoutThrows(r)
         \/ CreateProfile(r) \/ CreateProfileFails(r)
    \/ ExpireAccess
    \/ ExpireRefresh

Spec == Init /\ [][Next]_vars

-----------------------------------------------------------------------------
(* Properties                                                              *)

\* The types of the state.
TypeOK ==
    /\ live \subseteq Tokens /\ closed \subseteq Tokens /\ stray \subseteq Tokens
    /\ issued \in Tokens
    /\ hasProfile \in BOOLEAN
    /\ cookies \in [access : BOOLEAN, refresh : Tokens \union {NoToken}, has : BOOLEAN]
    /\ req \in [Requests -> [web : WebStates, kind : Kinds, token : Tokens \union {NoToken},
                  new : Tokens \union {NoToken}, has : BOOLEAN, answer : Answers]]
    /\ call \in [Requests -> [state : CallStates, token : Tokens \union {NoToken},
                  new : Tokens \union {NoToken}, has : BOOLEAN]]

\* The answer to r brings, or may still bring, a token in place of t.
Replaces(r, t) ==
    /\ req[r].token = t
    /\ \/ /\ req[r].web = "refreshing" /\ call[r].state \in {"profile", "ok"}
          /\ call[r].new \in live \union closed
       \/ /\ req[r].web \in {"authenticated", "answered"}
          /\ req[r].new \in live \union closed

\* The browser never loses its session to its own parallel requests: unless the
\* token in its cookie has been ended (logout, expiry, lost answer), the token
\* is good, or an answer under way brings a good one.
SessionKept ==
    cookies.refresh \notin live \union closed \union {NoToken} =>
        \E r \in Requests : Replaces(r, cookies.refresh)

\* A logout that the API has answered with 204, or with 401 because the token was
\* gone, has revoked the token the browser sent and the one the proxy got for it on
\* the way, and what has ended once never becomes valid again, whichever refreshes of
\* it are still running.  (A successor that another request gets for the token is
\* another token, and stays: see NoTokenLeftBehind.)
LogoutRevokes ==
    /\ closed \intersect live = {}
    /\ \A r \in Requests :
        req[r].web = "answered" /\ req[r].answer = "loggedOut" =>
            req[r].token \notin live /\ req[r].new \notin live

\* The new tokens in the hands of request r or of its call, given up or not.
UnderWay(r) == {t \in Tokens :
    \/ call[r].state \in {"delete", "profile", "ok"} /\ t = call[r].new
    \/ req[r].web \in {"authenticated", "answered"} /\ t = req[r].new}

\* Rotations and logouts leave no valid token about: whatever runs in parallel, every
\* token that works is the one in the browser, in the hands of a request or call that still
\* runs, or left behind by a failure, a lost answer or an answer that came later.
NoTokenLeftBehind ==
    live \subseteq stray \union {cookies.refresh} \union UNION {UnderWay(r) : r \in Requests}

=============================================================================
