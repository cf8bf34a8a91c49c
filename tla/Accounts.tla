------------------------------ MODULE Accounts ------------------------------
(***************************************************************************)
(* Sign-up with a password, sign-in with Google and login: the requests    *)
(* statement by statement over the tables users, password_credentials and  *)
(* auth_identities (apps/api/usecases/auth_usecase.go).  SignUp is one     *)
(* transaction; GoogleLogin is not, so its statements interleave with      *)
(* those of other requests and the request can end after any of them.      *)
(*                                                                         *)
(* A password is named by the SignUp request it was chosen in.             *)
(***************************************************************************)
EXTENDS Naturals

CONSTANTS Emails,    \* email addresses
          Claims,    \* what Google vouches for: pairs of a subject and an email;
                     \* a subject may change its email
          Requests   \* requests, each sent once

ASSUME ClaimsAssumption == \A c \in Claims : c.email \in Emails

VARIABLES users,        \* committed users: [id, email, password]; password is
                        \* history: whose SignUp made the user, or NoPassword
          credentials,  \* committed password_credentials: [user, password]
          identities,   \* committed auth_identities: [sub, user]
          nextId,       \* the sequence behind users.id
          req           \* the progress of each request

vars == <<users, credentials, identities, nextId, req>>

NoEmail == "no email"
NoSub == "no subject"
NoPassword == "no password"
NoUser == 0
Subs == {c.sub : c \in Claims}
Passwords == Requests

\* "userRow": SignUp's transaction holds an uncommitted user.
States == {"new", "signUp", "userRow", "credentialRow",
           "identity", "email", "createUser", "link",
           "tokens", "ok", "refused", "failed"}

Init ==
    /\ users = {} /\ credentials = {} /\ identities = {}
    /\ nextId = 1
    /\ req = [r \in Requests |-> [state |-> "new", kind |-> "none",
                email |-> NoEmail, sub |-> NoSub, user |-> NoUser]]

Begin(r, kind, state, email, sub) ==
    /\ req[r].state = "new"
    /\ req' = [req EXCEPT ![r] = [state |-> state, kind |-> kind,
                 email |-> email, sub |-> sub, user |-> NoUser]]
    /\ UNCHANGED <<users, credentials, identities, nextId>>

Goto(r, state, user) ==
    req' = [req EXCEPT ![r] = [state |-> state, kind |-> req[r].kind,
              email |-> req[r].email, sub |-> req[r].sub, user |-> user]]

\* The unique index on users.email sees committed rows, and an INSERT waits for
\* a transaction that holds an uncommitted row with the same email.
Taken(e) == \E u \in users : u.email = e
Locked(e) == \E r \in Requests :
                req[r].state \in {"userRow", "credentialRow"} /\ req[r].email = e

NewUser(r, password) == [id |-> nextId, email |-> req[r].email, password |-> password]

-----------------------------------------------------------------------------
(* SignUp                                                                  *)

SignUp(r) == \E e \in Emails : Begin(r, "signUp", "signUp", e, NoSub)

\* Mutant: the user is committed before the credential is written.
SignUpUserOwnTransaction(r) ==
    /\ req[r].state = "signUp" /\ ~Locked(req[r].email)
    /\ IF Taken(req[r].email)
       THEN Goto(r, "refused", NoUser) /\ UNCHANGED <<users, nextId>>
       ELSE /\ Goto(r, "userRow", nextId)
            /\ nextId' = nextId + 1
            /\ users' = users \union {NewUser(r, r)}
    /\ UNCHANGED <<credentials, identities>>

\* Mutant: a sign-up with a known email goes on with the account there is.
SignUpUserOrExisting(r) ==
    /\ req[r].state = "signUp" /\ ~Locked(req[r].email)
    /\ IF Taken(req[r].email)
       THEN Goto(r, "tokens", (CHOOSE u \in users : u.email = req[r].email).id)
            /\ UNCHANGED nextId
       ELSE Goto(r, "userRow", nextId) /\ nextId' = nextId + 1
    /\ UNCHANGED <<users, credentials, identities>>

\* CreateUser inside the transaction: 409 if the email is taken.
SignUpUser(r) ==
    /\ req[r].state = "signUp" /\ ~Locked(req[r].email)
    /\ IF Taken(req[r].email)
       THEN Goto(r, "refused", NoUser) /\ UNCHANGED nextId
       ELSE Goto(r, "userRow", nextId) /\ nextId' = nextId + 1
    /\ UNCHANGED <<users, credentials, identities>>

SignUpCredential(r) ==
    /\ req[r].state = "userRow"
    /\ Goto(r, "credentialRow", req[r].user)
    /\ UNCHANGED <<users, credentials, identities, nextId>>

\* The transaction commits both rows.
SignUpCommit(r) ==
    /\ req[r].state = "credentialRow"
    /\ Goto(r, "tokens", req[r].user)
    /\ users' = users \union
         {[id |-> req[r].user, email |-> req[r].email, password |-> r]}
    /\ credentials' = credentials \union {[user |-> req[r].user, password |-> r]}
    /\ UNCHANGED <<identities, nextId>>

-----------------------------------------------------------------------------
(* GoogleLogin: resolveGoogleUser                                          *)

GoogleLogin(r) == \E c \in Claims : Begin(r, "google", "identity", c.email, c.sub)

\* GetAuthIdentity, and GetUserByID of what it finds.
FindIdentity(r) ==
    /\ req[r].state = "identity"
    /\ \/ \E i \in identities : i.sub = req[r].sub /\ Goto(r, "tokens", i.user)
       \/ /\ \A i \in identities : i.sub # req[r].sub
          /\ Goto(r, "email", NoUser)
    /\ UNCHANGED <<users, credentials, identities, nextId>>

\* GetUserByEmail: the Google account is linked to the user with its email.
FindEmail(r) ==
    /\ req[r].state = "email"
    /\ \/ \E u \in users : u.email = req[r].email /\ Goto(r, "link", u.id)
       \/ ~Taken(req[r].email) /\ Goto(r, "createUser", NoUser)
    /\ UNCHANGED <<users, credentials, identities, nextId>>

\* Mutant: no unique index on the email.
CreateUserAnyway(r) ==
    /\ req[r].state = "createUser"
    /\ Goto(r, "link", nextId)
    /\ nextId' = nextId + 1
    /\ users' = users \union {NewUser(r, NoPassword)}
    /\ UNCHANGED <<credentials, identities>>

\* CreateUser: refused if the email has been taken meanwhile.
CreateUser(r) ==
    /\ req[r].state = "createUser" /\ ~Locked(req[r].email)
    /\ IF Taken(req[r].email)
       THEN Goto(r, "failed", NoUser) /\ UNCHANGED <<users, nextId>>
       ELSE /\ Goto(r, "link", nextId)
            /\ nextId' = nextId + 1
            /\ users' = users \union {NewUser(r, NoPassword)}
    /\ UNCHANGED <<credentials, identities>>

\* Mutant: an error of CreateAuthIdentity is taken for "it is there already".
LinkIgnoringDuplicate(r) ==
    /\ req[r].state = "link"
    /\ Goto(r, "tokens", req[r].user)
    /\ identities' = IF \E i \in identities : i.sub = req[r].sub THEN identities
                     ELSE identities \union {[sub |-> req[r].sub, user |-> req[r].user]}
    /\ UNCHANGED <<users, credentials, nextId>>

\* CreateAuthIdentity: the index on provider and subject lets one request win.
Link(r) ==
    /\ req[r].state = "link"
    /\ IF \E i \in identities : i.sub = req[r].sub
       THEN Goto(r, "failed", NoUser) /\ UNCHANGED identities
       ELSE /\ Goto(r, "tokens", req[r].user)
            /\ identities' = identities \union {[sub |-> req[r].sub, user |-> req[r].user]}
    /\ UNCHANGED <<users, credentials, nextId>>

-----------------------------------------------------------------------------
(* Login, tokens and failures                                              *)

\* Login with a password of somebody's: both lookups in one step, since a user
\* and its credential become visible together and neither ever changes.
Login(r) ==
    \E e \in Emails, p \in Passwords :
        /\ req[r].state = "new"
        /\ \/ \E u \in users :
                /\ u.email = e /\ [user |-> u.id, password |-> p] \in credentials
                /\ req' = [req EXCEPT ![r] = [state |-> "tokens", kind |-> "login",
                             email |-> e, sub |-> NoSub, user |-> u.id]]
           \/ /\ \A u \in users : u.email = e =>
                    [user |-> u.id, password |-> p] \notin credentials
              /\ req' = [req EXCEPT ![r] = [state |-> "refused", kind |-> "login",
                           email |-> e, sub |-> NoSub, user |-> NoUser]]
        /\ UNCHANGED <<users, credentials, identities, nextId>>

\* issueTokens and hasProfile succeed: the request is answered with tokens.
IssueTokens(r) ==
    /\ req[r].state = "tokens"
    /\ Goto(r, "ok", req[r].user)
    /\ UNCHANGED <<users, credentials, identities, nextId>>

\* A statement fails or the process ends;
\* what a transaction has not committed is rolled back, the rest stays.
Fail(r) ==
    /\ req[r].state \notin {"new", "ok", "refused", "failed"}
    /\ Goto(r, "failed", NoUser)
    /\ UNCHANGED <<users, credentials, identities, nextId>>

Next == \E r \in Requests :
    \/ SignUp(r) \/ SignUpUser(r) \/ SignUpCredential(r) \/ SignUpCommit(r)
    \/ GoogleLogin(r) \/ FindIdentity(r) \/ FindEmail(r) \/ CreateUser(r) \/ Link(r)
    \/ Login(r) \/ IssueTokens(r) \/ Fail(r)

Spec == Init /\ [][Next]_vars

-----------------------------------------------------------------------------
(* Properties                                                              *)

User == [id : Nat \ {0}, email : Emails, password : Passwords \union {NoPassword}]

\* The types of the state.
TypeOK ==
    /\ users \subseteq User
    /\ credentials \subseteq [user : Nat \ {0}, password : Passwords]
    /\ identities \subseteq [sub : Subs, user : Nat \ {0}]
    /\ nextId \in Nat \ {0}
    /\ req \in [Requests ->
                  [state : States, kind : {"none", "signUp", "google", "login"},
                   email : Emails \union {NoEmail}, sub : Subs \union {NoSub}, user : Nat]]

\* An email has one account: a Google sign-in that found none and creates one some
\* statements later does not make a second beside what has been committed, or is about
\* to be, by a sign-up or another sign-in.
OneAccountPerEmail == \A u, v \in users : u.email = v.email => u = v

\* A sign-up happens entirely or not at all: the account it makes opens with
\* its password, also if the request failed after the commit or in it.
SignUpIsWhole ==
    \A u \in users : u.password # NoPassword =>
        [user |-> u.id, password |-> u.password] \in credentials

\* A Google account signs in to one user only, however its first sign-ins race
\* and whatever email it comes with.
SameGoogleSameUser ==
    \A r, s \in Requests :
        /\ req[r].state = "ok" /\ req[r].kind = "google"
        /\ req[s].state = "ok" /\ req[s].kind = "google"
        /\ req[r].sub = req[s].sub
        => req[r].user = req[s].user

\* A sign-up is answered 201 only to the one whose password the account has.
AnsweredSignUpOwnsAccount ==
    \A r \in Requests : req[r].state = "ok" /\ req[r].kind = "signUp" =>
        \E u \in users : u.id = req[r].user /\ u.email = req[r].email /\ u.password = r
=============================================================================
