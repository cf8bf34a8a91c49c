--------------------------- MODULE AccountsProofs ---------------------------
(***************************************************************************)
(* Proofs about Accounts, for every set of emails, of Google accounts and  *)
(* of requests, and about Entry, the pages through which people get one,   *)
(* for any number of tabs and of people.                                   *)
(*                                                                         *)
(* None of the properties is inductive: that a sign-up is answered with    *)
(* its own account, say, needs that the row its transaction holds keeps    *)
(* its email and its id to itself until the commit; and that has_profile   *)
(* is of the account that is signed in, that no answer under way, which    *)
(* may set the cookie long after the API looked, says of an account that   *)
(* it has a profile which it has not.                                      *)
(***************************************************************************)
EXTENDS Accounts, Entry, TLAPS

Holding == {"userRow", "credentialRow"}

\* Ids come from the sequence: nobody's is taken again.
FreshIds ==
    /\ \A u \in users : u.id < nextId
    /\ \A r \in Requests : req[r].state \in Holding =>
          /\ req[r].user \in 1..(nextId - 1)
          /\ req[r].email \in Emails
    /\ \A r \in Requests : req[r].state = "link" =>
          req[r].user # NoUser

\* An email that a transaction holds is nobody else's.
EmailsHeldOnce ==
    /\ \A r, s \in Requests :
          req[r].state \in Holding /\ req[s].state \in Holding
            /\ req[r].email = req[s].email => r = s
    /\ \A r \in Requests, u \in users :
          req[r].state \in Holding => u.email # req[r].email

\* A subject is linked once, and GoogleLogin goes on with the user it is linked to.
LinkedOnce ==
    /\ \A i, j \in identities : i.sub = j.sub => i = j
    /\ \A r \in Requests : req[r].kind = "google" /\ req[r].state \in {"tokens", "ok"} =>
          [sub |-> req[r].sub, user |-> req[r].user] \in identities

\* Which request is in which state.
KindOfState ==
    \A r \in Requests :
        /\ req[r].state \in Holding \union {"signUp"} =>
              req[r].kind = "signUp" /\ req[r].email \in Emails
        /\ req[r].state \in {"identity", "email", "createUser", "link"} =>
              req[r].kind = "google" /\ req[r].email \in Emails /\ req[r].sub \in Subs

SignUpsOwnTheirAccount ==
    \A r \in Requests : req[r].kind = "signUp" /\ req[r].state \in {"tokens", "ok"} =>
        [id |-> req[r].user, email |-> req[r].email, password |-> r] \in users

IInv ==
    /\ TypeOK /\ FreshIds /\ EmailsHeldOnce /\ OneAccountPerEmail
    /\ LinkedOnce /\ KindOfState /\ SignUpsOwnTheirAccount /\ SignUpIsWhole

-----------------------------------------------------------------------------

USE ClaimsAssumption

Request == [state : States, kind : {"none", "signUp", "google", "login"},
            email : Emails \union {NoEmail}, sub : Subs \union {NoSub}, user : Nat]

\* What Goto leaves alone and what it sets.
LEMMA GotoSets ==
    ASSUME TypeOK, NEW r \in Requests, NEW state \in States, NEW user \in Nat,
           Goto(r, state, user)
    PROVE  /\ req' \in [Requests -> Request]
           /\ req'[r].state = state /\ req'[r].user = user
           /\ req'[r].kind = req[r].kind /\ req'[r].email = req[r].email
           /\ req'[r].sub = req[r].sub
           /\ \A s \in Requests : s # r => req'[s] = req[s]
  <1>1. req[r] \in Request
    BY DEF TypeOK, Request
  <1>2. QED
    BY <1>1 DEF Goto, TypeOK, Request

\* Where a request may go when no table changes.
MayGoto(r, state, user) ==
    /\ state # "signUp"
    /\ state \in Holding => req[r].state \in Holding /\ user = req[r].user
    /\ state = "link" => user # NoUser
    /\ state \in {"identity", "email", "createUser", "link"} =>
          req[r].kind = "google" /\ req[r].email \in Emails /\ req[r].sub \in Subs
    /\ state \in {"tokens", "ok"} /\ req[r].kind = "google" =>
          [sub |-> req[r].sub, user |-> user] \in identities
    /\ state \in {"tokens", "ok"} /\ req[r].kind = "signUp" =>
          [id |-> user, email |-> req[r].email, password |-> r] \in users

\* Going there preserves the invariant.
LEMMA GotoPreserves ==
    ASSUME IInv, NEW r \in Requests, NEW state \in States, NEW user \in Nat,
           Goto(r, state, user), MayGoto(r, state, user),
           UNCHANGED <<users, credentials, identities, nextId>>
    PROVE  IInv'
  <1>1. TypeOK
    BY DEF IInv
  <1>2. /\ req' \in [Requests -> Request]
        /\ req'[r].state = state /\ req'[r].user = user
        /\ req'[r].kind = req[r].kind /\ req'[r].email = req[r].email
        /\ req'[r].sub = req[r].sub
        /\ \A s \in Requests : s # r => req'[s] = req[s]
    BY <1>1, GotoSets
  <1>3. TypeOK'
    BY <1>1, <1>2 DEF TypeOK, Request
  <1>4. FreshIds'
    BY <1>2 DEF FreshIds, IInv, MayGoto
  <1>5. EmailsHeldOnce'
    BY <1>2 DEF EmailsHeldOnce, IInv, MayGoto
  <1>6. OneAccountPerEmail' /\ SignUpIsWhole'
    BY DEF OneAccountPerEmail, SignUpIsWhole, IInv
  <1>7. LinkedOnce'
    BY <1>2 DEF LinkedOnce, IInv, MayGoto
  <1>8. KindOfState'
    BY <1>2 DEF KindOfState, IInv, MayGoto
  <1>9. SignUpsOwnTheirAccount'
    BY <1>2 DEF SignUpsOwnTheirAccount, IInv, MayGoto
  <1>10. QED
    BY <1>3, <1>4, <1>5, <1>6, <1>7, <1>8, <1>9 DEF IInv

\* A request that begins, or a login that is answered, preserves the invariant.
LEMMA BeginPreserves ==
    ASSUME IInv, NEW r \in Requests, NEW q \in Request,
           req' = [req EXCEPT ![r] = q],
           q.state \in {"signUp", "identity", "tokens", "refused"},
           q.state = "signUp" => q.kind = "signUp" /\ q.email \in Emails,
           q.state = "identity" =>
              q.kind = "google" /\ q.email \in Emails /\ q.sub \in Subs,
           q.state = "tokens" => q.kind = "login",
           UNCHANGED <<users, credentials, identities, nextId>>
    PROVE  IInv'
  <1>1. TypeOK
    BY DEF IInv
  <1>2. /\ req' \in [Requests -> Request]
        /\ req'[r] = q
        /\ \A s \in Requests : s # r => req'[s] = req[s]
    BY <1>1 DEF TypeOK, Request
  <1>3. TypeOK'
    BY <1>1, <1>2 DEF TypeOK, Request
  <1>4. FreshIds'
    BY <1>2 DEF FreshIds, IInv, Holding
  <1>5. EmailsHeldOnce'
    BY <1>2 DEF EmailsHeldOnce, IInv, Holding
  <1>6. OneAccountPerEmail' /\ SignUpIsWhole'
    BY DEF OneAccountPerEmail, SignUpIsWhole, IInv
  <1>7. LinkedOnce'
    BY <1>2 DEF LinkedOnce, IInv
  <1>8. KindOfState'
    BY <1>2 DEF KindOfState, IInv, Holding
  <1>9. SignUpsOwnTheirAccount'
    BY <1>2 DEF SignUpsOwnTheirAccount, IInv
  <1>10. QED
    BY <1>3, <1>4, <1>5, <1>6, <1>7, <1>8, <1>9 DEF IInv

-----------------------------------------------------------------------------
(* The actions that write                                                  *)

\* SignUp takes an id and inserts a row that only its transaction sees.
LEMMA SignUpUserPreserves ==
    ASSUME IInv, NEW r \in Requests, SignUpUser(r)
    PROVE  IInv'
  <1>1. TypeOK /\ req[r].state = "signUp" /\ ~Locked(req[r].email)
    BY DEF IInv, SignUpUser
  <1>2. CASE Taken(req[r].email)
    <2>1. Goto(r, "refused", NoUser)
      BY <1>2 DEF SignUpUser
    <2>2. UNCHANGED <<users, credentials, identities, nextId>>
      BY <1>2 DEF SignUpUser
    <2>3. MayGoto(r, "refused", NoUser)
      BY DEF MayGoto, Holding
    <2>4. "refused" \in States /\ NoUser \in Nat
      BY DEF States, NoUser
    <2>5. QED
      BY <2>1, <2>2, <2>3, <2>4, GotoPreserves
  <1>3. CASE ~Taken(req[r].email)
    <2>1. /\ Goto(r, "userRow", nextId) /\ nextId' = nextId + 1
          /\ UNCHANGED <<users, credentials, identities>>
      BY <1>3 DEF SignUpUser
    <2>2. "userRow" \in States /\ nextId \in Nat \ {0}
      BY <1>1 DEF States, TypeOK
    <2>3. /\ req' \in [Requests -> Request]
          /\ req'[r].state = "userRow" /\ req'[r].user = nextId
          /\ req'[r].kind = req[r].kind /\ req'[r].email = req[r].email
          /\ req'[r].sub = req[r].sub
          /\ \A s \in Requests : s # r => req'[s] = req[s]
      BY <1>1, <2>1, <2>2, GotoSets
    <2>4. req[r].kind = "signUp" /\ req[r].email \in Emails
      BY <1>1 DEF IInv, KindOfState
    <2>5. TypeOK'
      BY <1>1, <2>1, <2>2, <2>3 DEF TypeOK, Request
    <2>6. FreshIds'
      <3>1. \A u \in users : u.id \in Nat /\ u.id < nextId
        BY <1>1 DEF IInv, FreshIds, TypeOK, User
      <3>2. \A u \in users' : u.id < nextId'
        BY <2>1, <2>2, <3>1
      <3>3. \A s \in Requests : req'[s].state \in Holding =>
               req'[s].user \in 1..(nextId' - 1) /\ req'[s].email \in Emails
        BY <2>1, <2>2, <2>3, <2>4 DEF IInv, FreshIds
      <3>4. \A s \in Requests : req'[s].state = "link" => req'[s].user # NoUser
        BY <2>3 DEF IInv, FreshIds
      <3>5. QED
        BY <3>2, <3>3, <3>4 DEF FreshIds
    <2>7. EmailsHeldOnce'
      BY <1>1, <1>3, <2>1, <2>3 DEF EmailsHeldOnce, IInv, Taken, Locked, Holding
    <2>8. OneAccountPerEmail' /\ SignUpIsWhole'
      BY <2>1 DEF OneAccountPerEmail, SignUpIsWhole, IInv
    <2>9. LinkedOnce'
      BY <2>1, <2>3 DEF LinkedOnce, IInv
    <2>10. KindOfState'
      BY <2>3, <2>4 DEF KindOfState, IInv
    <2>11. SignUpsOwnTheirAccount'
      BY <2>1, <2>3 DEF SignUpsOwnTheirAccount, IInv
    <2>12. QED
      BY <2>5, <2>6, <2>7, <2>8, <2>9, <2>10, <2>11 DEF IInv
  <1>4. QED
    BY <1>2, <1>3

\* The commit makes the account and its credential visible together.
LEMMA SignUpCommitPreserves ==
    ASSUME IInv, NEW r \in Requests, SignUpCommit(r)
    PROVE  IInv'
  <1> DEFINE u == [id |-> req[r].user, email |-> req[r].email, password |-> r]
  <1>1. TypeOK /\ req[r].state = "credentialRow" /\ req[r] \in Request
    BY DEF IInv, SignUpCommit, TypeOK, Request
  <1>2. /\ users' = users \union {u}
        /\ credentials' = credentials \union {[user |-> req[r].user, password |-> r]}
        /\ UNCHANGED <<identities, nextId>>
    BY DEF SignUpCommit
  <1>3. /\ req' \in [Requests -> Request]
        /\ req'[r].state = "tokens" /\ req'[r].user = req[r].user
        /\ req'[r].kind = req[r].kind /\ req'[r].email = req[r].email
        /\ req'[r].sub = req[r].sub
        /\ \A s \in Requests : s # r => req'[s] = req[s]
    <2>1. Goto(r, "tokens", req[r].user) /\ "tokens" \in States /\ req[r].user \in Nat
      BY <1>1 DEF SignUpCommit, States, Request
    <2>2. QED
      BY <1>1, <2>1, GotoSets
  <1>4. /\ req[r].kind = "signUp" /\ req[r].email \in Emails
        /\ req[r].user \in 1..(nextId - 1)
    BY <1>1 DEF IInv, KindOfState, FreshIds, Holding
  <1>5. nextId \in Nat \ {0} /\ req[r].user \in Nat \ {0} /\ req[r].user < nextId
    BY <1>1, <1>4 DEF TypeOK
  <1>6. u \in User
    BY <1>4, <1>5 DEF User, Passwords
  <1>7. TypeOK'
    BY <1>1, <1>2, <1>3, <1>5, <1>6 DEF TypeOK, Request, Passwords
  <1>8. FreshIds'
    <2>1. \A v \in users' : v.id < nextId'
      BY <1>2, <1>5 DEF IInv, FreshIds
    <2>2. \A s \in Requests : req'[s].state \in Holding =>
             req'[s].user \in 1..(nextId' - 1) /\ req'[s].email \in Emails
      BY <1>2, <1>3 DEF IInv, FreshIds, Holding
    <2>3. \A s \in Requests : req'[s].state = "link" => req'[s].user # NoUser
      BY <1>3 DEF IInv, FreshIds
    <2>4. QED
      BY <2>1, <2>2, <2>3 DEF FreshIds
  <1>9. EmailsHeldOnce'
    BY <1>1, <1>2, <1>3 DEF IInv, EmailsHeldOnce, Holding
  <1>10. OneAccountPerEmail'
    BY <1>1, <1>2 DEF IInv, EmailsHeldOnce, OneAccountPerEmail, Holding
  <1>11. LinkedOnce'
    BY <1>2, <1>3, <1>4 DEF IInv, LinkedOnce
  <1>12. KindOfState'
    BY <1>3 DEF IInv, KindOfState, Holding
  <1>13. SignUpsOwnTheirAccount'
    BY <1>2, <1>3 DEF IInv, SignUpsOwnTheirAccount
  <1>14. SignUpIsWhole'
    BY <1>2 DEF IInv, SignUpIsWhole
  <1>15. QED
    BY <1>7, <1>8, <1>9, <1>10, <1>11, <1>12, <1>13, <1>14 DEF IInv

\* GoogleLogin's CreateUser commits a user at once, with an email nobody has or holds.
LEMMA CreateUserPreserves ==
    ASSUME IInv, NEW r \in Requests, CreateUser(r)
    PROVE  IInv'
  <1> DEFINE u == NewUser(r, NoPassword)
  <1>1. /\ TypeOK /\ req[r].state = "createUser" /\ ~Locked(req[r].email)
        /\ UNCHANGED <<credentials, identities>>
    BY DEF IInv, CreateUser
  <1>2. CASE Taken(req[r].email)
    <2>1. Goto(r, "failed", NoUser) /\ UNCHANGED <<users, credentials, identities, nextId>>
      BY <1>2 DEF CreateUser
    <2>2. MayGoto(r, "failed", NoUser) /\ "failed" \in States /\ NoUser \in Nat
      BY DEF MayGoto, Holding, States, NoUser
    <2>3. QED
      BY <2>1, <2>2, GotoPreserves
  <1>3. CASE ~Taken(req[r].email)
    <2>1. /\ Goto(r, "link", nextId) /\ nextId' = nextId + 1
          /\ users' = users \union {u}
      BY <1>3 DEF CreateUser
    <2>2. "link" \in States /\ nextId \in Nat \ {0}
      BY <1>1 DEF States, TypeOK
    <2>3. /\ req' \in [Requests -> Request]
          /\ req'[r].state = "link" /\ req'[r].user = nextId
          /\ req'[r].kind = req[r].kind /\ req'[r].email = req[r].email
          /\ req'[r].sub = req[r].sub
          /\ \A s \in Requests : s # r => req'[s] = req[s]
      BY <1>1, <2>1, <2>2, GotoSets
    <2>4. req[r].kind = "google" /\ req[r].email \in Emails /\ req[r].sub \in Subs
      BY <1>1 DEF IInv, KindOfState
    <2>5. u \in User /\ u.id = nextId /\ u.email = req[r].email /\ u.password = NoPassword
      BY <2>2, <2>4 DEF User, NewUser
    <2>6. TypeOK'
      BY <1>1, <2>1, <2>2, <2>3, <2>5 DEF TypeOK, Request
    <2>7. FreshIds'
      <3>1. \A v \in users : v.id \in Nat /\ v.id < nextId
        BY <1>1 DEF IInv, FreshIds, TypeOK, User
      <3>2. \A v \in users' : v.id < nextId'
        BY <2>1, <2>2, <2>5, <3>1
      <3>3. \A s \in Requests : req'[s].state \in Holding =>
               req'[s].user \in 1..(nextId' - 1) /\ req'[s].email \in Emails
        BY <2>1, <2>2, <2>3 DEF IInv, FreshIds, Holding
      <3>4. \A s \in Requests : req'[s].state = "link" => req'[s].user # NoUser
        BY <2>2, <2>3 DEF IInv, FreshIds, NoUser
      <3>5. QED
        BY <3>2, <3>3, <3>4 DEF FreshIds
    <2>8. EmailsHeldOnce'
      BY <1>1, <2>1, <2>3, <2>5 DEF IInv, EmailsHeldOnce, Locked, Holding
    <2>9. OneAccountPerEmail'
      BY <1>3, <2>1, <2>5 DEF IInv, OneAccountPerEmail, Taken
    <2>10. LinkedOnce'
      BY <1>1, <2>3 DEF IInv, LinkedOnce
    <2>11. KindOfState'
      BY <2>3, <2>4 DEF IInv, KindOfState, Holding
    <2>12. SignUpsOwnTheirAccount'
      BY <2>1, <2>3 DEF IInv, SignUpsOwnTheirAccount
    <2>13. SignUpIsWhole'
      BY <1>1, <2>1, <2>5 DEF IInv, SignUpIsWhole
    <2>14. QED
      BY <2>6, <2>7, <2>8, <2>9, <2>10, <2>11, <2>12, <2>13 DEF IInv
  <1>4. QED
    BY <1>2, <1>3

\* Link adds a subject that no identity has.
LEMMA LinkPreserves ==
    ASSUME IInv, NEW r \in Requests, Link(r)
    PROVE  IInv'
  <1> DEFINE link == [sub |-> req[r].sub, user |-> req[r].user]
  <1>1. /\ TypeOK /\ req[r].state = "link" /\ req[r] \in Request
        /\ UNCHANGED <<users, credentials, nextId>>
    BY DEF IInv, Link, TypeOK, Request
  <1>2. CASE \E i \in identities : i.sub = req[r].sub
    <2>1. Goto(r, "failed", NoUser) /\ UNCHANGED <<users, credentials, identities, nextId>>
      BY <1>2 DEF Link
    <2>2. MayGoto(r, "failed", NoUser) /\ "failed" \in States /\ NoUser \in Nat
      BY DEF MayGoto, Holding, States, NoUser
    <2>3. QED
      BY <2>1, <2>2, GotoPreserves
  <1>3. CASE ~ \E i \in identities : i.sub = req[r].sub
    <2>1. Goto(r, "tokens", req[r].user) /\ identities' = identities \union {link}
      BY <1>3 DEF Link
    <2>2. "tokens" \in States /\ req[r].user \in Nat
      BY <1>1 DEF States, Request
    <2>3. /\ req' \in [Requests -> Request]
          /\ req'[r].state = "tokens" /\ req'[r].user = req[r].user
          /\ req'[r].kind = req[r].kind /\ req'[r].email = req[r].email
          /\ req'[r].sub = req[r].sub
          /\ \A s \in Requests : s # r => req'[s] = req[s]
      BY <1>1, <2>1, <2>2, GotoSets
    <2>4. /\ req[r].kind = "google" /\ req[r].email \in Emails /\ req[r].sub \in Subs
          /\ req[r].user # NoUser
      BY <1>1 DEF IInv, KindOfState, FreshIds
    <2>5. TypeOK'
      BY <1>1, <2>1, <2>2, <2>3, <2>4 DEF TypeOK, Request, NoUser
    <2>6. FreshIds'
      BY <1>1, <2>3 DEF IInv, FreshIds, Holding
    <2>7. EmailsHeldOnce'
      BY <1>1, <2>3 DEF IInv, EmailsHeldOnce, Holding
    <2>8. OneAccountPerEmail' /\ SignUpIsWhole'
      BY <1>1 DEF IInv, OneAccountPerEmail, SignUpIsWhole
    <2>9. LinkedOnce'
      BY <1>3, <2>1, <2>3 DEF IInv, LinkedOnce
    <2>10. KindOfState'
      BY <2>3 DEF IInv, KindOfState, Holding
    <2>11. SignUpsOwnTheirAccount'
      BY <1>1, <2>3, <2>4 DEF IInv, SignUpsOwnTheirAccount
    <2>12. QED
      BY <2>5, <2>6, <2>7, <2>8, <2>9, <2>10, <2>11 DEF IInv
  <1>4. QED
    BY <1>2, <1>3

-----------------------------------------------------------------------------
(* The actions that only move their request, and the step                  *)

\* SignUp, GoogleLogin and Login start a request.
LEMMA RequestsBegin ==
    ASSUME IInv, NEW r \in Requests, SignUp(r) \/ GoogleLogin(r) \/ Login(r)
    PROVE  IInv'
  <1>1. CASE SignUp(r)
    <2>1. PICK e \in Emails : Begin(r, "signUp", "signUp", e, NoSub)
      BY <1>1 DEF SignUp
    <2> DEFINE q == [state |-> "signUp", kind |-> "signUp", email |-> e,
                     sub |-> NoSub, user |-> NoUser]
    <2>2. q \in Request
      BY DEF Request, States, NoUser
    <2>3. req' = [req EXCEPT ![r] = q] /\ UNCHANGED <<users, credentials, identities, nextId>>
      BY <2>1 DEF Begin
    <2>4. /\ q.state = "signUp" /\ q.kind = "signUp" /\ q.email \in Emails
      OBVIOUS
    <2> HIDE DEF q
    <2>5. QED
      BY <2>2, <2>3, <2>4, BeginPreserves
  <1>2. CASE GoogleLogin(r)
    <2>1. PICK c \in Claims : Begin(r, "google", "identity", c.email, c.sub)
      BY <1>2 DEF GoogleLogin
    <2> DEFINE q == [state |-> "identity", kind |-> "google", email |-> c.email,
                     sub |-> c.sub, user |-> NoUser]
    <2>2. c.email \in Emails /\ c.sub \in Subs
      BY ClaimsAssumption DEF Subs
    <2>3. q \in Request
      BY <2>2 DEF Request, States, NoUser
    <2>4. req' = [req EXCEPT ![r] = q] /\ UNCHANGED <<users, credentials, identities, nextId>>
      BY <2>1 DEF Begin
    <2>5. /\ q.state = "identity" /\ q.kind = "google"
          /\ q.email \in Emails /\ q.sub \in Subs
      BY <2>2
    <2> HIDE DEF q
    <2>6. QED
      BY <2>3, <2>4, <2>5, BeginPreserves
  <1>3. CASE Login(r)
    <2>1. PICK e \in Emails, state \in {"tokens", "refused"}, user \in Nat :
             /\ req' = [req EXCEPT ![r] = [state |-> state, kind |-> "login",
                          email |-> e, sub |-> NoSub, user |-> user]]
             /\ UNCHANGED <<users, credentials, identities, nextId>>
      <3>1. \A u \in users : u.id \in Nat
        BY DEF IInv, TypeOK, User
      <3>2. NoUser \in Nat
        BY DEF NoUser
      <3>3. QED
        BY <1>3, <3>1, <3>2, Zenon DEF Login
    <2> DEFINE q == [state |-> state, kind |-> "login", email |-> e,
                     sub |-> NoSub, user |-> user]
    <2>2. q \in Request
      BY DEF Request, States
    <2>3. req' = [req EXCEPT ![r] = q] /\ UNCHANGED <<users, credentials, identities, nextId>>
      BY <2>1
    <2>4. q.state \in {"tokens", "refused"} /\ q.kind = "login"
      OBVIOUS
    <2> HIDE DEF q
    <2>5. QED
      BY <2>2, <2>3, <2>4, BeginPreserves
  <1>4. QED
    BY <1>1, <1>2, <1>3

\* The lookups, the credential, the answer and a failure go where they may go.
LEMMA OthersGoOn ==
    ASSUME IInv, NEW r \in Requests,
           \/ SignUpCredential(r) \/ FindIdentity(r) \/ FindEmail(r)
           \/ IssueTokens(r) \/ Fail(r)
    PROVE  IInv'
  <1>1. TypeOK /\ req[r] \in Request
    BY DEF IInv, TypeOK, Request
  <1>2. req[r].user \in Nat /\ NoUser \in Nat
    BY <1>1 DEF Request, NoUser
  <1>3. UNCHANGED <<users, credentials, identities, nextId>>
    BY DEF SignUpCredential, FindIdentity, FindEmail, IssueTokens, Fail
  <1>4. CASE SignUpCredential(r)
    <2>1. Goto(r, "credentialRow", req[r].user) /\ "credentialRow" \in States
      BY <1>4 DEF SignUpCredential, States
    <2>2. MayGoto(r, "credentialRow", req[r].user)
      BY <1>4 DEF SignUpCredential, MayGoto, Holding
    <2>3. QED
      BY <1>2, <1>3, <2>1, <2>2, GotoPreserves
  <1>5. CASE FindIdentity(r)
    <2>1. req[r].state = "identity"
      BY <1>5 DEF FindIdentity
    <2>2. req[r].kind = "google" /\ req[r].email \in Emails /\ req[r].sub \in Subs
      BY <2>1 DEF IInv, KindOfState
    <2>3. CASE \E i \in identities : i.sub = req[r].sub /\ Goto(r, "tokens", i.user)
      <3>1. PICK i \in identities : i.sub = req[r].sub /\ Goto(r, "tokens", i.user)
        BY <2>3
      <3>2. i.user \in Nat /\ "tokens" \in States /\ i = [sub |-> i.sub, user |-> i.user]
        BY <1>1 DEF TypeOK, States
      <3>3. MayGoto(r, "tokens", i.user)
        BY <2>2, <3>1, <3>2 DEF MayGoto, Holding
      <3>4. QED
        BY <1>3, <3>1, <3>2, <3>3, GotoPreserves
    <2>4. CASE Goto(r, "email", NoUser)
      <3>1. MayGoto(r, "email", NoUser) /\ "email" \in States
        BY <2>2 DEF MayGoto, Holding, States
      <3>2. QED
        BY <1>2, <1>3, <2>4, <3>1, GotoPreserves
    <2>5. QED
      BY <1>5, <2>3, <2>4 DEF FindIdentity
  <1>6. CASE FindEmail(r)
    <2>1. req[r].state = "email"
      BY <1>6 DEF FindEmail
    <2>2. req[r].kind = "google" /\ req[r].email \in Emails /\ req[r].sub \in Subs
      BY <2>1 DEF IInv, KindOfState
    <2>3. CASE \E u \in users : u.email = req[r].email /\ Goto(r, "link", u.id)
      <3>1. PICK u \in users : u.email = req[r].email /\ Goto(r, "link", u.id)
        BY <2>3
      <3>2. u.id \in Nat /\ u.id # NoUser /\ "link" \in States
        BY <1>1 DEF TypeOK, User, States, NoUser
      <3>3. MayGoto(r, "link", u.id)
        BY <2>2, <3>2 DEF MayGoto, Holding
      <3>4. QED
        BY <1>3, <3>1, <3>2, <3>3, GotoPreserves
    <2>4. CASE Goto(r, "createUser", NoUser)
      <3>1. MayGoto(r, "createUser", NoUser) /\ "createUser" \in States
        BY <2>2 DEF MayGoto, Holding, States
      <3>2. QED
        BY <1>2, <1>3, <2>4, <3>1, GotoPreserves
    <2>5. QED
      BY <1>6, <2>3, <2>4 DEF FindEmail
  <1>7. CASE IssueTokens(r)
    <2>1. req[r].state = "tokens" /\ Goto(r, "ok", req[r].user) /\ "ok" \in States
      BY <1>7 DEF IssueTokens, States
    <2>2. MayGoto(r, "ok", req[r].user)
      BY <2>1 DEF IInv, LinkedOnce, SignUpsOwnTheirAccount, MayGoto, Holding
    <2>3. QED
      BY <1>2, <1>3, <2>1, <2>2, GotoPreserves
  <1>8. CASE Fail(r)
    <2>1. Goto(r, "failed", NoUser) /\ "failed" \in States
      BY <1>8 DEF Fail, States
    <2>2. MayGoto(r, "failed", NoUser)
      BY DEF MayGoto, Holding
    <2>3. QED
      BY <1>2, <1>3, <2>1, <2>2, GotoPreserves
  <1>9. QED
    BY <1>4, <1>5, <1>6, <1>7, <1>8

\* Every step preserves the invariant.
LEMMA InvStep == IInv /\ [Next]_vars => IInv'
  <1> SUFFICES ASSUME IInv, [Next]_vars PROVE IInv'
    OBVIOUS
  <1>1. CASE Next
    <2>1. PICK r \in Requests :
             \/ SignUp(r) \/ SignUpUser(r) \/ SignUpCredential(r) \/ SignUpCommit(r)
             \/ GoogleLogin(r) \/ FindIdentity(r) \/ FindEmail(r) \/ CreateUser(r)
             \/ Link(r) \/ Login(r) \/ IssueTokens(r) \/ Fail(r)
      BY <1>1, Zenon DEF Next
    <2>2. QED
      BY <2>1, RequestsBegin, OthersGoOn, SignUpUserPreserves, SignUpCommitPreserves,
         CreateUserPreserves, LinkPreserves
  <1>2. CASE UNCHANGED vars
    BY <1>2 DEF vars, IInv, TypeOK, FreshIds, EmailsHeldOnce, OneAccountPerEmail,
       LinkedOnce, KindOfState, SignUpsOwnTheirAccount, SignUpIsWhole, Taken, Locked
  <1>3. QED
    BY <1>1, <1>2

-----------------------------------------------------------------------------
(* The theorems                                                            *)

\* The invariant holds in every reachable state of the three endpoints.
THEOREM InvHolds == Spec => []IInv
  <1>1. Init => IInv
    <2>1. Init => TypeOK
      BY DEF Init, TypeOK, States, NoUser
    <2>2. Init => FreshIds /\ EmailsHeldOnce /\ OneAccountPerEmail /\ SignUpIsWhole
      BY DEF Init, FreshIds, EmailsHeldOnce, OneAccountPerEmail, SignUpIsWhole, Holding
    <2>3. Init => LinkedOnce /\ KindOfState /\ SignUpsOwnTheirAccount
      BY DEF Init, LinkedOnce, KindOfState, SignUpsOwnTheirAccount, Holding
    <2>4. QED
      BY <2>1, <2>2, <2>3 DEF IInv
  <1>2. QED
    BY <1>1, InvStep, PTL DEF Spec

\* Tables and requests keep their types (auth_usecase.go SignUp, GoogleLogin, Login).
THEOREM AccountTypes == Spec => []TypeOK
  <1>1. IInv => TypeOK
    BY DEF IInv
  <1>2. QED
    BY <1>1, InvHolds, PTL

\* No race of SignUp and GoogleLogin makes two users with one email.
THEOREM EmailsHaveOneAccount == Spec => []OneAccountPerEmail
  <1>1. IInv => OneAccountPerEmail
    BY DEF IInv
  <1>2. QED
    BY <1>1, InvHolds, PTL

\* SignUp's transaction writes the user and its credential, or neither.
THEOREM SignUpsAreWhole == Spec => []SignUpIsWhole
  <1>1. IInv => SignUpIsWhole
    BY DEF IInv
  <1>2. QED
    BY <1>1, InvHolds, PTL

\* resolveGoogleUser answers all sign-ins of a Google account with one user.
THEOREM GoogleIdentifiesTheUser == Spec => []SameGoogleSameUser
  <1>1. IInv => SameGoogleSameUser
    BY DEF IInv, LinkedOnce, SameGoogleSameUser
  <1>2. QED
    BY <1>1, InvHolds, PTL

\* A SignUp answered 201 made the account itself, with the password it was sent.
THEOREM SignUpAnswersAreOwners == Spec => []AnsweredSignUpOwnsAccount
  <1>1. IInv => AnsweredSignUpOwnsAccount
    BY DEF IInv, SignUpsOwnTheirAccount, AnsweredSignUpOwnsAccount
  <1>2. QED
    BY <1>1, InvHolds, PTL

-----------------------------------------------------------------------------
(* Entry                                                                   *)

USE UsersAssumption

TabStates == [page : Pages, step : {"first", "consent", "email", "dialog"},
              agreed : BOOLEAN, action : Actions]

Cookies == [user : Users \union {Nobody}, has : BOOLEAN]

\* What a tab may be in: the answer it waits for is for one of the people and, if it says
\* so, for one of the owners of profiles; and that of createMyProfile says so.
Good(s, people, owners) ==
    /\ s \in TabStates /\ WaitsThere(s.page, s.action)
    /\ s.action.user \in people \union {Nobody}
    /\ s.action.has => s.action.user \in owners
    /\ s.action.kind = "create" => s.action.has

\* What a request from a page may do: people and profiles that come to exist, and an
\* answer that is awaited on this page, and true.
MayDo(page, does) ==
    /\ does.users \subseteq Users /\ does.profiles \subseteq registered \union does.users
    /\ does.action \in Actions /\ WaitsThere(page, does.action)
    /\ does.action.user \in registered \union does.users \union {Nobody}
    /\ does.action.has => does.action.user \in profiles \union does.profiles
    /\ does.action.kind = "create" => does.action.has

AnswersAreTrue ==
    /\ cookies.user \in registered \union {Nobody}
    /\ \A t \in Tabs : Good(tab[t], registered, profiles)

EntryInv == EntryTypeOK /\ AnswersAreTrue /\ HasIsOfThisAccount

-----------------------------------------------------------------------------

\* Every step keeps the invariant.
LEMMA EntryStep == EntryInv /\ [EntryNext]_entryVars => EntryInv'
  <1> SUFFICES ASSUME EntryInv, [EntryNext]_entryVars PROVE EntryInv'
    OBVIOUS
  <1> USE DEF TabStates, Cookies
  <1>1. /\ profiles \subseteq registered /\ registered \subseteq Users
        /\ cookies \in Cookies /\ cookies.user \in registered \union {Nobody} /\ crossed \in BOOLEAN
        /\ tab \in [Tabs -> TabStates]
        /\ \A t \in Tabs : Good(tab[t], registered, profiles)
    BY DEF EntryInv, EntryTypeOK, AnswersAreTrue
  \* A step of one tab: what is to be shown of it.
  <1>2. ASSUME NEW t \in Tabs, NEW new, Becomes(t, new), Good(new, registered', profiles'),
               profiles \subseteq profiles', profiles' \subseteq registered',
               registered \subseteq registered', registered' \subseteq Users,
               cookies' \in Cookies, cookies'.user \in registered' \union {Nobody},
               crossed' \in BOOLEAN, HasIsOfThisAccount'
        PROVE  EntryInv'
    <2>1. tab' \in [Tabs -> TabStates] /\ \A s \in Tabs : Good(tab'[s], registered', profiles')
      BY <1>1, <1>2 DEF Becomes, Good
    <2> QED BY <1>2, <2>1 DEF EntryInv, EntryTypeOK, AnswersAreTrue, Good
  \* One that changes nothing else.
  <1>3. ASSUME NEW t \in Tabs, NEW new, OnlyTab(t, new), Good(new, registered, profiles)
        PROVE  EntryInv'
    BY <1>1, <1>2, <1>3 DEF OnlyTab, EntryInv, HasIsOfThisAccount
  <1>4. \A page \in Pages : Good(Loaded(page), registered, profiles)
    BY DEF Good, Loaded, WaitsThere, NoAction, Action, Actions
  <1>5. ASSUME NEW t \in Tabs, NEW waits \in {"page", "nobody"}
        PROVE  LET action == Left(tab[t].action, waits)
               IN  /\ action \in Actions /\ action.waits # "form"
                   /\ action.user \in registered \union {Nobody}
                   /\ action.has => action.user \in profiles
                   /\ action.kind = "create" => action.has
    BY <1>1, <1>5 DEF Good, Left, Unseen, Action, Actions
  <1>6. ASSUME NEW t \in Tabs, NEW page \in Pages \ {"error"}
        PROVE  Good(Show(t, page), registered, profiles)
    BY <1>1, <1>5, <1>6 DEF Good, Show, Loaded, WaitsThere, Pages
  <1>7. ASSUME NEW t \in Tabs, NEW page \in Pages \ {"error"}, Navigate(t, page) PROVE EntryInv'
    BY <1>3, <1>6, <1>7 DEF Navigate
  <1>8. ASSUME NEW t \in Tabs,
               Visit(t) \/ WelcomePage(t) \/ History(t)
        PROVE  EntryInv'
    <2>1. Landings \subseteq Pages
      BY DEF Landings, Landing, Pages, Public
    <2>2. CASE Visit(t)
      BY <1>3, <1>4, <2>1, <2>2 DEF Visit
    <2> QED BY <1>7, <1>8, <2>2 DEF WelcomePage, History, Pages, Public
  <1>9. ASSUME NEW t \in Tabs, NEW step \in {"first", "consent", "email", "dialog"},
               NEW agreed \in BOOLEAN
        PROVE  Good([tab[t] EXCEPT !.step = step, !.agreed = agreed], registered, profiles)
    BY <1>1, <1>9 DEF Good
  <1>10. ASSUME NEW t \in Tabs, NEW step \in {"first", "consent", "email", "dialog"},
                GoTo(t, step)
         PROVE  EntryInv'
    <2>1. [tab[t] EXCEPT !.step = step] = [tab[t] EXCEPT !.step = step, !.agreed = tab[t].agreed]
          /\ tab[t].agreed \in BOOLEAN
      BY <1>1
    <2> QED BY <1>3, <1>9, <1>10, <2>1 DEF GoTo
  <1>11. ASSUME NEW t \in Tabs,
                \/ SignupLanding(t) \/ SignupConsent(t) \/ LoginPage(t)
                \/ SettingsPage(t) \/ LogoutDialog(t)
         PROVE  EntryInv'
    <2>1. CASE OnlyTab(t, [tab[t] EXCEPT !.agreed = ~@])
      <3>1. [tab[t] EXCEPT !.agreed = ~@] =
               [tab[t] EXCEPT !.step = tab[t].step, !.agreed = ~tab[t].agreed]
            /\ tab[t].step \in {"first", "consent", "email", "dialog"}
        BY <1>1
      <3> QED BY <1>3, <1>9, <2>1, <3>1
    <2>2. CASE /\ At(t, "login", "email")
               /\ OnlyTab(t, [tab[t] EXCEPT !.step = "first",
                        !.action = IF @.waits = "form" THEN Left(@, "page") ELSE @])
      <3>1. Good([tab[t] EXCEPT !.step = "first",
                        !.action = IF @.waits = "form" THEN Left(@, "page") ELSE @], registered, profiles)
        BY <1>1, <1>5, <2>2 DEF Good, WaitsThere, At
      <3> QED BY <1>3, <2>2, <3>1
    <2>3. "welcome" \in Pages \ {"error"}
      BY DEF Pages, Public
    <2>4. CASE SignupLanding(t)
      BY <1>7, <1>10, <2>3, <2>4 DEF SignupLanding
    <2>5. CASE SignupConsent(t)
      BY <1>10, <2>1, <2>5 DEF SignupConsent
    <2>6. CASE LoginPage(t)
      BY <1>7, <1>10, <2>2, <2>3, <2>6 DEF LoginPage
    <2>7. CASE SettingsPage(t) \/ LogoutDialog(t)
      BY <1>10, <2>7 DEF SettingsPage, LogoutDialog
    <2> QED BY <1>11, <2>4, <2>5, <2>6, <2>7
  <1>12. ASSUME NEW t \in Tabs PROVE Good([tab[t] EXCEPT !.action = NoAction], registered, profiles)
    <2>1. NoAction \in Actions /\ NoAction.waits = "nobody" /\ ~NoAction.has
          /\ NoAction.user = Nobody /\ NoAction.kind = "none"
      BY DEF NoAction, Action, Actions
    <2> QED BY <1>1, <2>1 DEF Good, WaitsThere
  <1>13. ASSUME NEW t \in Tabs, Keeps(t) \/ Throws(t) PROVE EntryInv'
    <2>1. CASE Keeps(t)
      BY <1>3, <1>12, <2>1 DEF Keeps
    <2>2. CASE OnlyTab(t, Loaded("error"))
      BY <1>3, <1>4, <2>2 DEF Pages
    <2> QED BY <1>13, <2>1, <2>2 DEF Throws
  \* A request: what it does, and the answer that is under way from then on.
  <1>14. ASSUME NEW t \in Tabs, NEW does, Sends(t, does), MayDo(tab[t].page, does)
         PROVE  EntryInv'
    <2>1. Good([tab[t] EXCEPT !.action = does.action], registered \union does.users, profiles \union does.profiles)
      BY <1>1, <1>14 DEF Good, MayDo
    <2>2. HasIsOfThisAccount'
      BY <1>1, <1>14 DEF Sends, EntryInv, HasIsOfThisAccount
    <2> QED BY <1>1, <1>2, <1>14, <2>1, <2>2 DEF Sends, MayDo
  <1>15. ASSUME NEW kind \in Kinds, NEW user \in Users \union {Nobody}, NEW has \in BOOLEAN,
                NEW result \in {"none", "ok", "refused", "failed", "unseen"},
                NEW waits \in {"form", "callback"}, NEW action,
                action = Action(kind, result, user, has, waits)
         PROVE  /\ action \in Actions /\ action.waits = waits /\ action.kind = kind
                /\ action.user = user /\ action.has = has
    BY <1>15 DEF Action, Actions
  <1>16. ASSUME NEW u \in Users, NEW kind \in Kinds \ {"create"}, NEW page \in Pages \ {"error"},
                NEW people \in SUBSET Users, NEW waits \in {"form", "callback"},
                waits = "form" => page = IF kind = "signUp" THEN "signup" ELSE "login",
                u \in registered \union people
         PROVE  MayDo(page, SignsIn(kind, u, waits, people))
    <2>1. PICK has \in BOOLEAN : has = (u \in profiles)
      <3>1. CASE u \in profiles
        <4>1. TRUE = (u \in profiles)
          BY <3>1
        <4> QED BY <4>1
      <3>2. CASE u \notin profiles
        <4>1. FALSE = (u \in profiles)
          BY <3>2
        <4> QED BY <4>1
      <3> QED BY <3>1, <3>2
    <2> DEFINE action == Action(kind, "ok", u, has, waits)
    <2>2. /\ action \in Actions /\ action.waits = waits /\ action.kind = kind
          /\ action.user = u /\ action.has = has
      BY <1>15, <1>16
    <2>3. SignsIn(kind, u, waits, people) = Does(action, people, {})
      BY <2>1, Zenon DEF SignsIn
    <2> HIDE DEF action
    <2>4. Does(action, people, {}).action = action /\ Does(action, people, {}).users = people
          /\ Does(action, people, {}).profiles = {}
      BY DEF Does
    <2>5. has => u \in profiles
      BY <2>1, Zenon
    <2> QED BY <1>16, <2>2, <2>3, <2>4, <2>5 DEF MayDo, WaitsThere
  <1>17. ASSUME NEW u \in Users, NEW kind \in {"signUp", "login"}, NEW page,
                page = IF kind = "signUp" THEN "signup" ELSE "login",
                NEW people \in SUBSET Users
         PROVE  MayDo(page, Refuses(kind)) /\ MayDo(page, Fails(kind, people))
    <2>1. ASSUME NEW result \in {"refused", "failed"}
          PROVE  MayDo(page, Does(Action(kind, result, Nobody, FALSE, "form"), people, {}))
                 /\ MayDo(page, Does(Action(kind, result, Nobody, FALSE, "form"), {}, {}))
      <3> DEFINE action == Action(kind, result, Nobody, FALSE, "form")
      <3>1. /\ action \in Actions /\ action.waits = "form" /\ action.kind = kind
            /\ action.has = FALSE /\ action.user = Nobody
        BY <1>17, <2>1 DEF Action, Actions, Kinds
      <3> HIDE DEF action
      <3>2. MayDo(page, Does(action, people, {})) /\ MayDo(page, Does(action, {}, {}))
        BY <1>17, <3>1 DEF MayDo, WaitsThere, Does
      <3> QED BY <3>2 DEF action
    <2> QED BY <2>1 DEF Refuses, Fails
  <1>18. ASSUME NEW t \in Tabs, SignupEmailForm(t) PROVE EntryInv'
    <2>1. CASE GoTo(t, "consent")
      BY <1>10, <2>1
    <2>2. ASSUME NEW u \in Users, NEW does \in PostSignup(u), Sends(t, does),
                 At(t, "signup", "email")
          PROVE  EntryInv'
      <3>1. tab[t].page = "signup" /\ "signup" \in Pages \ {"error"} /\ "signUp" \in Kinds
        BY <2>2 DEF At, Pages, Public, Kinds
      <3>2. does \in {Refuses("signUp"), Fails("signUp", {}), Fails("signUp", {u}),
                      SignsIn("signUp", u, "form", {u})}
        BY <2>2 DEF PostSignup
      <3>3. MayDo("signup", does)
        BY <1>16, <1>17, <3>1, <3>2
      <3> QED BY <1>14, <2>2, <3>1, <3>3
    <2> QED BY <1>18, <2>1, <2>2 DEF SignupEmailForm
  <1>19. ASSUME NEW t \in Tabs, EmailLoginForm(t) PROVE EntryInv'
    <2>1. PICK u \in Users : \E does \in PostLogin(u) : Sends(t, does)
      BY <1>19 DEF EmailLoginForm
    <2>2. PICK does \in PostLogin(u) : Sends(t, does)
      BY <2>1
    <2>3. tab[t].page = "login" /\ "login" \in Pages \ {"error"} /\ "login" \in Kinds
      BY <1>19 DEF EmailLoginForm, At, Pages, Public, Kinds
    <2>4. does \in {Refuses("login"), Fails("login", {}), SignsIn("login", u, "form", {})}
      BY <2>2 DEF PostLogin
    <2>5. MayDo("login", does)
      BY <1>16, <1>17, <2>2, <2>3, <2>4 DEF PostLogin
    <2> QED BY <1>14, <2>2, <2>3, <2>5
  <1>20. ASSUME NEW page \in Pages \ {"error"}, NEW people \in SUBSET Users,
                NEW profs \in SUBSET (registered \union people)
         PROVE  MayDo(page, Does(Unseen, people, profs))
    <2>1. Unseen \in Actions /\ Unseen.waits = "nobody" /\ Unseen.has = FALSE
          /\ Unseen.user = Nobody /\ Unseen.kind = "none"
      BY DEF Unseen, Action, Actions
    <2> QED BY <1>20, <2>1 DEF MayDo, WaitsThere, Does
  <1>21. ASSUME NEW t \in Tabs, GoogleSignInButton(t) PROVE EntryInv'
    <2>1. PICK u \in Users : \E does \in PostGoogleLogin(u) : Sends(t, does)
      BY <1>21 DEF GoogleSignInButton
    <2>2. PICK does \in PostGoogleLogin(u) : Sends(t, does)
      BY <2>1
    <2>3. tab[t].page \in Pages \ {"error"} /\ "google" \in Kinds
      BY <1>21 DEF GoogleSignInButton, At, Pages, Public, Kinds
    <2>4. does \in {Does(Unseen, {}, {}), Does(Unseen, {u}, {}),
                    SignsIn("google", u, "callback", {u})}
      BY <2>2 DEF PostGoogleLogin
    <2>5. MayDo(tab[t].page, SignsIn("google", u, "callback", {u}))
      BY <1>16, <2>3
    <2>6. MayDo(tab[t].page, does)
      BY <1>20, <2>3, <2>4, <2>5
    <2> QED BY <1>14, <2>2, <2>6
  <1>22. ASSUME NEW t \in Tabs, HandleCreateProfile(t) PROVE EntryInv'
    <2> DEFINE u == cookies.user
    <2>1. PICK does \in PostMyprofile(u) : Sends(t, does)
      BY <1>22 DEF HandleCreateProfile
    <2>2. tab[t].page \in Pages \ {"error"}
      BY <1>22 DEF HandleCreateProfile, At, Pages
    <2>3. CASE does = Does(Unseen, {}, {})
      BY <1>14, <1>20, <2>1, <2>2, <2>3
    <2>4. CASE u \in registered /\ does = Does(Unseen, {}, {u})
      BY <1>14, <1>20, <2>1, <2>2, <2>4
    <2>5. CASE u \in registered
               /\ does = Does(Action("create", "ok", u, TRUE, "callback"), {}, {u})
      <3> DEFINE action == Action("create", "ok", u, TRUE, "callback")
      <3>1. action \in Actions /\ action.waits = "callback" /\ action.user = u
            /\ action.has = TRUE
        BY <1>1, <2>5 DEF Action, Actions, Kinds
      <3> HIDE DEF action
      <3>2. MayDo(tab[t].page, Does(action, {}, {u}))
        BY <1>1, <2>2, <2>5, <3>1 DEF MayDo, WaitsThere, Does
      <3> QED BY <1>14, <2>1, <2>5, <3>2 DEF action
    <2> QED BY <1>1, <2>1, <2>3, <2>4, <2>5 DEF PostMyprofile
  \* An answer that sets cookies.
  <1>23. ASSUME NEW t \in Tabs, NEW page \in Pages \ {"error"}, GoesOn(t, page),
                UNCHANGED <<registered, profiles>>, cookies' \in Cookies,
                cookies'.user \in registered \union {Nobody}, crossed' \in BOOLEAN,
                HasIsOfThisAccount'
         PROVE  EntryInv'
    <2>1. Good(Loaded(page), registered, profiles)
      BY <1>4, <1>23
    <2> QED BY <1>1, <1>2, <1>12, <1>23, <2>1 DEF GoesOn
  <1>24. ASSUME NEW t \in Tabs, SignupAnswer(t) PROVE EntryInv'
    <2>1. CASE Keeps(t)
      BY <1>13, <2>1
    <2>2. CASE /\ SetAuthCookies(tab[t].action.user, FALSE) /\ GoesOn(t, "form")
               /\ UNCHANGED <<registered, profiles>>
      <3>1. /\ cookies' = [user |-> tab[t].action.user, has |-> FALSE] /\ crossed' = FALSE
            /\ tab[t].action.user \in registered \union {Nobody}
        BY <1>1, <2>2 DEF SetAuthCookies, Good
      <3>2. HasIsOfThisAccount'
        BY <3>1 DEF HasIsOfThisAccount
      <3> QED BY <1>1, <1>23, <2>2, <3>1, <3>2 DEF Pages
    <2> QED BY <1>24, <2>1, <2>2 DEF SignupAnswer
  <1>25. ASSUME NEW t \in Tabs, NEW kind, SignedIn(t, kind) PROVE EntryInv'
    <2>1. /\ cookies' = [user |-> tab[t].action.user, has |-> tab[t].action.has]
          /\ crossed' = FALSE /\ UNCHANGED <<registered, profiles>>
          /\ tab[t].action.user \in registered \union {Nobody}
          /\ tab[t].action \in Actions
          /\ tab[t].action.has => tab[t].action.user \in profiles
      BY <1>1, <1>25 DEF SignedIn, SetAuthCookies, Good
    <2>2. HasIsOfThisAccount'
      BY <2>1 DEF HasIsOfThisAccount
    <2>3. Start(tab[t].action.has) \in Pages \ {"error"}
      BY DEF Start, Pages
    <2> QED BY <1>1, <1>23, <1>25, <2>1, <2>2, <2>3 DEF SignedIn, Actions
  <1>26. ASSUME NEW t \in Tabs, CreateMyProfileAnswer(t) PROVE EntryInv'
    <2>1. PICK a \in Authenticated : GoesOn(t, Landing("app", a))
      BY <1>26 DEF CreateMyProfileAnswer
    <2>2. Landing("app", a) \in Pages \ {"error"}
      BY DEF Landing, Pages, Public
    <2>3. /\ cookies' = [cookies EXCEPT !.has = TRUE] /\ UNCHANGED <<registered, profiles>>
          /\ crossed' = (crossed \/ cookies.user # tab[t].action.user)
          /\ tab[t].action.kind = "create" /\ tab[t].action.result = "ok"
      BY <1>26 DEF CreateMyProfileAnswer, Answered
    <2>4. tab[t].action.user \in profiles
      BY <1>1, <2>3 DEF Good
    <2>5. cookies' \in Cookies /\ cookies'.user = cookies.user /\ crossed' \in BOOLEAN
      BY <1>1, <2>3
    <2>6. HasIsOfThisAccount'
      BY <2>3, <2>4, <2>5 DEF HasIsOfThisAccount
    <2> QED BY <1>1, <1>23, <2>1, <2>2, <2>3, <2>5, <2>6
  \* Steps that end a session or renew it.
  <1>27. ASSUME UNCHANGED <<registered, profiles, tab>>, cookies' \in Cookies,
                cookies'.user \in registered \union {Nobody}, crossed' \in BOOLEAN,
                HasIsOfThisAccount'
         PROVE  EntryInv'
    BY <1>1, <1>27 DEF EntryInv, EntryTypeOK, AnswersAreTrue, Good
  <1>28. CASE Refresh
    <2> DEFINE owner == cookies.user \in profiles
    <2>1. cookies' = [cookies EXCEPT !.has = owner]
      BY <1>28 DEF Refresh
    <2>2. CASE owner
      <3>1. owner = TRUE
        BY <2>2
      <3>2. cookies' = [cookies EXCEPT !.has = TRUE]
        BY <2>1, <3>1
      <3> QED BY <1>1, <1>27, <1>28, <2>2, <3>2 DEF Refresh, HasIsOfThisAccount
    <2>3. CASE ~owner
      <3>1. owner = FALSE
        BY <2>3
      <3>2. cookies' = [cookies EXCEPT !.has = FALSE]
        BY <2>1, <3>1
      <3> QED BY <1>1, <1>27, <1>28, <3>2 DEF Refresh, HasIsOfThisAccount
    <2> QED BY <2>2, <2>3
  <1>29. CASE SessionEnds
    BY <1>1, <1>27, <1>29 DEF SessionEnds, HasIsOfThisAccount
  <1>30. ASSUME NEW t \in Tabs, Logout(t) PROVE EntryInv'
    <2>1. CASE OnlyTab(t, Loaded("error"))
      BY <1>3, <1>4, <2>1 DEF Pages
    <2>2. CASE /\ cookies' = [cookies EXCEPT !.user = Nobody]
               /\ Becomes(t, Loaded("login")) /\ UNCHANGED <<registered, profiles, crossed>>
      <3>1. Good(Loaded("login"), registered, profiles)
        BY <1>4 DEF Pages, Public
      <3>2. cookies' \in Cookies /\ cookies'.user = Nobody
        BY <1>1, <2>2
      <3>3. HasIsOfThisAccount'
        BY <3>2 DEF HasIsOfThisAccount
      <3> QED BY <1>1, <1>2, <2>2, <3>1, <3>2, <3>3
    <2> QED BY <1>30, <2>1, <2>2 DEF Logout
  <1>31. CASE UNCHANGED entryVars
    BY <1>1, <1>27, <1>31 DEF entryVars, EntryInv, HasIsOfThisAccount
  <1> QED
    BY <1>8, <1>11, <1>13, <1>18, <1>19, <1>21, <1>22, <1>24, <1>25, <1>26, <1>28, <1>29,
       <1>30, <1>31 DEF EntryNext, Answers, LoginAnswer, GoogleLoginAnswer

-----------------------------------------------------------------------------

\* The invariant holds in every reachable state.
THEOREM EntryInvHolds == EntrySpec => []EntryInv
  <1>1. EntryInit => EntryInv
    <2> SUFFICES ASSUME EntryInit PROVE EntryInv
      OBVIOUS
    <2>1. NoAction \in Actions /\ NoAction.waits = "nobody" /\ NoAction.has = FALSE
          /\ NoAction.user = Nobody /\ NoAction.kind = "none"
      BY DEF NoAction, Action, Actions
    <2>2. Good(Loaded("welcome"), registered, profiles)
      BY <2>1 DEF Good, Loaded, WaitsThere, TabStates, Pages, Public
    <2>3. /\ tab = [t \in Tabs |-> Loaded("welcome")]
          /\ registered = {} /\ profiles = {} /\ crossed = FALSE
          /\ cookies = [user |-> Nobody, has |-> FALSE]
      BY DEF EntryInit
    <2>4. EntryTypeOK
      BY <2>2, <2>3 DEF EntryTypeOK, Good, TabStates
    <2> QED BY <2>2, <2>3, <2>4 DEF EntryInv, AnswersAreTrue, HasIsOfThisAccount
  <1>2. QED
    BY <1>1, EntryStep, PTL DEF EntrySpec

\* The state keeps its types, and the answer that a form waits for finds it there.
THEOREM EntryTypes == EntrySpec => []EntryTypeOK
  <1>1. EntryInv => EntryTypeOK
    BY DEF EntryInv
  <1>2. QED
    BY <1>1, EntryInvHolds, PTL

\* actions/auth.ts: the cookie has_profile is not one that another account left.
THEOREM HasProfileIsOfThisAccount == EntrySpec => []HasIsOfThisAccount
  <1>1. EntryInv => HasIsOfThisAccount
    BY DEF EntryInv
  <1>2. QED
    BY <1>1, EntryInvHolds, PTL
=============================================================================
