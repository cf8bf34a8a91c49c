--------------------------- MODULE SessionsProofs ---------------------------
(***************************************************************************)
(* Proofs about Sessions, for any number of requests and of tokens.        *)
(*                                                                         *)
(* None of the properties is inductive.  What makes them hold is that a    *)
(* token just created is in one place only: with the call that created it, *)
(* then with the answer of its request, and only then in the cookies.      *)
(* Until it is there no request can send it, so that no other refresh, no  *)
(* logout and no expiry can revoke it (NewTokensApart).                    *)
(***************************************************************************)
EXTENDS Sessions, TLAPS

USE MaxTokensAssumption DEF NoToken

Known == 1..issued

\* The new token that the call of r has created, and the one its answer brings,
\* unless a logout whose answer got lost has revoked it.
InCall(r) == IF call[r].state \in {"delete", "profile", "ok"} THEN {call[r].new} ELSE {}
InAnswer(r) ==
    IF req[r].web \in {"authenticated", "answered"} /\ req[r].answer # "loggedOut"
    THEN {req[r].new} \ ({NoToken} \union closed) ELSE {}
Held(r) == InCall(r) \union InAnswer(r)

\* The tokens that r and its call look up or revoke.
Named(r) == {req[r].token, call[r].token} \ {NoToken}

\* What the progress of r says of its tokens.
Sound(r) ==
    /\ Named(r) \subseteq Known /\ Held(r) \subseteq live /\ InCall(r) \intersect InAnswer(r) = {}
    /\ call[r].state \in {"profile", "ok"} => call[r].token \notin live
    /\ call[r].state # "none" => call[r].token # NoToken
    /\ req[r].web = "refreshing" => call[r].state # "none" /\ call[r].token = req[r].token
    /\ req[r].web \in {"idle", "refreshing", "anonymous"} => req[r].new = NoToken
    /\ req[r].web = "answered" <=> req[r].answer # "nothing"
    /\ req[r].new # NoToken => req[r].new \in Known /\ req[r].token \notin live
    /\ req[r].web = "authenticated" =>
         req[r].token # NoToken /\ req[r].new \in live \union {NoToken}
    /\ req[r].answer = "tokens" => req[r].new \in live \union closed
    /\ req[r].answer = "loggedOut" => req[r].token \in closed \ live /\ req[r].new \notin live
    /\ req[r].answer \in {"profile", "forgotten"} => req[r].new = NoToken /\ req[r].token = NoToken

\* A new token is nowhere else.
NewTokensApart == \A r \in Requests :
    /\ cookies.refresh \notin Held(r)
    /\ \A s \in Requests : Named(s) \intersect Held(r) = {}
    /\ \A s \in Requests \ {r} : Held(s) \intersect Held(r) = {}

Tables ==
    /\ live \subseteq Known /\ closed \subseteq Known /\ stray \subseteq Known
    /\ closed \intersect live = {}
    /\ cookies.refresh \in Known \union {NoToken}
    /\ cookies.access => cookies.refresh # NoToken

\* NoTokenLeftBehind, with the tokens that are nowhere else.
Accounted ==
    \A t \in live : t \in stray \/ t = cookies.refresh \/ \E r \in Requests : t \in Held(r)

IInv ==
    /\ TypeOK /\ Tables /\ NewTokensApart /\ SessionKept /\ Accounted
    /\ \A r \in Requests : Sound(r)

-----------------------------------------------------------------------------

\* What every step of a request r does to the tokens: it issues unknown ones, revokes
\* only what r names or holds or the cookies have, and hands on what it holds.
Moves(r) ==
    /\ TypeOK' /\ Tables' /\ Sound(r)'
    /\ \A s \in Requests \ {r} : req'[s] = req[s] /\ call'[s] = call[s]
    /\ issued <= issued'
    /\ live' \subseteq live \union (Known' \ Known)
    /\ live \ live' \subseteq Named(r) \union Held(r) \union {cookies.refresh}
    /\ closed \subseteq closed' /\ stray \subseteq stray'
    /\ closed' \ closed \subseteq Named(r) \union Held(r) \union {cookies.refresh}
    /\ Held(r)' \subseteq Held(r) \union (Known' \ Known)
    /\ Named(r)' \subseteq Named(r) \union {cookies.refresh}
    /\ cookies'.refresh \in {cookies.refresh, NoToken} \union closed \union (Held(r) \ Held(r)')
    \* A valid token that was with r or the browser is so still, or is left behind;
    /\ \A t \in live' :
         \/ t \in stray' \/ t = cookies'.refresh \/ t \in Held(r)'
         \/ t \in live /\ t \notin Held(r) /\ t # cookies.refresh
    \* and the token in the cookies is good or ended, or r replaces it, or r did not.
    /\ \/ cookies'.refresh \in live' \union closed' \union {NoToken}
       \/ Replaces(r, cookies.refresh)' /\ cookies'.refresh = cookies.refresh
       \/ /\ cookies'.refresh = cookies.refresh
          /\ cookies.refresh \notin live \union closed /\ ~Replaces(r, cookies.refresh)

\* Such a step keeps the invariant.
LEMMA MovesKeep == ASSUME IInv, NEW r \in Requests, Moves(r) PROVE IInv'
  <1>1. /\ live \subseteq Known /\ Known \subseteq Known' /\ issued \in Nat /\ issued' \in Nat
        /\ NoToken \notin Known' /\ cookies.refresh \in Known \union {NoToken}
        /\ live' \intersect closed' = {} /\ closed \subseteq closed'
    BY DEF IInv, Tables, Moves, TypeOK, Tokens, Known
  <1>0. ASSUME NEW s \in Requests \ {r}
        PROVE InCall(s)' = InCall(s) /\ Named(s)' = Named(s) /\ InAnswer(s)' = InAnswer(s)
    <2>1. /\ req'[s] = req[s] /\ call'[s] = call[s]
          /\ InAnswer(s) \subseteq Held(s) /\ InAnswer(s) \intersect (closed' \ closed) = {}
      BY <1>0 DEF Moves, IInv, NewTokensApart, Held
    <2>2. InAnswer(s)' = InAnswer(s)
      BY <1>1, <2>1 DEF InAnswer
    <2> QED BY <2>1, <2>2 DEF InCall, Named
  <1>2. ASSUME NEW s \in Requests \ {r}
        PROVE  /\ Held(s)' = Held(s) /\ Named(s)' = Named(s)
               /\ InCall(s)' = InCall(s) /\ InAnswer(s)' = InAnswer(s)
               /\ Held(s) \subseteq live /\ Named(s) \subseteq Known
    BY <1>0, <1>2 DEF Held, IInv, Sound
  <1>3. ASSUME NEW s \in Requests \ {r} PROVE Held(s) \subseteq live'
    BY <1>2, <1>3 DEF Moves, IInv, NewTokensApart
  <1>4. ASSUME NEW s \in Requests \ {r} PROVE Sound(s)'
    <2>1. \A t \in Known : t \notin live => t \notin live'
      BY DEF Moves
    <2>2. /\ req'[s] = req[s] /\ call'[s] = call[s]
          /\ NoToken \notin live /\ closed \intersect live = {}
      BY <1>1, <1>4 DEF Moves, IInv, Tables
    <2>3. /\ req[s].web = "authenticated" => req[s].new \in live' \union {NoToken}
          /\ req[s].answer = "tokens" => req[s].new \in live' \union closed'
      BY <1>1, <1>3, <2>2 DEF IInv, Sound, Held, InAnswer
    <2>4. /\ Known \subseteq Known' /\ closed \subseteq closed'
          /\ NoToken \notin Known /\ NoToken \notin live'
      BY <1>1 DEF Moves, Tables
    <2> QED BY <1>2, <1>3, <2>1, <2>2, <2>3, <2>4 DEF IInv, Sound, Named
  <1>5. NewTokensApart'
    <2>1. Held(r) \subseteq live /\ Named(r) \subseteq Known
      BY DEF IInv, Sound
    <2>2. cookies'.refresh \notin Held(r)' /\ Named(r)' \intersect Held(r)' = {}
      BY <1>1, <2>1 DEF Moves, IInv, NewTokensApart, Sound
    <2>3. ASSUME NEW s \in Requests \ {r}
          PROVE  /\ cookies'.refresh \notin Held(s)'
                 /\ Named(s)' \intersect Held(r)' = {} /\ Named(r)' \intersect Held(s)' = {}
                 /\ Held(s)' \intersect Held(r)' = {}
      BY <1>1, <1>2, <1>3, <2>1, <2>3 DEF Moves, IInv, NewTokensApart
    <2>4. ASSUME NEW s \in Requests \ {r}, NEW t \in Requests \ {r}
          PROVE  /\ Named(t)' \intersect Held(s)' = {}
                 /\ s # t => Held(t)' \intersect Held(s)' = {}
      BY <1>2, <2>4 DEF IInv, NewTokensApart
    <2> QED BY <2>2, <2>3, <2>4 DEF NewTokensApart
  <1>6. SessionKept'
    <2>1. SUFFICES ASSUME cookies'.refresh = cookies.refresh,
                          cookies.refresh \notin live \union closed \union {NoToken},
                          ~Replaces(r, cookies.refresh)
                   PROVE  \E s \in Requests : Replaces(s, cookies.refresh)'
      BY DEF Moves, SessionKept
    <2>2. PICK s \in Requests \ {r} : Replaces(s, cookies.refresh)
      BY <2>1 DEF IInv, SessionKept
    <2>3. ASSUME NEW t \in live \union closed, t \in Held(s) \/ t \in closed
          PROVE t \in live' \union closed'
      BY <1>3, <2>3 DEF Moves
    <2>4. NoToken \notin live \union closed
      BY <1>1 DEF IInv, Tables
    <2> QED BY <2>1, <2>2, <2>3, <2>4 DEF Replaces, Moves, Held, InCall, InAnswer, IInv, Sound
  <1>7. Accounted'
    <2>1. SUFFICES ASSUME NEW t \in live', t \in live, t \notin Held(r), t # cookies.refresh,
                          t \notin stray'
                   PROVE  \E s \in Requests : t \in Held(s)'
      BY DEF Moves, Accounted
    <2>2. PICK s \in Requests \ {r} : t \in Held(s)
      BY <2>1 DEF IInv, Accounted, Moves
    <2> QED BY <1>2, <2>2
  <1> QED BY <1>4, <1>5, <1>6, <1>7 DEF IInv, Moves

-----------------------------------------------------------------------------

Word == Tokens \union {NoToken}
RequestSet == [web : WebStates, kind : Kinds, token : Word, new : Word,
               has : BOOLEAN, answer : Answers]
CallSet == [state : CallStates, token : Word, new : Word, has : BOOLEAN]

\* TypeOK with the tables' bounds, and the fields of a request and of its call.
LEMMA Types == ASSUME IInv
  PROVE  /\ live \subseteq Known /\ closed \subseteq Known /\ stray \subseteq Known
         /\ closed \intersect live = {} /\ Known \subseteq Tokens
         /\ NoToken \notin Tokens /\ issued \in Tokens /\ hasProfile \in BOOLEAN
         /\ cookies \in [access : BOOLEAN, refresh : Word, has : BOOLEAN]
         /\ cookies.refresh \in Known \union {NoToken}
         /\ req \in [Requests -> RequestSet] /\ call \in [Requests -> CallSet]
  BY DEF IInv, TypeOK, Tables, Tokens, Known, RequestSet, CallSet, Word

LEMMA Fields == ASSUME IInv, NEW r \in Requests
  PROVE  /\ req[r].new \in Word /\ req[r].token \in Word /\ req[r].has \in BOOLEAN
         /\ call[r].new \in Word /\ call[r].token \in Word /\ call[r].has \in BOOLEAN
  <1>1. req[r].new \in Word /\ req[r].token \in Word /\ req[r].has \in BOOLEAN
    BY Types DEF RequestSet
  <1>2. call[r].new \in Word /\ call[r].token \in Word /\ call[r].has \in BOOLEAN
    BY Types DEF CallSet
  <1> QED BY <1>1, <1>2

LEMMA Defaults == Idle \in RequestSet /\ NoCall \in CallSet
  <1>1. Idle \in RequestSet
    BY DEF Idle, RequestSet, Word, WebStates, Kinds, Answers
  <1>2. NoCall \in CallSet
    BY DEF NoCall, CallSet, Word, CallStates
  <1> QED BY <1>1, <1>2

\* A new token is a token that nothing knows.
LEMMA Fresh == ASSUME IInv, Issue
  PROVE  /\ issued' \in Tokens /\ issued' # NoToken /\ issued' \in Known' \ Known
         /\ Known \subseteq Known' /\ issued <= issued' /\ Known' \subseteq Tokens
  BY Types DEF Issue, Known, Tokens

Others(r) == \A s \in Requests \ {r} : req'[s] = req[s] /\ call'[s] = call[s]

\* Steps that issue and revoke nothing and leave the cookies alone.
Quiet(r) ==
    /\ UNCHANGED <<live, issued, cookies>> /\ hasProfile' \in BOOLEAN
    /\ req' \in [Requests -> RequestSet] /\ call' \in [Requests -> CallSet]
    /\ Others(r) /\ Sound(r)'
    /\ closed \subseteq closed' /\ closed' \subseteq closed \union Named(r)
    /\ closed' \intersect live = {}
    /\ stray \subseteq stray' /\ stray' \subseteq stray \union live
    /\ Held(r)' \subseteq Held(r) /\ Held(r) \ Held(r)' \subseteq stray'
    /\ Named(r)' \subseteq Named(r) \union {cookies.refresh}
    /\ Replaces(r, cookies.refresh) =>
         Replaces(r, cookies.refresh)' \/ cookies.refresh \in closed' \union {NoToken}

LEMMA QuietMoves == ASSUME IInv, NEW r \in Requests, Quiet(r) PROVE Moves(r)
  <1>1. Known' = Known /\ issued <= issued' /\ Named(r) \subseteq Known
    BY Types DEF Quiet, Known, Tokens, IInv, Sound
  <1>2. Tables'
    BY <1>1 DEF Quiet, Tables, IInv
  <1>3. TypeOK'
    BY <1>1, <1>2, Types DEF TypeOK, Quiet, Tables, RequestSet, CallSet, Word
  <1>4. \/ cookies'.refresh \in live' \union closed' \union {NoToken}
        \/ Replaces(r, cookies.refresh)' /\ cookies'.refresh = cookies.refresh
        \/ /\ cookies'.refresh = cookies.refresh
           /\ cookies.refresh \notin live \union closed /\ ~Replaces(r, cookies.refresh)
    BY DEF Quiet
  <1> QED BY <1>1, <1>2, <1>3, <1>4 DEF Moves, Quiet, Others

\* What an answer makes of its request.
LEMMA Answered ==
    ASSUME IInv, NEW r \in Requests, NEW a \in Answers, Answer(r, a)
    PROVE  /\ req' \in [Requests -> RequestSet]
           /\ \A s \in Requests \ {r} : req'[s] = req[s]
           /\ a = "nothing" => req'[r] = Idle
           /\ a \in {"profile", "forgotten"} =>
                /\ req'[r].web = "answered" /\ req'[r].answer = a
                /\ req'[r].token = NoToken /\ req'[r].new = NoToken
           /\ a \in {"tokens", "loggedOut"} =>
                /\ req'[r].web = "answered" /\ req'[r].answer = a
                /\ req'[r].token = req[r].token /\ req'[r].new = req[r].new
  <1>1. PICK web \in WebStates : web = "answered"
    BY DEF WebStates
  <1>2. CASE a = "nothing"
    BY <1>2, Types, Defaults DEF Answer
  <1>3. CASE a \in {"profile", "forgotten"}
    <2>1. req' = [req EXCEPT ![r] = [Idle EXCEPT !.web = web, !.answer = a]]
      BY <1>1, <1>3 DEF Answer
    <2>2. [Idle EXCEPT !.web = web, !.answer = a] \in RequestSet
      BY Defaults DEF RequestSet
    <2>3. /\ [Idle EXCEPT !.web = web, !.answer = a].web = web
          /\ [Idle EXCEPT !.web = web, !.answer = a].answer = a
          /\ [Idle EXCEPT !.web = web, !.answer = a].token = NoToken
          /\ [Idle EXCEPT !.web = web, !.answer = a].new = NoToken
      BY DEF Idle
    <2> QED BY <1>1, <1>3, <2>1, <2>2, <2>3, Types
  <1>4. CASE a \in {"tokens", "loggedOut"}
    <2>1. req' = [req EXCEPT ![r] = [req[r] EXCEPT !.web = web, !.answer = a]]
      BY <1>1, <1>4 DEF Answer
    <2>2. PICK q \in RequestSet : q = req[r]
      BY Types
    <2>3. [q EXCEPT !.web = web, !.answer = a] \in RequestSet
      BY DEF RequestSet
    <2>4. /\ [q EXCEPT !.web = web, !.answer = a].web = web
          /\ [q EXCEPT !.web = web, !.answer = a].answer = a
          /\ [q EXCEPT !.web = web, !.answer = a].token = q.token
          /\ [q EXCEPT !.web = web, !.answer = a].new = q.new
      BY DEF RequestSet
    <2> QED BY <1>1, <1>4, <2>1, <2>2, <2>3, <2>4, Types
  <1> QED BY <1>2, <1>3, <1>4 DEF Answers

-----------------------------------------------------------------------------
(* The API's steps                                                         *)

\* A step of the call that only changes its progress.
LEMMA CallSteps ==
    ASSUME IInv, NEW r \in Requests, NEW state \in CallStates, CallTo(r, state), req' = req
    PROVE  /\ call' \in [Requests -> CallSet] /\ Others(r)
           /\ call'[r].state = state
           /\ call'[r].token = call[r].token /\ call'[r].new = call[r].new
  <1>1. call' = [call EXCEPT ![r].state = state]
    BY DEF CallTo
  <1>2. call' \in [Requests -> CallSet]
    BY <1>1, Types DEF CallSet
  <1>3. Others(r)
    BY <1>1, Types DEF Others
  <1>4. /\ call'[r].state = state
        /\ call'[r].token = call[r].token /\ call'[r].new = call[r].new
    BY <1>1, Types DEF CallSet
  <1> QED BY <1>2, <1>3, <1>4

LEMMA RefreshFindMoves == ASSUME IInv, NEW r \in Requests, RefreshFind(r) PROVE Moves(r)
  <1>1. PICK state \in {"create", "error"} : CallTo(r, state)
    BY DEF RefreshFind
  <1>2. state \in CallStates
    BY DEF CallStates
  <1>3. /\ call' \in [Requests -> CallSet] /\ Others(r) /\ call'[r].state \in {"create", "error"}
        /\ call'[r].token = call[r].token /\ call'[r].new = call[r].new
        /\ UNCHANGED <<live, issued, hasProfile, cookies, req, closed, stray>> /\ call[r].state = "find"
    BY <1>1, <1>2, CallSteps DEF RefreshFind
  <1>4. Sound(r)'
    BY <1>3 DEF IInv, Sound, Known, Held, InCall, InAnswer, Named
  <1>5. Quiet(r)
    BY <1>3, <1>4, Types DEF Quiet, Held, InCall, InAnswer, Named, Replaces
  <1> QED BY <1>5, QuietMoves

LEMMA RefreshProfileMoves == ASSUME IInv, NEW r \in Requests, RefreshProfile(r) PROVE Moves(r)
  <1>1. PICK state \in CallStates, has \in BOOLEAN : state = "ok" /\ has = hasProfile
    BY Types DEF CallStates
  <1>2. call' = [call EXCEPT ![r].state = state, ![r].has = has]
    BY <1>1 DEF RefreshProfile
  <1>3. call' \in [Requests -> CallSet] /\ Others(r)
    <2>1. call' \in [Requests -> CallSet]
      BY <1>2, Types DEF CallSet
    <2>2. Others(r)
      BY <1>2, Types DEF Others, RefreshProfile
    <2> QED BY <2>1, <2>2
  <1>4. /\ call'[r].state = "ok" /\ call'[r].token = call[r].token /\ call'[r].new = call[r].new
        /\ UNCHANGED <<live, issued, hasProfile, cookies, req, closed, stray>> /\ call[r].state = "profile"
    BY <1>1, <1>2, Types DEF CallSet, RefreshProfile
  <1>5. Sound(r)'
    BY <1>4 DEF IInv, Sound, Known, Held, InCall, InAnswer, Named
  <1>6. Quiet(r)
    BY <1>3, <1>4, <1>5, Types DEF Quiet, Held, InCall, InAnswer, Named, Replaces
  <1> QED BY <1>6, QuietMoves

LEMMA RefreshFailsMoves == ASSUME IInv, NEW r \in Requests, RefreshFails(r) PROVE Moves(r)
  <1>1. "error" \in CallStates
    BY DEF CallStates
  <1>2. /\ call' \in [Requests -> CallSet] /\ Others(r) /\ call'[r].state = "error"
        /\ call'[r].token = call[r].token /\ call'[r].new = call[r].new
        /\ UNCHANGED <<live, issued, hasProfile, cookies, req>>
        /\ stray' = stray \union ((IF call[r].state \in {"delete", "profile"}
                                   THEN {call[r].new} ELSE {}) \intersect live)
        /\ call[r].state \in {"find", "create", "delete", "profile"}
    BY <1>1, CallSteps DEF RefreshFails, LeaveBehind
  <1>3. /\ closed \subseteq closed' /\ closed' \subseteq closed \union Named(r)
        /\ call[r].state = "profile" => call[r].token \in closed'
        /\ closed' \intersect live = {}
    BY Types DEF RefreshFails, Named, IInv, Sound
  <1>4. Sound(r)'
    BY <1>2, <1>3 DEF IInv, Sound, Known, Held, InCall, InAnswer, Named
  <1>5. Replaces(r, cookies.refresh) =>
          Replaces(r, cookies.refresh)' \/ cookies.refresh \in closed'
    BY <1>2, <1>3 DEF Replaces, IInv, Sound
  <1>6. Held(r)' \subseteq Held(r) /\ Held(r) \ Held(r)' \subseteq stray'
    <2>1. InAnswer(r)' = InAnswer(r)
      BY <1>2, <1>3 DEF InAnswer, Held, IInv, NewTokensApart
    <2>2. InCall(r)' = {} /\ InCall(r) \subseteq live
      BY <1>2 DEF InCall, Held, IInv, Sound
    <2>3. InCall(r) \subseteq stray'
      BY <1>2, <2>2 DEF InCall
    <2> QED BY <2>1, <2>2, <2>3 DEF Held
  <1>7. Named(r)' = Named(r) /\ stray \subseteq stray' /\ stray' \subseteq stray \union live
    BY <1>2 DEF Named
  <1>8. Quiet(r)
    BY <1>2, <1>3, <1>4, <1>5, <1>6, <1>7, Types DEF Quiet
  <1> QED BY <1>8, QuietMoves

LEMMA CallEndsMoves == ASSUME IInv, NEW r \in Requests, CallEnds(r) PROVE Moves(r)
  <1>1. /\ call' \in [Requests -> CallSet] /\ Others(r) /\ call'[r] = NoCall
        /\ UNCHANGED <<live, issued, hasProfile, cookies, req, closed>>
        /\ stray' = stray \union ((IF call[r].state = "ok" THEN {call[r].new} ELSE {}) \intersect live)
        /\ call[r].state \in {"ok", "error"} /\ req[r].web # "refreshing"
    BY Types, Defaults DEF CallEnds, GaveUp, Others, LeaveBehind
  <1>2. Sound(r)'
    BY <1>1 DEF IInv, Sound, Known, Held, InCall, InAnswer, Named, NoCall
  <1>3. Held(r)' \subseteq Held(r) /\ Held(r) \ Held(r)' \subseteq stray'
    <2>1. InAnswer(r)' = InAnswer(r)
      BY <1>1 DEF InAnswer
    <2>2. InCall(r)' = {} /\ InCall(r) \subseteq live
      BY <1>1 DEF InCall, NoCall, Held, IInv, Sound
    <2>3. InCall(r) \subseteq stray'
      BY <1>1, <2>2 DEF InCall
    <2> QED BY <2>1, <2>2, <2>3 DEF Held
  <1>4. Named(r)' \subseteq Named(r) /\ stray \subseteq stray' /\ stray' \subseteq stray \union live
    BY <1>1 DEF Named, NoCall
  <1>5. Replaces(r, cookies.refresh) => Replaces(r, cookies.refresh)'
    BY <1>1 DEF Replaces
  <1>6. Quiet(r)
    BY <1>1, <1>2, <1>3, <1>4, <1>5, Types DEF Quiet
  <1> QED BY <1>6, QuietMoves

LEMMA RefreshCreateMoves == ASSUME IInv, NEW r \in Requests, RefreshCreate(r) PROVE Moves(r)
  <1>1. PICK new \in Word, state \in CallStates : state = "delete" /\ new = issued'
    BY Fresh DEF RefreshCreate, CallStates, Word
  <1>2. call' = [call EXCEPT ![r].state = state, ![r].new = new]
    BY <1>1 DEF RefreshCreate
  <1>3. call' \in [Requests -> CallSet] /\ Others(r)
    <2>1. call' \in [Requests -> CallSet]
      BY <1>2, Types DEF CallSet
    <2>2. Others(r)
      BY <1>2, Types DEF Others, RefreshCreate
    <2> QED BY <2>1, <2>2
  <1>4. /\ call'[r].state = "delete" /\ call'[r].token = call[r].token /\ call'[r].new = new
        /\ UNCHANGED <<hasProfile, cookies, req, closed, stray>> /\ live' = live \union {new}
        /\ call[r].state = "create"
    BY <1>1, <1>2, Types DEF CallSet, RefreshCreate
  <1>5. /\ new \in Known' \ Known /\ Known \subseteq Known' /\ issued <= issued'
        /\ Known' \subseteq Tokens /\ issued' \in Tokens
    BY <1>1, Fresh DEF RefreshCreate
  <1>6. Sound(r)'
    BY <1>4, <1>5, Types DEF IInv, Sound, Held, InCall, InAnswer, Named
  <1>7. Tables'
    BY <1>4, <1>5 DEF IInv, Tables
  <1>8. TypeOK'
    BY <1>3, <1>4, <1>5, <1>7, Types DEF TypeOK, Tables, RequestSet, CallSet, Word
  <1>9. /\ Held(r)' \subseteq Held(r) \union (Known' \ Known)
        /\ Named(r)' \subseteq Named(r)
        /\ \/ cookies'.refresh \in live' \union closed' \union {NoToken}
           \/ /\ cookies'.refresh = cookies.refresh
              /\ cookies.refresh \notin live \union closed /\ ~Replaces(r, cookies.refresh)
           \/ Replaces(r, cookies.refresh)'
    BY <1>4, <1>5 DEF Held, InCall, InAnswer, Named, Replaces
  <1>10. Held(r)' = Held(r) \union {new} /\ live' = live \union {new}
    BY <1>4 DEF Held, InCall, InAnswer
  <1> QED BY <1>3, <1>4, <1>5, <1>6, <1>7, <1>8, <1>9, <1>10 DEF Moves, Others

LEMMA RefreshDeleteMoves == ASSUME IInv, NEW r \in Requests, RefreshDelete(r) PROVE Moves(r)
  <1>1. "profile" \in CallStates
    BY DEF CallStates
  <1>2. /\ call' \in [Requests -> CallSet] /\ Others(r) /\ call'[r].state = "profile"
        /\ call'[r].token = call[r].token /\ call'[r].new = call[r].new
        /\ UNCHANGED <<issued, hasProfile, cookies, req, stray>> /\ live' = live \ {call[r].token}
        /\ call[r].state = "delete"
    BY <1>1, CallSteps DEF RefreshDelete
  <1>3. /\ closed \subseteq closed' /\ closed' \subseteq closed \union Named(r)
        /\ req[r].web # "refreshing" => call[r].token \in closed'
        /\ closed' \subseteq closed \union {call[r].token}
    BY DEF RefreshDelete, Named, IInv, Sound, GaveUp
  <1>4. /\ Known' = Known /\ issued <= issued' /\ Named(r) \subseteq Known
        /\ call[r].token \in Named(r) /\ call[r].token \notin Held(r)
    BY <1>2, Types DEF Known, Tokens, IInv, Sound, NewTokensApart, Named
  <1>10. /\ Held(r)' = Held(r) /\ Named(r)' = Named(r)
         /\ InCall(r)' = InCall(r) /\ InAnswer(r)' = InAnswer(r)
    BY <1>2, <1>3, <1>4 DEF Held, InCall, InAnswer, Named
  <1>5. Sound(r)'
    <2>1. /\ Held(r) \subseteq live' /\ NoToken \notin live /\ closed \intersect live = {}
      BY <1>2, <1>4, Types DEF IInv, Sound
    <2>2. /\ req[r].web = "authenticated" => req[r].new \in live' \union {NoToken}
          /\ req[r].answer = "tokens" => req[r].new \in live' \union closed'
      BY <1>2, <1>3, <2>1 DEF IInv, Sound, Held, InAnswer
    <2> QED BY <1>2, <1>3, <1>4, <1>10, <2>1, <2>2 DEF IInv, Sound
  <1>6. Tables'
    BY <1>2, <1>3, <1>4, Types DEF IInv, Tables, Sound
  <1>7. TypeOK'
    BY <1>2, <1>4, <1>6, Types DEF TypeOK, Tables, RequestSet, CallSet, Word
  <1>8. /\ Held(r)' \subseteq Held(r) /\ Named(r)' = Named(r)
        /\ live \ live' \subseteq Named(r)
    BY <1>2, <1>4, <1>10
  <1>9. \/ cookies.refresh \in live' \union closed'
        \/ Replaces(r, cookies.refresh)'
        \/ cookies.refresh \notin live \union closed /\ ~Replaces(r, cookies.refresh)
    <2>1. CASE cookies.refresh = call[r].token /\ req[r].web = "refreshing"
      <3>1. req[r].token = call[r].token /\ call[r].new \in live'
        BY <1>2, <1>4, <2>1 DEF IInv, Sound, Held, InCall
      <3> QED BY <1>2, <2>1, <3>1 DEF Replaces
    <2>2. CASE cookies.refresh = call[r].token /\ req[r].web # "refreshing"
      BY <1>3, <2>2
    <2>3. CASE cookies.refresh # call[r].token
      <3>1. Replaces(r, cookies.refresh) => req[r].new \in live' \union closed'
        BY <1>2, <1>3, <1>4 DEF Replaces, IInv, Sound, Held, InAnswer
      <3> QED BY <1>2, <1>3, <2>3, <3>1 DEF Replaces
    <2> QED BY <2>1, <2>2, <2>3
  <1> QED BY <1>2, <1>3, <1>4, <1>5, <1>6, <1>7, <1>8, <1>9, <1>10 DEF Moves, Others

-----------------------------------------------------------------------------
(* The proxy's steps                                                       *)

LEMMA RefreshedMoves == ASSUME IInv, NEW r \in Requests, Refreshed(r) PROVE Moves(r)
  <1>1. PICK web \in WebStates, new \in Word, has \in BOOLEAN :
          web = "authenticated" /\ new = call[r].new /\ has = call[r].has
    BY Fields DEF WebStates
  <1>2. req' = [req EXCEPT ![r].web = web, ![r].new = new, ![r].has = has]
    BY <1>1 DEF Refreshed
  <1>3. req' \in [Requests -> RequestSet]
    <2>1. req \in [Requests -> RequestSet]
      BY Types
    <2> QED BY <1>2, <2>1 DEF RequestSet
  <1>4. /\ req'[r].web = "authenticated" /\ req'[r].new = call[r].new
        /\ req'[r].token = req[r].token /\ req'[r].answer = req[r].answer
    BY <1>1, <1>2, Types DEF RequestSet
  <1>5. /\ call' \in [Requests -> CallSet] /\ Others(r) /\ call'[r] = NoCall
        /\ UNCHANGED <<live, issued, hasProfile, cookies, closed, stray>>
        /\ req[r].web = "refreshing" /\ call[r].state = "ok"
    BY <1>2, Types, Defaults DEF Refreshed, Others
  <1>6. Sound(r)'
    <2>1. /\ Known' = Known /\ req[r].token \in Known \ live /\ call[r].new \in live
          /\ call[r].new \in Known /\ call[r].new # NoToken /\ req[r].answer = "nothing"
          /\ req[r].token # NoToken
      BY <1>5, Types DEF IInv, Sound, Named, Held, InCall, Known
    <2>2. call'[r].state = "none" /\ call'[r].token = NoToken /\ live' = live
      BY <1>5 DEF NoCall
    <2> QED BY <1>4, <2>1, <2>2 DEF Sound, Held, InCall, InAnswer, Named
  <1>7. Quiet(r)
    BY <1>3, <1>4, <1>5, <1>6, Types
    DEF Quiet, IInv, Sound, Held, InCall, InAnswer, Named, NoCall, Replaces
  <1> QED BY <1>7, QuietMoves

\* The request goes on without a session.
LEMMA Turned ==
    ASSUME IInv, NEW r \in Requests, req' = [req EXCEPT ![r].web = "anonymous"]
    PROVE  /\ req' \in [Requests -> RequestSet]
           /\ \A s \in Requests \ {r} : req'[s] = req[s]
           /\ req'[r].web = "anonymous" /\ req'[r].new = req[r].new
           /\ req'[r].token = req[r].token /\ req'[r].answer = req[r].answer
  <1>1. PICK web \in WebStates : web = "anonymous"
    BY DEF WebStates
  <1>2. req' \in [Requests -> RequestSet]
    BY <1>1, Types DEF RequestSet
  <1>3. /\ req'[r].web = "anonymous" /\ req'[r].new = req[r].new
        /\ req'[r].token = req[r].token /\ req'[r].answer = req[r].answer
    BY Types DEF RequestSet
  <1> QED BY <1>2, <1>3, Types

LEMMA NotRefreshedMoves == ASSUME IInv, NEW r \in Requests, NotRefreshed(r) PROVE Moves(r)
  <1>1. /\ req' \in [Requests -> RequestSet] /\ \A s \in Requests \ {r} : req'[s] = req[s]
        /\ req'[r].web = "anonymous" /\ req'[r].new = req[r].new
        /\ req'[r].token = req[r].token /\ req'[r].answer = req[r].answer
    BY Turned DEF NotRefreshed
  <1>2. /\ call' \in [Requests -> CallSet] /\ Others(r) /\ call'[r] = NoCall
        /\ UNCHANGED <<live, issued, hasProfile, cookies, closed, stray>>
        /\ req[r].web = "refreshing" /\ call[r].state = "error"
    BY <1>1, Types, Defaults DEF NotRefreshed, Others
  <1>3. Sound(r)'
    BY <1>1, <1>2 DEF IInv, Tables, Known, Sound, Held, InCall, InAnswer, Named, NoCall
  <1>4. Quiet(r)
    BY <1>1, <1>2, <1>3, Types
    DEF Quiet, IInv, Sound, Held, InCall, InAnswer, Named, NoCall, Replaces
  <1> QED BY <1>4, QuietMoves

LEMMA TimeoutMoves == ASSUME IInv, NEW r \in Requests, Timeout(r) PROVE Moves(r)
  <1>1. /\ req' \in [Requests -> RequestSet] /\ Others(r)
        /\ req'[r].web = "anonymous" /\ req'[r].new = req[r].new
        /\ req'[r].token = req[r].token /\ req'[r].answer = req[r].answer
        /\ UNCHANGED <<live, issued, hasProfile, cookies, call, stray>> /\ req[r].web = "refreshing"
    BY Turned DEF Timeout, Others
  <1>2. /\ closed \subseteq closed' /\ closed' \subseteq closed \union Named(r)
        /\ call[r].state \in {"profile", "ok"} => call[r].token \in closed'
        /\ closed' \intersect live = {}
    BY Types DEF Timeout, Named, IInv, Sound
  <1>3. Sound(r)'
    BY <1>1, <1>2 DEF IInv, Tables, Known, Sound, Held, InCall, InAnswer, Named
  <1>4. Replaces(r, cookies.refresh) => cookies.refresh \in closed'
    BY <1>1, <1>2 DEF Replaces, IInv, Sound
  <1>5. Held(r)' = Held(r) /\ Named(r)' = Named(r)
    BY <1>1 DEF Held, InCall, InAnswer, Named
  <1>6. Quiet(r)
    BY <1>1, <1>2, <1>3, <1>4, <1>5, Types DEF Quiet, Others
  <1> QED BY <1>6, QuietMoves

\* An answer that sets no cookie, or the proxy's own ones.
LEMMA PassedMoves ==
    ASSUME IInv, NEW r \in Requests, NEW a \in {"nothing", ProxyCookies(r)}, Answer(r, a),
           (req[r].web = "authenticated" /\ a = ProxyCookies(r)) \/ req[r].web = "anonymous",
           UNCHANGED <<live, issued, cookies, call, closed, stray>>, hasProfile' \in BOOLEAN
    PROVE  Moves(r)
  <1>1. a \in {"nothing", "tokens"}
    BY DEF ProxyCookies
  <1>2. /\ req' \in [Requests -> RequestSet] /\ Others(r)
        /\ a = "nothing" => req'[r] = Idle
        /\ a = "tokens" =>
             /\ req'[r].web = "answered" /\ req'[r].answer = "tokens"
             /\ req'[r].token = req[r].token /\ req'[r].new = req[r].new
    BY <1>1, Answered DEF Answers, Others
  <1>3. CASE a = "nothing"
    <2>1. req[r].new = NoToken /\ req'[r] = Idle
      BY <1>2, <1>3 DEF ProxyCookies, IInv, Sound
    <2>2. Sound(r)'
      BY <2>1 DEF IInv, Tables, Known, Sound, Held, InCall, InAnswer, Named, Idle
    <2>3. Quiet(r)
      BY <1>2, <2>1, <2>2, Types
      DEF Quiet, IInv, Tables, Held, InCall, InAnswer, Named, Idle, Replaces, Known
    <2> QED BY <2>3, QuietMoves
  <1>4. CASE a = "tokens"
    <2>1. req[r].new # NoToken /\ req[r].web = "authenticated"
      BY <1>4 DEF ProxyCookies, IInv, Sound
    <2>2. Sound(r)'
      BY <1>2, <1>4, <2>1 DEF IInv, Tables, Known, Sound, Held, InCall, InAnswer, Named
    <2>3. Quiet(r)
      BY <1>2, <1>4, <2>1, <2>2, Types
      DEF Quiet, IInv, Sound, Held, InCall, InAnswer, Named, Replaces
    <2> QED BY <2>3, QuietMoves
  <1> QED BY <1>1, <1>3, <1>4

LEMMA PassMoves == ASSUME IInv, NEW r \in Requests, Pass(r) PROVE Moves(r)
  BY PassedMoves, Types DEF Pass

LEMMA RedirectMoves == ASSUME IInv, NEW r \in Requests, Redirect(r) PROVE Moves(r)
  BY PassedMoves, Types DEF Redirect

-----------------------------------------------------------------------------
(* The server actions' steps                                               *)

LEMMA LoginMoves == ASSUME IInv, NEW r \in Requests, Login(r) PROVE Moves(r)
  <1>1. PICK web \in WebStates, answer \in Answers, token \in Word, new \in Word, has \in BOOLEAN :
          /\ web = "answered" /\ answer = "tokens" /\ token = NoToken
          /\ new = issued' /\ has = hasProfile
    BY Types, Fresh DEF Login, WebStates, Answers, Word
  <1>2. req' = [req EXCEPT ![r].web = web, ![r].answer = answer,
                  ![r].token = token, ![r].new = new, ![r].has = has]
    BY <1>1 DEF Login
  <1>3. req' \in [Requests -> RequestSet]
    <2>1. PICK q \in RequestSet : q = req[r]
      BY Types
    <2>2. [q EXCEPT !.web = web, !.answer = answer, !.token = token, !.new = new, !.has = has]
            \in RequestSet
      BY DEF RequestSet
    <2>3. req' = [req EXCEPT ![r] = [q EXCEPT !.web = web, !.answer = answer,
                                      !.token = token, !.new = new, !.has = has]]
      BY <1>2, <2>1
    <2> QED BY <2>2, <2>3, Types
  <1>4. /\ req'[r].web = "answered" /\ req'[r].new = new
        /\ req'[r].token = NoToken /\ req'[r].answer = "tokens"
    BY <1>1, <1>2, Types DEF RequestSet
  <1>5. /\ UNCHANGED <<hasProfile, cookies, call, closed, stray>> /\ Others(r)
        /\ live' = live \union {new} /\ req[r].web = "anonymous"
    BY <1>1, <1>2, Types DEF Login, Others
  <1>6. /\ new \in Known' \ Known /\ Known \subseteq Known' /\ issued <= issued'
        /\ Known' \subseteq Tokens /\ issued' \in Tokens /\ NoToken \notin Known'
    BY <1>1, Fresh, Types DEF Login
  <1>7. Sound(r)'
    BY <1>4, <1>5, <1>6 DEF IInv, Sound, Tables, Held, InCall, InAnswer, Named
  <1>8. Tables'
    BY <1>5, <1>6 DEF IInv, Tables
  <1>9. TypeOK'
    BY <1>3, <1>5, <1>6, <1>8, Types DEF TypeOK, Tables, RequestSet, CallSet, Word
  <1>10. /\ Held(r)' \subseteq Held(r) \union (Known' \ Known)
         /\ Named(r)' \subseteq Named(r)
         /\ \/ cookies'.refresh \in live' \union closed' \union {NoToken}
            \/ /\ cookies'.refresh = cookies.refresh
               /\ cookies.refresh \notin live \union closed /\ ~Replaces(r, cookies.refresh)
    BY <1>4, <1>5, <1>6 DEF Held, InCall, InAnswer, Named, Replaces
  <1>11. Held(r)' = Held(r) \union {new}
    <2>1. InCall(r)' = InCall(r) /\ InAnswer(r) = {}
      BY <1>5 DEF InCall, InAnswer
    <2>2. InAnswer(r)' = {new}
      BY <1>4, <1>5, <1>6, <1>8 DEF InAnswer, Tables
    <2> QED BY <2>1, <2>2 DEF Held
  <1> QED BY <1>3, <1>5, <1>6, <1>7, <1>8, <1>9, <1>10, <1>11 DEF Moves, Others

LEMMA LoginFailsMoves == ASSUME IInv, NEW r \in Requests, LoginFails(r) PROVE Moves(r)
  <1>1. CASE UNCHANGED <<live, issued, stray>>
    BY <1>1, PassedMoves, Types DEF LoginFails
  <1>2. CASE Issue /\ live' = live \union {issued'} /\ stray' = stray \union {issued'}
    <2>1. PICK new \in Known' \ Known : new = issued'
      BY <1>2, Fresh
    <2>2. /\ Known \subseteq Known' /\ issued <= issued' /\ Known' \subseteq Tokens
          /\ issued' \in Tokens /\ NoToken \notin Known'
      BY <1>2, Fresh, Types
    <2>3. /\ live' = live \union {new} /\ stray' = stray \union {new}
          /\ UNCHANGED <<hasProfile, cookies, call, closed>> /\ req[r].web = "anonymous"
          /\ req' \in [Requests -> RequestSet] /\ Others(r) /\ req'[r] = Idle
      BY <1>2, <2>1, Answered DEF LoginFails, Answers, Others
    <2>4. /\ req'[r].web = "idle" /\ req'[r].answer = "nothing"
          /\ req'[r].token = NoToken /\ req'[r].new = NoToken
      BY <2>3 DEF Idle
    <2>5. Held(r)' = Held(r) /\ Named(r)' \subseteq Named(r)
      BY <2>3, <2>4 DEF Held, InCall, InAnswer, Named
    <2>6. Sound(r)'
      BY <2>1, <2>2, <2>3, <2>4 DEF IInv, Sound, Tables, Held, InCall, InAnswer, Named
    <2>7. Tables'
      BY <2>1, <2>2, <2>3 DEF IInv, Tables
    <2>8. TypeOK'
      BY <2>2, <2>3, <2>7, Types DEF TypeOK, Tables, RequestSet, CallSet, Word
    <2>9. \/ cookies.refresh \in live' \union closed' \union {NoToken}
          \/ cookies.refresh \notin live \union closed /\ ~Replaces(r, cookies.refresh)
      BY <2>3 DEF Replaces, IInv, Sound
    <2> QED BY <2>1, <2>2, <2>3, <2>5, <2>6, <2>7, <2>8, <2>9 DEF Moves, Others
  <1> QED BY <1>1, <1>2 DEF LoginFails

LEMMA LogoutMoves == ASSUME IInv, NEW r \in Requests, Logout(r) PROVE Moves(r)
  <1>1. /\ req' \in [Requests -> RequestSet] /\ Others(r)
        /\ req'[r].web = "answered" /\ req'[r].answer = "loggedOut"
        /\ req'[r].token = req[r].token /\ req'[r].new = req[r].new
        /\ UNCHANGED <<issued, hasProfile, cookies, call, stray>> /\ req[r].web = "authenticated"
        /\ live' = live \ {SessionToken(r)}
        /\ closed' = closed \union {req[r].token, SessionToken(r)}
    BY Answered DEF Logout, Answers, Others
  <1>2. /\ Known' = Known /\ issued <= issued' /\ Named(r) \subseteq Known
        /\ req[r].token \in Named(r) /\ NoToken \notin Known /\ req[r].answer = "nothing"
        /\ req[r].token \notin Held(r) /\ live \subseteq Known
    BY <1>1, Types DEF Known, Tokens, IInv, Sound, Named, NewTokensApart
  <1>3. /\ SessionToken(r) \in Named(r) \union InAnswer(r) /\ SessionToken(r) \in Known
        /\ SessionToken(r) \notin InCall(r)
        /\ req[r].new # NoToken => SessionToken(r) = req[r].new /\ req[r].token \notin live
        /\ req[r].new = NoToken => SessionToken(r) = req[r].token
    <2>1. req[r].new # NoToken => req[r].new \in InAnswer(r)
      BY <1>1, Types DEF IInv, Sound, InAnswer
    <2> QED BY <1>1, <1>2, <2>1 DEF SessionToken, IInv, Sound, Held, InAnswer
  <1>4. Sound(r)'
    BY <1>1, <1>2, <1>3 DEF IInv, Sound, Held, InCall, InAnswer, Named
  <1>5. Tables'
    BY <1>1, <1>2, <1>3 DEF IInv, Tables
  <1>6. TypeOK'
    BY <1>1, <1>2, <1>5, Types DEF TypeOK, Tables, RequestSet, CallSet, Word
  <1>7. /\ Held(r)' \subseteq Held(r) /\ Named(r)' = Named(r)
        /\ live \ live' \subseteq Named(r) \union Held(r)
        /\ \/ cookies.refresh \in live' \union closed'
           \/ cookies.refresh \notin live \union closed /\ ~Replaces(r, cookies.refresh)
    BY <1>1, <1>2, <1>3 DEF Held, InCall, InAnswer, Named, Replaces
  <1>8. \A t \in Held(r) : t \in Held(r)' \/ t \notin live'
    <2>1. InCall(r)' = InCall(r) /\ InAnswer(r) \subseteq {SessionToken(r)}
      BY <1>1 DEF InCall, InAnswer, SessionToken
    <2> QED BY <1>1, <2>1 DEF Held
  <1>9. /\ live' \subseteq live /\ closed \subseteq closed' /\ stray' = stray
        /\ closed' \ closed \subseteq Named(r) \union Held(r)
    BY <1>1, <1>2, <1>3 DEF Held
  <1> QED BY <1>1, <1>2, <1>4, <1>5, <1>6, <1>7, <1>8, <1>9 DEF Moves, Others

LEMMA LogoutFailsMoves == ASSUME IInv, NEW r \in Requests, LogoutFails(r) PROVE Moves(r)
  <1>1. /\ req' \in [Requests -> RequestSet] /\ Others(r)
        /\ req'[r].web = "answered" /\ req'[r].answer = "forgotten"
        /\ req'[r].token = NoToken /\ req'[r].new = NoToken
        /\ UNCHANGED <<live, issued, hasProfile, cookies, call>> /\ req[r].web = "authenticated"
        /\ stray' = stray \union ({SessionToken(r)} \intersect live)
        /\ closed' = closed \union ({req[r].token} \ live)
    BY Answered DEF LogoutFails, Answers, Others, LeaveBehind
  <1>2. req[r].token # NoToken /\ NoToken \notin live \union closed
    BY <1>1, Types DEF IInv, Sound
  <1>3. Sound(r)'
    BY <1>1 DEF IInv, Tables, Known, Sound, Held, InCall, InAnswer, Named
  <1>4. Replaces(r, cookies.refresh) => cookies.refresh \in closed'
    BY <1>1, <1>2 DEF IInv, Sound, Replaces
  <1>5. Held(r)' \subseteq Held(r) /\ Held(r) \ Held(r)' \subseteq stray'
    <2>1. /\ InCall(r)' = InCall(r) /\ InAnswer(r)' = {} /\ InAnswer(r) \subseteq live
          /\ InAnswer(r) \subseteq {SessionToken(r)}
      BY <1>1 DEF InCall, InAnswer, SessionToken, Held, IInv, Sound
    <2> QED BY <1>1, <2>1 DEF Held
  <1>6. /\ Named(r)' \subseteq Named(r) /\ closed \subseteq closed'
        /\ closed' \subseteq closed \union Named(r) /\ closed' \intersect live = {}
        /\ stray \subseteq stray' /\ stray' \subseteq stray \union live
    BY <1>1, <1>2, Types DEF Named
  <1>7. Quiet(r)
    BY <1>1, <1>3, <1>4, <1>5, <1>6, Types DEF Quiet, Others
  <1> QED BY <1>7, QuietMoves

LEMMA LogoutThrowsMoves == ASSUME IInv, NEW r \in Requests, LogoutThrows(r) PROVE Moves(r)
  <1>1. CASE UNCHANGED <<live, closed>>
    BY <1>1, PassedMoves, Types DEF LogoutThrows
  <1>2. CASE /\ live' = live \ {SessionToken(r)}
             /\ closed' = closed \union {req[r].token, SessionToken(r)}
    <2>1. /\ UNCHANGED <<issued, hasProfile, cookies, call, stray>> /\ req[r].web = "authenticated"
          /\ req' \in [Requests -> RequestSet] /\ Others(r)
          /\ req[r].new = NoToken => req'[r] = Idle
          /\ req[r].new # NoToken =>
               /\ req'[r].web = "answered" /\ req'[r].answer = "tokens"
               /\ req'[r].token = req[r].token /\ req'[r].new = req[r].new
      BY Answered DEF LogoutThrows, ProxyCookies, Answers, Others
    <2>2. /\ Known' = Known /\ issued <= issued' /\ Named(r) \subseteq Known
          /\ req[r].token \in Named(r) /\ NoToken \notin Known /\ req[r].answer = "nothing"
          /\ req[r].token \notin Held(r) /\ live \subseteq Known
      BY <2>1, Types DEF Known, Tokens, IInv, Sound, Named, NewTokensApart
    <2>3. /\ SessionToken(r) \in Named(r) \union InAnswer(r) /\ SessionToken(r) \in Known
          /\ SessionToken(r) \notin InCall(r)
          /\ req[r].new # NoToken => SessionToken(r) = req[r].new /\ req[r].token \notin live
          /\ req[r].new = NoToken => SessionToken(r) = req[r].token
      <3>1. req[r].new # NoToken => req[r].new \in InAnswer(r)
        BY <2>1, Types DEF IInv, Sound, InAnswer
      <3> QED BY <2>1, <2>2, <3>1 DEF SessionToken, IInv, Sound, Held, InAnswer
    <2>4. /\ InCall(r)' = InCall(r) /\ InAnswer(r)' = {} /\ Held(r)' = InCall(r)
          /\ InAnswer(r) \subseteq {SessionToken(r)} /\ Named(r)' \subseteq Named(r)
      BY <1>2, <2>1, <2>3 DEF InCall, InAnswer, Held, Named, SessionToken, Idle
    <2>5. Sound(r)'
      <3>1. CASE req[r].new = NoToken
        BY <1>2, <2>1, <2>2, <2>3, <2>4, <3>1 DEF IInv, Sound, Held, Named, Idle
      <3>2. CASE req[r].new # NoToken
        BY <1>2, <2>1, <2>2, <2>3, <2>4, <3>2 DEF IInv, Sound, Held, Named
      <3> QED BY <3>1, <3>2
    <2>6. Tables'
      BY <1>2, <2>1, <2>2, <2>3 DEF IInv, Tables
    <2>7. TypeOK'
      BY <1>2, <2>1, <2>2, <2>6, Types DEF TypeOK, Tables, RequestSet, CallSet, Word
    <2>8. /\ live' \subseteq live /\ live \ live' \subseteq Named(r) \union Held(r)
          /\ closed \subseteq closed' /\ closed' \ closed \subseteq Named(r) \union Held(r)
          /\ Held(r)' \subseteq Held(r) /\ \A t \in Held(r) : t \in Held(r)' \/ t \notin live'
      BY <1>2, <2>2, <2>3, <2>4 DEF Held
    <2>9. \/ cookies.refresh \in live' \union closed'
          \/ cookies.refresh \notin live \union closed /\ ~Replaces(r, cookies.refresh)
      BY <1>2, <2>1 DEF Replaces
    <2> QED BY <2>1, <2>2, <2>4, <2>5, <2>6, <2>7, <2>8, <2>9 DEF Moves, Others
  <1> QED BY <1>1, <1>2 DEF LogoutThrows

LEMMA CreateProfileMoves == ASSUME IInv, NEW r \in Requests, CreateProfile(r) PROVE Moves(r)
  <1>1. /\ UNCHANGED <<live, issued, cookies, call, closed, stray>> /\ hasProfile' \in BOOLEAN
        /\ req[r].web = "authenticated"
    BY DEF CreateProfile
  <1>2. CASE req[r].new = NoToken /\ Answer(r, "nothing")
    BY <1>1, <1>2, PassedMoves DEF ProxyCookies
  <1>3. CASE req[r].new = NoToken /\ Answer(r, "profile")
    <2>1. /\ req' \in [Requests -> RequestSet] /\ Others(r)
          /\ req'[r].web = "answered" /\ req'[r].answer = "profile"
          /\ req'[r].token = NoToken /\ req'[r].new = NoToken
      BY <1>1, <1>3, Answered DEF Answers, Others
    <2>2. Sound(r)'
      BY <1>1, <2>1 DEF IInv, Tables, Known, Sound, Held, InCall, InAnswer, Named
    <2>3. ~Replaces(r, cookies.refresh)
      BY <1>1, <1>3, Types DEF Replaces
    <2>4. Held(r)' = Held(r) /\ Named(r)' \subseteq Named(r)
      BY <1>1, <1>3, <2>1 DEF Held, InCall, InAnswer, Named
    <2>5. Quiet(r)
      BY <1>1, <2>1, <2>2, <2>3, <2>4, Types DEF Quiet
    <2> QED BY <2>5, QuietMoves
  <1>4. CASE req[r].new # NoToken
    <2>1. PICK web \in WebStates, answer \in Answers, has \in BOOLEAN :
            web = "answered" /\ answer = "tokens" /\ has = (req[r].has \/ ~hasProfile)
      BY Fields, Types DEF WebStates, Answers
    <2>2. req' = [req EXCEPT ![r].web = web, ![r].answer = answer, ![r].has = has]
      BY <1>4, <2>1 DEF CreateProfile
    <2>3. req' \in [Requests -> RequestSet]
      <3>1. req \in [Requests -> RequestSet]
        BY Types
      <3> QED BY <2>2, <3>1 DEF RequestSet
    <2>4. /\ req'[r].web = "answered" /\ req'[r].new = req[r].new
          /\ req'[r].token = req[r].token /\ req'[r].answer = "tokens"
      BY <2>1, <2>2, Types DEF RequestSet
    <2>5. Others(r)
      BY <1>1, <2>2, Types DEF Others
    <2>6. Sound(r)'
      BY <1>1, <1>4, <2>4 DEF IInv, Tables, Known, Sound, Held, InCall, InAnswer, Named
    <2>7. Quiet(r)
      BY <1>1, <2>3, <2>4, <2>5, <2>6, Types
      DEF Quiet, IInv, Sound, Held, InCall, InAnswer, Named, Replaces
    <2> QED BY <2>7, QuietMoves
  <1> QED BY <1>2, <1>3, <1>4 DEF CreateProfile

LEMMA CreateProfileFailsMoves ==
    ASSUME IInv, NEW r \in Requests, CreateProfileFails(r) PROVE Moves(r)
  BY PassedMoves, Types DEF CreateProfileFails

-----------------------------------------------------------------------------
(* The browser's steps                                                     *)

LEMMA SendMoves ==
    ASSUME IInv, NEW r \in Requests, NEW kind \in Kinds, Send(r, kind) PROVE Moves(r)
  <1>1. PICK web \in WebStates, token \in Word :
          /\ token = cookies.refresh
          /\ web = IF cookies.access THEN "authenticated"
                   ELSE IF cookies.refresh # NoToken THEN "refreshing" ELSE "anonymous"
    BY Types DEF WebStates, Word
  <1>2. req' = [req EXCEPT ![r] = [Idle EXCEPT !.kind = kind, !.token = token, !.web = web]]
    BY <1>1, Types DEF Send
  <1>3. /\ [Idle EXCEPT !.kind = kind, !.token = token, !.web = web].web = web
        /\ [Idle EXCEPT !.kind = kind, !.token = token, !.web = web].token = token
        /\ [Idle EXCEPT !.kind = kind, !.token = token, !.web = web].new = NoToken
        /\ [Idle EXCEPT !.kind = kind, !.token = token, !.web = web].answer = "nothing"
    BY DEF Idle
  <1>4. [Idle EXCEPT !.kind = kind, !.token = token, !.web = web] \in RequestSet
    BY Defaults DEF RequestSet
  <1>5. /\ req' \in [Requests -> RequestSet] /\ \A s \in Requests \ {r} : req'[s] = req[s]
        /\ req'[r].web = web /\ req'[r].token = token
        /\ req'[r].new = NoToken /\ req'[r].answer = "nothing"
    BY <1>2, <1>3, <1>4, Types
  <1>6. /\ UNCHANGED <<live, issued, hasProfile, cookies, closed, stray>>
        /\ req[r].web = "idle" /\ call[r].state = "none"
        /\ call' = IF web = "refreshing"
                   THEN [call EXCEPT ![r].state = "find", ![r].token = token] ELSE call
    BY <1>1, Types DEF Send
  <1>7. /\ call' \in [Requests -> CallSet] /\ \A s \in Requests \ {r} : call'[s] = call[s]
        /\ web = "refreshing" => call'[r].state = "find" /\ call'[r].token = token
        /\ web # "refreshing" => call'[r] = call[r]
    <2>1. CASE web = "refreshing"
      <3>1. PICK state \in CallStates : state = "find"
        BY DEF CallStates
      <3>2. call' = [call EXCEPT ![r].state = state, ![r].token = token]
        BY <1>6, <2>1, <3>1
      <3>3. call \in [Requests -> CallSet]
        BY Types
      <3>4. call' \in [Requests -> CallSet]
        BY <3>2, <3>3 DEF CallSet
      <3>5. call'[r].state = "find" /\ call'[r].token = token
        BY <3>1, <3>2, <3>3 DEF CallSet
      <3> QED BY <2>1, <3>2, <3>3, <3>4, <3>5
    <2>2. CASE web # "refreshing"
      BY <1>6, <2>2, Types
    <2> QED BY <2>1, <2>2
  <1>8. /\ web \in {"authenticated", "refreshing", "anonymous"}
        /\ web \in {"authenticated", "refreshing"} => token \in Known /\ token # NoToken
        /\ token \in Known \union {NoToken}
    BY <1>1, Types DEF IInv, Tables
  <1>9. Sound(r)'
    <2>1. Known' = Known /\ live' = live
      BY <1>6 DEF Known
    <2> QED BY <1>5, <1>6, <1>7, <1>8, <2>1 DEF IInv, Sound, Held, InCall, InAnswer, Named
  <1>10. Held(r)' = {} /\ Held(r) = {} /\ Named(r)' \subseteq Named(r) \union {cookies.refresh}
    BY <1>1, <1>5, <1>6, <1>7 DEF Held, InCall, InAnswer, Named
  <1>11. ~Replaces(r, cookies.refresh)
    BY <1>6 DEF Replaces
  <1>12. Quiet(r)
    BY <1>5, <1>6, <1>7, <1>9, <1>10, <1>11, Types DEF Quiet, Others
  <1> QED BY <1>12, QuietMoves

LEMMA LoseMoves == ASSUME IInv, NEW r \in Requests, Lose(r) PROVE Moves(r)
  <1>1. /\ req' \in [Requests -> RequestSet] /\ Others(r) /\ req'[r] = Idle
        /\ UNCHANGED <<live, issued, hasProfile, cookies, call>> /\ req[r].web = "answered"
        /\ stray' = stray \union ((IF req[r].answer = "tokens" THEN {req[r].new} ELSE {}) \intersect live)
    BY Types, Defaults DEF Lose, Others, LeaveBehind
  <1>2. /\ req'[r].web = "idle" /\ req'[r].answer = "nothing"
        /\ req'[r].token = NoToken /\ req'[r].new = NoToken
    BY <1>1 DEF Idle
  <1>3. /\ closed \subseteq closed' /\ closed' \subseteq closed \union Named(r)
        /\ req[r].answer = "tokens" => req[r].token \in closed' \union {NoToken}
        /\ closed' \intersect live = {}
    BY Types DEF Lose, Named, IInv, Sound
  <1>4. Sound(r)'
    BY <1>1, <1>2, <1>3 DEF IInv, Tables, Known, Sound, Held, InCall, InAnswer, Named
  <1>5. Replaces(r, cookies.refresh) => cookies.refresh \in closed' \union {NoToken}
    <2>1. NoToken \notin live \union closed /\ req[r].answer \in Answers
      BY Types DEF RequestSet
    <2> QED BY <1>1, <1>3, <2>1 DEF IInv, Sound, Replaces, Answers
  <1>6. Held(r)' \subseteq Held(r) /\ Held(r) \ Held(r)' \subseteq stray'
    <2>1. InCall(r)' = InCall(r) /\ InAnswer(r)' = {} /\ InAnswer(r) \subseteq live
      BY <1>1, <1>2 DEF InCall, InAnswer, Held, IInv, Sound
    <2>2. req[r].answer \in Answers
      BY Types DEF RequestSet
    <2>3. InAnswer(r) # {} => req[r].answer = "tokens" /\ InAnswer(r) = {req[r].new}
      BY <1>1, <2>2 DEF InAnswer, IInv, Sound, Answers
    <2> QED BY <1>1, <2>1, <2>3 DEF Held
  <1>7. /\ Named(r)' \subseteq Named(r)
        /\ stray \subseteq stray' /\ stray' \subseteq stray \union live
    BY <1>1, <1>2 DEF Named
  <1>8. Quiet(r)
    BY <1>1, <1>3, <1>4, <1>5, <1>6, <1>7, Types DEF Quiet
  <1> QED BY <1>8, QuietMoves

LEMMA ReceiveMoves == ASSUME IInv, NEW r \in Requests, Receive(r) PROVE Moves(r)
  <1>1. /\ req' \in [Requests -> RequestSet] /\ Others(r) /\ req'[r] = Idle
        /\ UNCHANGED <<live, issued, hasProfile, call, closed>> /\ req[r].web = "answered"
        /\ stray' = stray \union ((IF req[r].answer = "profile" THEN {}
                                   ELSE {cookies.refresh} \ {req[r].token}) \intersect live)
    BY Types, Defaults DEF Receive, Others, LeaveBehind
  <1>2. /\ req'[r].web = "idle" /\ req'[r].answer = "nothing"
        /\ req'[r].token = NoToken /\ req'[r].new = NoToken
    BY <1>1 DEF Idle
  <1>3. req[r].answer \in {"tokens", "profile", "loggedOut", "forgotten"}
    <2>1. req[r].answer \in Answers
      BY Types DEF RequestSet
    <2> QED BY <1>1, <2>1 DEF IInv, Sound, Answers
  <1>4. /\ cookies' \in [access : BOOLEAN, refresh : Word, has : BOOLEAN]
        /\ req[r].answer = "tokens" => cookies'.refresh = req[r].new
        /\ req[r].answer = "profile" =>
             cookies'.refresh = cookies.refresh /\ cookies'.access = cookies.access
        /\ req[r].answer \in {"loggedOut", "forgotten"} =>
             cookies'.refresh = NoToken /\ cookies'.access = FALSE
    BY <1>3, Types, Fields DEF Receive, Word
  <1>5. /\ req[r].answer = "tokens" =>
             /\ req[r].new \in live \union closed /\ req[r].new # NoToken
             /\ req[r].new \in live => req[r].new \in InAnswer(r) /\ req[r].new \notin InCall(r)
        /\ req[r].answer = "profile" => ~Replaces(r, cookies.refresh)
    BY <1>1, Types DEF IInv, Sound, Held, InAnswer, Replaces
  <1>6. Known' = Known /\ issued <= issued'
    BY <1>1, Types DEF Known, Tokens
  <1>7. Sound(r)'
    BY <1>1, <1>2 DEF IInv, Tables, Known, Sound, Held, InCall, InAnswer, Named
  <1>8. Tables'
    BY <1>1, <1>3, <1>4, <1>5, <1>6 DEF IInv, Tables
  <1>9. TypeOK'
    BY <1>1, <1>4, <1>6, <1>8, Types DEF TypeOK, Tables, RequestSet, CallSet, Word
  <1>10. /\ Held(r)' = InCall(r) /\ Held(r)' \subseteq Held(r)
         /\ Named(r)' \subseteq Named(r)
    BY <1>1, <1>2 DEF Held, InCall, InAnswer, Named
  <1>11. cookies'.refresh \in {cookies.refresh, NoToken} \union closed \union (Held(r) \ Held(r)')
    BY <1>3, <1>4, <1>5, <1>10 DEF Held
  <1>12. \/ cookies'.refresh \in live' \union closed' \union {NoToken}
         \/ /\ cookies'.refresh = cookies.refresh
            /\ cookies.refresh \notin live \union closed /\ ~Replaces(r, cookies.refresh)
    BY <1>1, <1>3, <1>4, <1>5
  <1>13. ASSUME NEW t \in live, t = cookies.refresh, t # cookies'.refresh
         PROVE  t \in stray'
    <2>1. req[r].answer # "profile" /\ t # req[r].token
      BY <1>1, <1>3, <1>4, <1>5, <1>13, Types DEF IInv, Sound
    <2> QED BY <1>1, <1>13, <2>1
  <1>14. ASSUME NEW t \in Held(r), t \notin Held(r)' PROVE t = cookies'.refresh
    <2>1. t \in InAnswer(r)
      BY <1>10, <1>14 DEF Held
    <2> QED BY <1>3, <1>4, <2>1 DEF InAnswer, IInv, Sound
  <1>15. stray \subseteq stray'
    BY <1>1
  <1> QED BY <1>1, <1>6, <1>7, <1>8, <1>9, <1>10, <1>11, <1>12, <1>13, <1>14, <1>15
          DEF Moves, Others

\* The two steps that are no request's.
LEMMA ExpireAccessKeeps == ASSUME IInv, ExpireAccess PROVE IInv'
  <1>1. /\ UNCHANGED <<live, issued, hasProfile, req, call, closed, stray>>
        /\ cookies'.refresh = cookies.refresh /\ cookies'.access = FALSE
        /\ cookies' \in [access : BOOLEAN, refresh : Word, has : BOOLEAN]
    BY Types DEF ExpireAccess
  <1>2. TypeOK' /\ Tables'
    BY <1>1 DEF IInv, TypeOK, Tables, Word, Known
  <1>3. ASSUME NEW r \in Requests
        PROVE  /\ Held(r)' = Held(r) /\ Named(r)' = Named(r) /\ Sound(r)'
               /\ Replaces(r, cookies.refresh)' = Replaces(r, cookies.refresh)
    BY <1>1 DEF IInv, Sound, Held, InCall, InAnswer, Named, Replaces, Known
  <1> QED BY <1>1, <1>2, <1>3 DEF IInv, NewTokensApart, SessionKept, Accounted

LEMMA ExpireRefreshKeeps == ASSUME IInv, ExpireRefresh PROVE IInv'
  <1>1. /\ UNCHANGED <<issued, hasProfile, req, call, stray>>
        /\ live' = live \ {cookies.refresh} /\ closed' = closed \union {cookies.refresh}
        /\ cookies'.refresh = NoToken /\ cookies'.access = FALSE /\ cookies.refresh \in Known
        /\ cookies' \in [access : BOOLEAN, refresh : Word, has : BOOLEAN]
        /\ \A r \in Requests : req[r].web = "idle" /\ call[r].state = "none"
    BY Types DEF ExpireRefresh, Word
  <1>2. TypeOK' /\ Tables'
    BY <1>1, Types DEF IInv, TypeOK, Tables, Word, Known
  <1>3. \A r \in Requests : Held(r)' = {}
    BY <1>1 DEF Held, InCall, InAnswer
  <1>4. \A r \in Requests : Sound(r)'
    BY <1>1, <1>3 DEF IInv, Sound, Held, Named, Known
  <1>5. NewTokensApart' /\ SessionKept' /\ Accounted'
    <2>1. \A r \in Requests : Held(r) = {}
      BY <1>1 DEF Held, InCall, InAnswer
    <2>2. Accounted'
      BY <1>1, <2>1 DEF IInv, Accounted
    <2> QED BY <1>1, <1>3, <2>2 DEF NewTokensApart, SessionKept
  <1> QED BY <1>2, <1>4, <1>5 DEF IInv

-----------------------------------------------------------------------------
(* The theorems                                                            *)

\* The invariant holds: what the other theorems rest on.
THEOREM InvHolds == Spec => []IInv
  <1>1. Init => IInv
    <2>1. SUFFICES ASSUME Init PROVE IInv
      OBVIOUS
    <2>2. TypeOK /\ Tables
      <3>1. req \in [Requests -> RequestSet] /\ call \in [Requests -> CallSet]
        BY <2>1, Defaults DEF Init
      <3>2. /\ live = {1} /\ issued = 1 /\ closed = {} /\ stray = {} /\ hasProfile = FALSE
            /\ 1 \in Tokens
            /\ cookies.refresh = 1 /\ cookies \in [access : BOOLEAN, refresh : Word, has : BOOLEAN]
        BY <2>1 DEF Init, Tokens, Word
      <3>3. Known = {1}
        BY <3>2 DEF Known
      <3>4. TypeOK
        BY <3>1, <3>2 DEF TypeOK, RequestSet, CallSet, Word
      <3>5. Tables
        BY <3>2, <3>3 DEF Tables
      <3> QED BY <3>4, <3>5
    <2>3. ASSUME NEW r \in Requests
          PROVE  Held(r) = {} /\ Named(r) = {} /\ Sound(r)
      BY <2>1 DEF Init, Held, InCall, InAnswer, Named, Sound, Idle, NoCall
    <2> QED BY <2>1, <2>2, <2>3 DEF Init, IInv, NewTokensApart, SessionKept, Accounted
  <1>2. IInv /\ [Next]_vars => IInv'
    <2>1. SUFFICES ASSUME IInv, [Next]_vars PROVE IInv'
      OBVIOUS
    <2>2. CASE UNCHANGED vars
      <3>1. TypeOK' /\ Tables'
        BY <2>1, <2>2 DEF vars, IInv, TypeOK, Tables, Known
      <3>2. ASSUME NEW r \in Requests
            PROVE  /\ Held(r)' = Held(r) /\ Named(r)' = Named(r) /\ Sound(r)'
                   /\ Replaces(r, cookies.refresh)' = Replaces(r, cookies.refresh)
        BY <2>1, <2>2 DEF vars, IInv, Sound, Held, InCall, InAnswer, Named, Replaces, Known
      <3> QED BY <2>1, <2>2, <3>1, <3>2 DEF vars, IInv, NewTokensApart, SessionKept, Accounted
    <2>3. ASSUME NEW r \in Requests, NEW kind \in Kinds, Send(r, kind) PROVE IInv'
      BY <2>1, <2>3, SendMoves, MovesKeep
    <2>4. ASSUME NEW r \in Requests,
                 \/ Receive(r) \/ Lose(r) \/ Api(r)
                 \/ Refreshed(r) \/ NotRefreshed(r) \/ Timeout(r) \/ Pass(r) \/ Redirect(r)
                 \/ Login(r) \/ LoginFails(r) \/ Logout(r) \/ LogoutFails(r) \/ LogoutThrows(r)
                 \/ CreateProfile(r) \/ CreateProfileFails(r)
          PROVE  IInv'
      <3>1. CASE Api(r)
        BY <2>1, <3>1, RefreshFindMoves, RefreshCreateMoves, RefreshDeleteMoves,
           RefreshProfileMoves, RefreshFailsMoves, CallEndsMoves, MovesKeep DEF Api
      <3>2. CASE Receive(r) \/ Lose(r)
        BY <2>1, <3>2, ReceiveMoves, LoseMoves, MovesKeep
      <3>3. CASE Refreshed(r) \/ NotRefreshed(r) \/ Timeout(r) \/ Pass(r) \/ Redirect(r)
        BY <2>1, <3>3, RefreshedMoves, NotRefreshedMoves, TimeoutMoves, PassMoves,
           RedirectMoves, MovesKeep
      <3>4. CASE Login(r) \/ LoginFails(r) \/ Logout(r) \/ LogoutFails(r) \/ LogoutThrows(r)
        BY <2>1, <3>4, LoginMoves, LoginFailsMoves, LogoutMoves, LogoutFailsMoves,
           LogoutThrowsMoves, MovesKeep
      <3>5. CASE CreateProfile(r) \/ CreateProfileFails(r)
        BY <2>1, <3>5, CreateProfileMoves, CreateProfileFailsMoves, MovesKeep
      <3> QED BY <2>4, <3>1, <3>2, <3>3, <3>4, <3>5
    <2>5. CASE ExpireAccess
      BY <2>1, <2>5, ExpireAccessKeeps
    <2>6. CASE ExpireRefresh
      BY <2>1, <2>6, ExpireRefreshKeeps
    <2> QED BY <2>1, <2>2, <2>3, <2>4, <2>5, <2>6 DEF Next
  <1> QED BY <1>1, <1>2, PTL DEF Spec

\* TypeOK: tokens, cookies, requests and calls keep their types.
THEOREM SessionTypes == Spec => []TypeOK
  <1>1. IInv => TypeOK
    BY DEF IInv
  <1> QED BY <1>1, InvHolds, PTL

\* SessionKept: parallel refreshes, timeouts and late answers never cost the browser a
\* session that no logout, expiry or lost answer has ended.
THEOREM SessionIsKept == Spec => []SessionKept
  <1>1. IInv => SessionKept
    BY DEF IInv
  <1> QED BY <1>1, InvHolds, PTL

\* LogoutRevokes: an answered logout has revoked both tokens it may have been about, and
\* what a logout, a rotation or expiry has ended never becomes valid again.
THEOREM LogoutsRevoke == Spec => []LogoutRevokes
  <1>1. IInv => LogoutRevokes
    BY DEF IInv, Tables, Sound, LogoutRevokes
  <1> QED BY <1>1, InvHolds, PTL

\* NoTokenLeftBehind: every valid token is in the browser, on its way there, or was left
\* behind by a failure, a lost answer or a later one.
THEOREM TokensAccounted == Spec => []NoTokenLeftBehind
  <1>1. IInv => NoTokenLeftBehind
    <2>1. SUFFICES ASSUME IInv, NEW t \in live, NEW r \in Requests, t \in Held(r)
                   PROVE  t \in UnderWay(r)
      BY DEF NoTokenLeftBehind, IInv, Accounted
    <2>2. t \in Tokens
      BY <2>1, Types
    <2> QED BY <2>1, <2>2 DEF UnderWay, Held, InCall, InAnswer
  <1> QED BY <1>1, InvHolds, PTL
=============================================================================
