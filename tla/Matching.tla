------------------------------ MODULE Matching ------------------------------
(***************************************************************************)
(* POST /likes and POST /skips (apps/api/usecases/like_usecase.go and      *)
(* skip_usecase.go) as concurrent requests against PostgreSQL.             *)
(*                                                                         *)
(* SendLike opens no transaction: each repository call is one              *)
(* auto-committed statement, so a request is a process that takes one step *)
(* per statement and the statements of different requests interleave       *)
(* freely.  A request may end after any of them with an error (the driver  *)
(* reports one, the statement times out, the API process dies); what it    *)
(* has committed by then stays in the tables.  A statement that commits    *)
(* but whose caller sees an error is that step followed by Fail.           *)
(***************************************************************************)
EXTENDS Integers

CONSTANTS Users,     \* ids of the rows of table users
          UserIds,   \* ids a client can put in a request
          Requests   \* request slots: how many requests run at one time

ASSUME UsersAssumption == UserIds \subseteq Nat \ {0} /\ Users \subseteq UserIds

VARIABLES likes,        \* table likes: pairs <<from_user_id, to_user_id>>
          skips,        \* table skips, in the same form
          matches,      \* table matches: rows [id, user1, user2]
          nextMatchId,  \* the sequence behind matches.id
          req,          \* the local state of each request
          ended         \* history: how the request that made a like ended

tables == <<likes, skips, matches, nextMatchId>>
vars == <<tables, req, ended>>

Pairs == Users \X Users
Reverse(p) == <<p[2], p[1]>>

\* Where a request is: the statement it executes next.
LikePC == {"likeUser", "createLike", "hasLiked", "createMatch", "getMatch"}
SkipPC == {"skipUser", "createSkip"}
PC == {"idle", "answered"} \union LikePC \union SkipPC

\* The steps of SendLike after its INSERT INTO likes has committed.
LikedPC == {"hasLiked", "createMatch", "getMatch"}

\* What the client is told.  "pending" is {matched: false}; "conflict" is 409.
Results == {"none", "self", "notFound", "conflict", "pending", "matched",
            "skipped", "error"}

Request(pc, from, to, result) ==
    [pc |-> pc, from |-> from, to |-> to, result |-> result, matchId |-> 0]

Idle == Request("idle", 0, 0, "none")

\* How a like's request ended, "refused" being a violated CHECK of matches.
Endings == {"none", "running", "pending", "matched", "failed", "refused"}

Init ==
    /\ likes = {} /\ skips = {} /\ matches = {} /\ nextMatchId = 1
    /\ req = [r \in Requests |-> Idle]
    /\ ended = [p \in Pairs |-> "none"]

-----------------------------------------------------------------------------

Pair(r) == <<req[r].from, req[r].to>>

\* Mutant: the sender is always user1.
CanonicalUnswapped(p) == p

\* matches.user1_id is the smaller of the two user ids.
Canonical(p) == IF p[1] > p[2] THEN Reverse(p) ELSE p

RowsOf(p) == {m \in matches : <<m.user1, m.user2>> = Canonical(p)}
IsMatched(p) == RowsOf(p) # {}

Goto(r, pc) == req' = [req EXCEPT ![r].pc = pc]

Answer(r, result, id) ==
    req' = [req EXCEPT ![r].pc = "answered", ![r].result = result,
                       ![r].matchId = id]

\* A request whose like is in the table ends; the history notes how.
EndLike(r, result, id, ending) ==
    /\ Answer(r, result, id)
    /\ ended' = [ended EXCEPT ![Pair(r)] = ending]

-----------------------------------------------------------------------------

\* A request arrives; one about the sender itself is answered at once.
Begin(r, pc, from, to) ==
    /\ req[r].pc = "idle"
    /\ req' = [req EXCEPT ![r] =
         IF from = to THEN Request("answered", from, to, "self")
                      ELSE Request(pc, from, to, "none")]
    /\ UNCHANGED <<tables, ended>>

BeginLike(r, from, to) == Begin(r, "likeUser", from, to)
BeginSkip(r, from, to) == Begin(r, "skipUser", from, to)

\* GetUserByID(toUserID)
CheckUser(r) ==
    /\ req[r].pc \in {"likeUser", "skipUser"}
    /\ IF req[r].to \notin Users
       THEN Answer(r, "notFound", 0)
       ELSE Goto(r, IF req[r].pc = "likeUser" THEN "createLike" ELSE "createSkip")
    /\ UNCHANGED <<tables, ended>>

\* INSERT INTO likes; the unique index on (from_user_id, to_user_id) decides.
CreateLike(r) ==
    /\ req[r].pc = "createLike"
    /\ IF Pair(r) \in likes
       THEN Answer(r, "conflict", 0) /\ UNCHANGED <<likes, ended>>
       ELSE /\ likes' = likes \union {Pair(r)}
            /\ ended' = [ended EXCEPT ![Pair(r)] = "running"]
            /\ Goto(r, "hasLiked")
    /\ UNCHANGED <<skips, matches, nextMatchId>>

\* Has the partner liked the sender by now?
HasLiked(r) ==
    /\ req[r].pc = "hasLiked"
    /\ IF Reverse(Pair(r)) \in likes
       THEN Goto(r, "createMatch") /\ UNCHANGED ended
       ELSE EndLike(r, "pending", 0, "pending")
    /\ UNCHANGED tables

AddMatch(c) == matches' = matches \union
                   {[id |-> nextMatchId, user1 |-> c[1], user2 |-> c[2]]}

\* Mutant: a duplicate is answered with the id of the row that was refused.
CreateMatchIgnoringDuplicate(r) ==
    /\ req[r].pc = "createMatch"
    /\ IF IsMatched(Pair(r)) THEN UNCHANGED matches ELSE AddMatch(Canonical(Pair(r)))
    /\ EndLike(r, "matched", nextMatchId, "matched")
    /\ nextMatchId' = nextMatchId + 1
    /\ UNCHANGED <<likes, skips>>

\* INSERT INTO matches: a CHECK (user1_id < user2_id) and a unique index on
\* the pair.  A refused insert uses up an id of the sequence all the same.
CreateMatch(r) ==
    /\ req[r].pc = "createMatch"
    /\ LET c == Canonical(Pair(r)) IN
       IF c[1] >= c[2]
       THEN EndLike(r, "error", 0, "refused") /\ UNCHANGED matches
       ELSE \/ /\ IsMatched(c)
               /\ Goto(r, "getMatch")
               /\ UNCHANGED <<matches, ended>>
            \/ /\ ~ IsMatched(c)
               /\ AddMatch(c)
               /\ EndLike(r, "matched", nextMatchId, "matched")
    /\ nextMatchId' = nextMatchId + 1
    /\ UNCHANGED <<likes, skips>>

\* GetMatchByUserIDs after a duplicate: answer with the row that is there.
GetMatch(r) ==
    /\ req[r].pc = "getMatch"
    /\ IF IsMatched(Pair(r))
       THEN \E m \in RowsOf(Pair(r)) : EndLike(r, "matched", m.id, "matched")
       ELSE EndLike(r, "error", 0, "refused")
    /\ UNCHANGED tables

\* INSERT INTO skips, the last statement of SendSkip.
CreateSkip(r) ==
    /\ req[r].pc = "createSkip"
    /\ IF Pair(r) \in skips
       THEN Answer(r, "conflict", 0) /\ UNCHANGED skips
       ELSE skips' = skips \union {Pair(r)} /\ Answer(r, "skipped", 0)
    /\ UNCHANGED <<likes, matches, nextMatchId, ended>>

\* The next statement fails, or the process dies before executing it.
Fail(r) ==
    /\ req[r].pc \notin {"idle", "answered"}
    /\ IF req[r].pc \in LikedPC
       THEN EndLike(r, "error", 0, "failed")
       ELSE Answer(r, "error", 0) /\ UNCHANGED ended
    /\ UNCHANGED tables

\* The client takes the answer (or has gone away); the slot is free again.
Receive(r) ==
    /\ req[r].pc = "answered"
    /\ req' = [req EXCEPT ![r] = Idle]
    /\ UNCHANGED <<tables, ended>>

\* One step of the API's own work on request r.
Step(r) ==
    \/ CheckUser(r)
    \/ CreateLike(r)
    \/ HasLiked(r)
    \/ CreateMatch(r)
    \/ GetMatch(r)
    \/ CreateSkip(r)

Next ==
    \E r \in Requests :
      \/ \E from \in Users, to \in UserIds : BeginLike(r, from, to)
      \/ \E from \in Users, to \in UserIds : BeginSkip(r, from, to)
      \/ Step(r)
      \/ Fail(r)
      \/ Receive(r)

Spec == Init /\ [][Next]_vars

\* Gin runs each request on a goroutine of its own and every statement
\* returns, so a request that has started goes on to its answer.
Fairness == \A r \in Requests : WF_vars(Step(r))

FairSpec == Spec /\ Fairness

-----------------------------------------------------------------------------
(* Properties                                                              *)

RequestState == [pc : PC, from : Users \union {0}, to : UserIds \union {0},
               result : Results, matchId : Nat]

\* The types of the tables, of the requests' local state and of the history.
TypeOK ==
    /\ likes \subseteq Pairs /\ skips \subseteq Pairs
    /\ matches \subseteq [id : Nat \ {0}, user1 : Users, user2 : Users]
    /\ nextMatchId \in Nat \ {0}
    /\ req \in [Requests -> RequestState]
    /\ ended \in [Pairs -> Endings]

\* A row of matches is backed by a like in either direction: no interleaving
\* of two SendLike calls matches users who have not both liked.
MatchNeedsMutualLike ==
    \A m \in matches : /\ <<m.user1, m.user2>> \in likes
                       /\ <<m.user2, m.user1>> \in likes

\* Two users share at most one match, whoever of the two liked last, and a
\* match id names one pair: what /matches/{id} and the messages hang on.
OneMatchPerPair ==
    \A m, n \in matches :
        \/ {m.user1, m.user2} = {n.user1, n.user2}
        \/ m.id = n.id
        => m = n

\* The likes of p and its reverse are both in and both their requests done.
Settled(p) == \A q \in {p, Reverse(p)} : q \in likes /\ ended[q] # "running"

FailedEither(p) == "failed" \in {ended[p], ended[Reverse(p)]}

\* No mutual like is lost to the race of two SendLike calls, each of which
\* inserts its own like and then looks for the other's: once both are done
\* there is a match, unless one of them was cut short by a failure.
NoLostMatch == \A p \in likes : Settled(p) /\ ~ FailedEither(p) => IsMatched(p)

\* Of two users who come to like each other, one at least is answered
\* matched: true, the answer that makes the web client show the match.
SomeoneIsTold ==
    \A p \in likes : Settled(p) /\ ~ FailedEither(p) =>
        "matched" \in {ended[p], ended[Reverse(p)]}

\* An answer matched: true carries the id of the pair's row, also when the
\* request lost the race to insert it and fetched the other's row.
MatchedAnswerNamesTheRow ==
    \A r \in Requests : req[r].result = "matched" =>
        \E m \in RowsOf(Pair(r)) : m.id = req[r].matchId

\* Matching implements what MutualLike promises.
Promise == INSTANCE MutualLike WITH
    liked <- likes, matched <- {{m.user1, m.user2} : m \in matches}

\* Every step of the API likes, matches two mutual likers, or does neither.
ImplementsPromise == Promise!Spec

\* Each mutual like neither of whose requests fails is eventually matched as well.
ImplementsLivePromise ==
    /\ Promise!Spec
    /\ \A p \in {q \in Pairs : q[1] < q[2]} :
         []~FailedEither(p) => Promise!Liveness(p[1], p[2])

-----------------------------------------------------------------------------
(* What comments and documents say, and the code does not do.              *)

\* The comment on SendLike: if the partner has already liked the sender, the
\* call establishes the match.  A call that finds its own like in the table
\* (409), with the partner's like there too and no request about the pair
\* running, should leave the pair matched.
SendLikeEstablishesMatch ==
    [][\A r \in Requests :
          req[r].pc = "createLike" /\ req'[r].result = "conflict"
              /\ Settled(Pair(r))
          => IsMatched(Pair(r))']_vars
=============================================================================
