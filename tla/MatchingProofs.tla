--------------------------- MODULE MatchingProofs ---------------------------
(***************************************************************************)
(* Proofs about Matching, for every set of users and of requests.          *)
(*                                                                         *)
(* NoLostMatch is not inductive.  Its strengthening Inv ties each request  *)
(* that is past its INSERT INTO likes to the row it inserted (Working) and *)
(* each row of likes to the way its request ended (History); the heart of  *)
(* it is that of two requests that liked each other, not both can have     *)
(* been answered "pending", since each looks only after it has inserted.   *)
(***************************************************************************)
EXTENDS Matching, TLAPS

\* What the local state of a request past its insert says about the tables.
Working ==
    \A r \in Requests : req[r].pc \in LikedPC =>
        /\ Pair(r) \in likes
        /\ ended[Pair(r)] = "running"
        /\ req[r].pc # "hasLiked" => Reverse(Pair(r)) \in likes
        /\ req[r].pc = "getMatch" => IsMatched(Pair(r))

\* A request that runs is about two users, the first of them its sender.
WellFormed ==
    \A r \in Requests :
        /\ req[r].pc \in PC \ {"idle", "answered"} =>
               req[r].from \in Users /\ req[r].from # req[r].to
        /\ req[r].pc \in {"createLike", "createSkip"} \union LikedPC =>
               req[r].to \in Users
        /\ req[r].pc # "answered" => req[r].result = "none"

\* One request at most runs for a like that is in the table.
OneWorker ==
    \A r, s \in Requests :
        req[r].pc \in LikedPC /\ req[s].pc \in LikedPC /\ Pair(r) = Pair(s)
        => r = s

\* What the way a like's request ended says about the tables.
History ==
    \A p \in Pairs :
        /\ (ended[p] # "none") <=> (p \in likes)
        /\ ended[p] # "refused"
        /\ ended[p] = "matched" => IsMatched(p)
        /\ ended[p] = "pending" => ended[Reverse(p)] # "pending"
        /\ p \in likes => p[1] # p[2]

\* The rows of matches are backed by likes, in order, and apart.
Rows ==
    /\ MatchNeedsMutualLike
    /\ \A m \in matches : m.user1 < m.user2 /\ m.id < nextMatchId
    /\ OneMatchPerPair

Inv == TypeOK /\ Working /\ WellFormed /\ OneWorker /\ History /\ Rows
           /\ MatchedAnswerNamesTheRow

-----------------------------------------------------------------------------

\* A pair is made of its components.
LEMMA PairOf ==
    ASSUME NEW S, NEW p \in S \X S
    PROVE  p = <<p[1], p[2]>> /\ p[1] \in S /\ p[2] \in S
  OBVIOUS

USE UsersAssumption

\* The canonical form of two distinct users is ordered,
\* and the same for a pair and its reverse.
LEMMA CanonicalPair ==
    ASSUME NEW p \in Pairs, p[1] # p[2]
    PROVE  /\ Canonical(p) \in Pairs /\ Reverse(p) \in Pairs
           /\ Canonical(p)[1] < Canonical(p)[2]
           /\ Canonical(Reverse(p)) = Canonical(p)
           /\ Canonical(Canonical(p)) = Canonical(p)
           /\ Canonical(p) = p \/ Canonical(p) = Reverse(p)
           /\ Reverse(Reverse(p)) = p /\ Reverse(p) # p
  <1>0. p = <<p[1], p[2]>> /\ p[1] \in Users /\ p[2] \in Users
    BY PairOf DEF Pairs
  <1>1. PICK a \in Users, b \in Users : p = <<a, b>>
    BY <1>0, Zenon
  <1>2. a # b /\ a \in Nat /\ b \in Nat
    BY <1>1
  <1>3. Reverse(p) = <<b, a>> /\ Reverse(<<b, a>>) = p
    BY <1>1 DEF Reverse
  <1>4. CASE a > b
    <2>1. Canonical(p) = <<b, a>> /\ Canonical(<<b, a>>) = <<b, a>>
      BY <1>1, <1>2, <1>3, <1>4 DEF Canonical
    <2> QED BY <2>1, <1>1, <1>2, <1>3, <1>4 DEF Pairs
  <1>5. CASE a < b
    <2>1. Canonical(p) = p /\ Canonical(<<b, a>>) = p
      BY <1>1, <1>2, <1>3, <1>5 DEF Canonical
    <2> QED BY <2>1, <1>1, <1>2, <1>3, <1>5 DEF Pairs
  <1> QED BY <1>2, <1>4, <1>5

\* Steps that leave the tables and the history alone and do not move a request
\* to a later statement of SendLike keep the invariant.
LEMMA BeginInv ==
    ASSUME Inv, NEW r \in Requests, NEW from \in Users, NEW to \in UserIds,
           NEW pc \in {"likeUser", "skipUser"}, Begin(r, pc, from, to)
    PROVE  Inv'
  <1> USE DEF Begin, tables, Request
  <1>1. req'[r].pc \in {pc, "answered"} /\ req'[r].result \in {"none", "self"}
        /\ req'[r].from = from /\ req'[r].to = to
        /\ (req'[r].pc # "answered" => req'[r].result = "none" /\ from # to)
        /\ req'[r] \in RequestState
        /\ \A s \in Requests \ {r} : req'[s] = req[s]
    BY DEF Inv, TypeOK, RequestState, PC, LikePC, SkipPC, Results
  <1>2. TypeOK'
    BY <1>1 DEF Inv, TypeOK
  <1>3. Working' /\ WellFormed' /\ OneWorker'
    <2>1. req'[r].pc \notin LikedPC /\ \A s \in Requests \ {r} : Pair(s)' = Pair(s)
      BY <1>1 DEF LikedPC, Pair
    <2>2. \A q : IsMatched(q)' <=> IsMatched(q)
      BY DEF IsMatched, RowsOf
    <2>3. Working'
      BY <1>1, <2>1, <2>2 DEF Inv, Working
    <2>4. WellFormed'
      BY <1>1 DEF Inv, WellFormed, LikedPC, PC, LikePC, SkipPC
    <2>5. OneWorker'
      BY <1>1, <2>1 DEF Inv, OneWorker
    <2> QED BY <2>3, <2>4, <2>5
  <1>4. History' /\ Rows'
    BY DEF Inv, History, Rows, MatchNeedsMutualLike, OneMatchPerPair, IsMatched, RowsOf
  <1>5. MatchedAnswerNamesTheRow'
    BY <1>1 DEF Inv, MatchedAnswerNamesTheRow, Pair, RowsOf
  <1> QED BY <1>2, <1>3, <1>4, <1>5 DEF Inv

\* GetUserByID: only req[r] moves, to a statement before any insert.
LEMMA CheckUserInv ==
    ASSUME Inv, NEW r \in Requests, CheckUser(r) PROVE Inv'
  <1> USE DEF CheckUser, tables, Goto, Answer
  <1>1. /\ req'[r].pc \in {"createLike", "createSkip", "answered"}
        /\ req'[r].from = req[r].from /\ req'[r].to = req[r].to
        /\ req'[r].result \in {"none", "notFound"}
        /\ req'[r].pc # "answered" =>
               req'[r].result = "none" /\ req[r].to \in Users
        /\ req[r].from \in Users /\ req[r].from # req[r].to
        /\ req'[r] \in RequestState
        /\ \A s \in Requests \ {r} : req'[s] = req[s]
    BY DEF Inv, TypeOK, WellFormed, RequestState, PC, LikePC, SkipPC, Results
  <1>2. TypeOK'
    BY <1>1 DEF Inv, TypeOK
  <1>3. Working' /\ WellFormed' /\ OneWorker'
    <2>1. req'[r].pc \notin LikedPC /\ \A s \in Requests \ {r} : Pair(s)' = Pair(s)
      BY <1>1 DEF LikedPC, Pair
    <2>2. \A q : IsMatched(q)' <=> IsMatched(q)
      BY DEF IsMatched, RowsOf
    <2>3. Working'
      BY <1>1, <2>1, <2>2 DEF Inv, Working
    <2>4. WellFormed'
      BY <1>1 DEF Inv, WellFormed, LikedPC, PC, LikePC, SkipPC
    <2>5. OneWorker'
      BY <1>1, <2>1 DEF Inv, OneWorker
    <2> QED BY <2>3, <2>4, <2>5
  <1>4. History' /\ Rows'
    BY DEF Inv, History, Rows, MatchNeedsMutualLike, OneMatchPerPair, IsMatched, RowsOf
  <1>5. MatchedAnswerNamesTheRow'
    BY <1>1 DEF Inv, MatchedAnswerNamesTheRow, Pair, RowsOf
  <1> QED BY <1>2, <1>3, <1>4, <1>5 DEF Inv

\* INSERT INTO skips touches nothing the invariant relates.
LEMMA CreateSkipInv ==
    ASSUME Inv, NEW r \in Requests, CreateSkip(r) PROVE Inv'
  <1> USE DEF CreateSkip, Answer
  <1>1. /\ req'[r].pc = "answered" /\ req'[r].result \in {"conflict", "skipped"}
        /\ req'[r].from = req[r].from /\ req'[r].to = req[r].to
        /\ req'[r] \in RequestState
        /\ Pair(r) \in Pairs
        /\ \A s \in Requests \ {r} : req'[s] = req[s]
    BY DEF Inv, TypeOK, WellFormed, RequestState, PC, LikePC, SkipPC, Results, Pair, Pairs
  <1>2. TypeOK'
    BY <1>1 DEF Inv, TypeOK
  <1>3. Working' /\ WellFormed' /\ OneWorker'
    <2>1. req'[r].pc \notin LikedPC /\ \A s \in Requests \ {r} : Pair(s)' = Pair(s)
      BY <1>1 DEF LikedPC, Pair
    <2>2. \A q : IsMatched(q)' <=> IsMatched(q)
      BY DEF IsMatched, RowsOf
    <2>3. Working'
      BY <1>1, <2>1, <2>2 DEF Inv, Working
    <2>4. WellFormed'
      BY <1>1 DEF Inv, WellFormed, LikedPC, PC, LikePC, SkipPC
    <2>5. OneWorker'
      BY <1>1, <2>1 DEF Inv, OneWorker
    <2> QED BY <2>3, <2>4, <2>5
  <1>4. History' /\ Rows'
    BY DEF Inv, History, Rows, MatchNeedsMutualLike, OneMatchPerPair, IsMatched, RowsOf
  <1>5. MatchedAnswerNamesTheRow'
    BY <1>1 DEF Inv, MatchedAnswerNamesTheRow, Pair, RowsOf
  <1> QED BY <1>2, <1>3, <1>4, <1>5 DEF Inv

\* A slot is freed.
LEMMA ReceiveInv ==
    ASSUME Inv, NEW r \in Requests, Receive(r) PROVE Inv'
  <1> USE DEF Receive, tables, Idle, Request
  <1>1. /\ req'[r].pc = "idle" /\ req'[r].result = "none"
        /\ req'[r] \in RequestState
        /\ \A s \in Requests \ {r} : req'[s] = req[s]
    BY DEF Inv, TypeOK, RequestState, PC, Results
  <1>2. TypeOK'
    BY <1>1 DEF Inv, TypeOK
  <1>3. Working' /\ WellFormed' /\ OneWorker'
    <2>1. req'[r].pc \notin LikedPC /\ \A s \in Requests \ {r} : Pair(s)' = Pair(s)
      BY <1>1 DEF LikedPC, Pair
    <2>2. \A q : IsMatched(q)' <=> IsMatched(q)
      BY DEF IsMatched, RowsOf
    <2>3. Working'
      BY <1>1, <2>1, <2>2 DEF Inv, Working
    <2>4. WellFormed'
      BY <1>1 DEF Inv, WellFormed, LikedPC, PC, LikePC, SkipPC
    <2>5. OneWorker'
      BY <1>1, <2>1 DEF Inv, OneWorker
    <2> QED BY <2>3, <2>4, <2>5
  <1>4. History' /\ Rows'
    BY DEF Inv, History, Rows, MatchNeedsMutualLike, OneMatchPerPair, IsMatched, RowsOf
  <1>5. MatchedAnswerNamesTheRow'
    BY <1>1 DEF Inv, MatchedAnswerNamesTheRow, Pair, RowsOf
  <1> QED BY <1>2, <1>3, <1>4, <1>5 DEF Inv

\* The pair of a request past its user check is a pair of distinct users.
LEMMA PairOfRequest ==
    ASSUME Inv, NEW r \in Requests,
           req[r].pc \in {"createLike", "createSkip"} \union LikedPC
    PROVE  /\ Pair(r) \in Pairs /\ Pair(r)[1] # Pair(r)[2]
           /\ Pair(r)[1] = req[r].from /\ Pair(r)[2] = req[r].to
           /\ Reverse(Pair(r)) \in Pairs
           /\ Reverse(Reverse(Pair(r))) = Pair(r) /\ Reverse(Pair(r)) # Pair(r)
  <1>1. req[r].from \in Users /\ req[r].to \in Users /\ req[r].from # req[r].to
    BY DEF Inv, WellFormed, PC, LikePC, SkipPC, LikedPC
  <1> QED BY <1>1 DEF Pair, Pairs, Reverse

\* INSERT INTO likes: a second request that finds the like in the table does
\* not join the first one, and a new like starts its history.
LEMMA CreateLikeInv ==
    ASSUME Inv, NEW r \in Requests, CreateLike(r) PROVE Inv'
  <1> DEFINE p == Pair(r)
  <1>1. /\ req'[r].pc \in {"hasLiked", "answered"}
        /\ req'[r].from = req[r].from /\ req'[r].to = req[r].to
        /\ req'[r].result \in {"none", "conflict"}
        /\ req'[r].pc = "hasLiked" <=> p \notin likes
        /\ req'[r].pc # "answered" => req'[r].result = "none"
        /\ req' \in [Requests -> RequestState]
        /\ \A s \in Requests \ {r} : req'[s] = req[s]
    BY DEF CreateLike, Goto, Answer, Inv, TypeOK, WellFormed, RequestState, PC, LikePC,
        SkipPC, Results
  <1>2. /\ p \in Pairs /\ p[1] # p[2]
        /\ req[r].from \in Users /\ req[r].to \in Users /\ req[r].from # req[r].to
    BY PairOfRequest DEF CreateLike, Inv, WellFormed, PC, LikePC, SkipPC, LikedPC
  <1>3. matches' = matches /\ nextMatchId' = nextMatchId /\ skips' = skips
    BY DEF CreateLike
  <1>4. \/ p \in likes /\ likes' = likes /\ ended' = ended
        \/ /\ p \notin likes /\ likes' = likes \union {p}
           /\ ended' = [ended EXCEPT ![p] = "running"]
    BY DEF CreateLike
  <1>5. TypeOK'
    BY <1>1, <1>2, <1>3, <1>4 DEF Inv, TypeOK, Endings
  <1>6. Pair(r)' = p /\ \A s \in Requests \ {r} : Pair(s)' = Pair(s)
    BY <1>1 DEF Pair
  <1>7. \A q \in Pairs : IsMatched(q)' <=> IsMatched(q)
    BY <1>3 DEF IsMatched, RowsOf
  <1>8. Working'
    <2> SUFFICES ASSUME NEW s \in Requests, req'[s].pc \in LikedPC
                 PROVE  /\ Pair(s)' \in likes'
                        /\ ended'[Pair(s)'] = "running"
                        /\ req'[s].pc # "hasLiked" => Reverse(Pair(s)') \in likes'
                        /\ req'[s].pc = "getMatch" => IsMatched(Pair(s))'
      BY DEF Working
    <2>1. CASE s = r
      BY <2>1, <1>1, <1>2, <1>4, <1>6 DEF LikedPC, Inv, TypeOK
    <2>2. CASE s # r
      <3>1. req[s].pc \in LikedPC /\ Pair(s)' = Pair(s) /\ Pair(s) \in Pairs
        BY <2>2, <1>1, <1>6, PairOfRequest
      <3>2. /\ Pair(s) \in likes /\ ended[Pair(s)] = "running"
            /\ req[s].pc # "hasLiked" => Reverse(Pair(s)) \in likes
            /\ req[s].pc = "getMatch" => IsMatched(Pair(s))
        BY <3>1 DEF Inv, Working
      <3>3. IsMatched(Pair(s))' <=> IsMatched(Pair(s))
        BY <1>3, <3>1 DEF IsMatched, RowsOf
      <3> QED BY <3>1, <3>2, <3>3, <2>2, <1>1, <1>2, <1>4 DEF Inv, TypeOK
    <2> QED BY <2>1, <2>2
  <1>9. WellFormed'
    BY <1>1, <1>2 DEF Inv, WellFormed, LikedPC, PC, LikePC, SkipPC
  <1>10. OneWorker'
    <2> SUFFICES ASSUME NEW s \in Requests, NEW t \in Requests, s # t,
                        req'[s].pc \in LikedPC, req'[t].pc \in LikedPC,
                        Pair(s)' = Pair(t)'
                 PROVE  FALSE
      BY DEF OneWorker
    <2>1. CASE s # r /\ t # r
      BY <2>1, <1>1, <1>6 DEF Inv, OneWorker
    <2>2. ASSUME NEW u \in Requests \ {r}, req'[u].pc \in LikedPC, Pair(u)' = p,
                 req'[r].pc \in LikedPC
          PROVE  FALSE
      BY <2>2, <1>1, <1>6 DEF Inv, Working, LikedPC
    <2> QED BY <2>1, <2>2, <1>6
  <1>11. History'
    <2> SUFFICES ASSUME NEW q \in Pairs
                 PROVE  /\ (ended'[q] # "none") <=> (q \in likes')
                        /\ ended'[q] # "refused"
                        /\ ended'[q] = "matched" => IsMatched(q)'
                        /\ ended'[q] = "pending" => ended'[Reverse(q)] # "pending"
                        /\ q \in likes' => q[1] # q[2]
      BY DEF History
    <2>1. /\ (ended[q] # "none") <=> (q \in likes)
          /\ ended[q] # "refused"
          /\ ended[q] = "matched" => IsMatched(q)
          /\ ended[q] = "pending" => ended[Reverse(q)] # "pending"
          /\ q \in likes => q[1] # q[2]
      BY DEF Inv, History
    <2>2. ended \in [Pairs -> Endings] /\ Reverse(q) \in Pairs
      BY DEF Inv, TypeOK, Pairs, Reverse
    <2> QED BY <2>1, <2>2, <1>2, <1>4, <1>7
  <1>12. Rows'
    BY <1>3, <1>4 DEF Inv, Rows, MatchNeedsMutualLike, OneMatchPerPair
  <1>13. MatchedAnswerNamesTheRow'
    BY <1>1, <1>3 DEF Inv, MatchedAnswerNamesTheRow, Pair, RowsOf
  <1> QED BY <1>5, <1>8, <1>9, <1>10, <1>11, <1>12, <1>13 DEF Inv

\* What each of the last four steps of SendLike does to its own request:
\* it goes on to a later statement, or is answered.
LEMMA EndLikeTypes ==
    ASSUME Inv, NEW r \in Requests, req[r].pc \in LikedPC,
           NEW result \in Results, NEW id \in Nat, NEW ending \in Endings,
           EndLike(r, result, id, ending)
    PROVE  /\ req' \in [Requests -> RequestState] /\ ended' \in [Pairs -> Endings]
           /\ req'[r].pc = "answered" /\ req'[r].result = result
           /\ req'[r].matchId = id
           /\ req'[r].from = req[r].from /\ req'[r].to = req[r].to
           /\ \A s \in Requests \ {r} : req'[s] = req[s]
           /\ ended'[Pair(r)] = ending
           /\ \A q \in Pairs \ {Pair(r)} : ended'[q] = ended[q]
  <1>1. Pair(r) \in Pairs
    BY PairOfRequest
  <1>2. req \in [Requests -> RequestState] /\ ended \in [Pairs -> Endings]
    BY DEF Inv, TypeOK
  <1>3. req' = [req EXCEPT ![r].pc = "answered", ![r].result = result, ![r].matchId = id]
        /\ ended' = [ended EXCEPT ![Pair(r)] = ending]
    BY DEF EndLike, Answer
  <1>4. req' \in [Requests -> RequestState]
    <2>1. "answered" \in PC
      BY DEF PC
    <2>2. [req[r] EXCEPT !.pc = "answered", !.result = result, !.matchId = id] \in RequestState
      BY <1>2, <2>1 DEF RequestState
    <2> QED BY <1>2, <1>3, <2>2
  <1>5. /\ req'[r].pc = "answered" /\ req'[r].result = result
        /\ req'[r].matchId = id
        /\ req'[r].from = req[r].from /\ req'[r].to = req[r].to
        /\ \A s \in Requests \ {r} : req'[s] = req[s]
    BY <1>2, <1>3 DEF RequestState
  <1> QED BY <1>1, <1>2, <1>3, <1>4, <1>5

\* When a like's request ends, the matches having grown at most, the invariant
\* survives if the ending is true of the tables.
LEMMA EndLikeInv ==
    ASSUME Inv, NEW r \in Requests, req[r].pc \in LikedPC,
           NEW result \in Results \ {"none"}, NEW id \in Nat,
           NEW ending \in Endings \ {"none", "running", "refused"},
           EndLike(r, result, id, ending),
           UNCHANGED <<likes, skips>>, matches \subseteq matches',
           matches' \subseteq [id : Nat \ {0}, user1 : Users, user2 : Users],
           nextMatchId' \in Nat \ {0}, Rows',
           ending = "matched" => IsMatched(Pair(r))',
           ending = "pending" => Reverse(Pair(r)) \notin likes,
           result = "matched" => (\E m \in RowsOf(Pair(r)) : m.id = id)'
    PROVE  Inv'
  <1> DEFINE p == Pair(r)
  <1>1. /\ req' \in [Requests -> RequestState] /\ ended' \in [Pairs -> Endings]
        /\ req'[r].pc = "answered" /\ req'[r].result = result
        /\ req'[r].matchId = id
        /\ req'[r].from = req[r].from /\ req'[r].to = req[r].to
        /\ \A s \in Requests \ {r} : req'[s] = req[s]
        /\ ended'[p] = ending
        /\ \A q \in Pairs \ {p} : ended'[q] = ended[q]
    BY EndLikeTypes
  <1>2. /\ p \in Pairs /\ p \in likes /\ ended[p] = "running" /\ Reverse(p) \in Pairs
        /\ Reverse(p) # p /\ Reverse(Reverse(p)) = p /\ p[1] # p[2]
    BY PairOfRequest DEF Inv, Working
  <1>3. TypeOK'
    BY <1>1 DEF Inv, TypeOK
  <1>4. \A q : RowsOf(q) \subseteq RowsOf(q)'
    BY DEF RowsOf
  <1>5. Pair(r)' = p /\ \A s \in Requests \ {r} : Pair(s)' = Pair(s)
    BY <1>1 DEF Pair
  <1>6. Working'
    <2> SUFFICES ASSUME NEW s \in Requests \ {r}, req[s].pc \in LikedPC
                 PROVE  /\ Pair(s)' \in likes'
                        /\ ended'[Pair(s)'] = "running"
                        /\ req'[s].pc # "hasLiked" => Reverse(Pair(s)') \in likes'
                        /\ req'[s].pc = "getMatch" => IsMatched(Pair(s))'
      BY <1>1 DEF Working, LikedPC
    <2>1. /\ Pair(s) \in likes /\ ended[Pair(s)] = "running"
          /\ req[s].pc # "hasLiked" => Reverse(Pair(s)) \in likes
          /\ req[s].pc = "getMatch" => IsMatched(Pair(s))
      BY DEF Inv, Working
    <2>2. Pair(s) # p /\ Pair(s) \in Pairs
      BY PairOfRequest DEF Inv, OneWorker
    <2>3. IsMatched(Pair(s)) => IsMatched(Pair(s))'
      BY <1>4, <1>5 DEF IsMatched, RowsOf
    <2> QED BY <1>1, <1>5, <2>1, <2>2, <2>3
  <1>7. WellFormed' /\ OneWorker'
    BY <1>1, <1>5 DEF Inv, WellFormed, OneWorker, PC, LikePC, SkipPC, LikedPC
  <1>8. History'
    <2> SUFFICES ASSUME NEW q \in Pairs
                 PROVE  /\ (ended'[q] # "none") <=> (q \in likes')
                        /\ ended'[q] # "refused"
                        /\ ended'[q] = "matched" => IsMatched(q)'
                        /\ ended'[q] = "pending" => ended'[Reverse(q)] # "pending"
                        /\ q \in likes' => q[1] # q[2]
      BY DEF History
    <2>1. \A x \in Pairs :
          /\ (ended[x] # "none") <=> (x \in likes)
          /\ ended[x] # "refused"
          /\ ended[x] = "matched" => IsMatched(x)
          /\ ended[x] = "pending" => ended[Reverse(x)] # "pending"
          /\ x \in likes => x[1] # x[2]
      BY DEF Inv, History
    <2>2. IsMatched(q) => IsMatched(q)'
      BY <1>4 DEF IsMatched
    <2>3. CASE q = p
      <3>1. ending = "pending" => ended'[Reverse(p)] = "none"
        BY <1>1, <1>2, <2>1
      <3>2. ending = "matched" => IsMatched(q)'
        BY <2>3, <1>5 DEF IsMatched, RowsOf
      <3> QED BY <2>3, <3>1, <3>2, <1>1, <1>2
    <2>4. CASE q # p
      <3>1. Reverse(q) \in Pairs /\ (Reverse(q) = p => q = Reverse(p))
        BY <1>2 DEF Pairs, Reverse
      <3>2. ended'[q] = "pending" => ended'[Reverse(q)] # "pending"
        <4>1. CASE Reverse(q) = p
          BY <4>1, <3>1, <2>1, <1>1, <1>2, <2>4
        <4>2. CASE Reverse(q) # p
          BY <4>2, <3>1, <2>1, <1>1, <2>4
        <4> QED BY <4>1, <4>2
      <3> QED BY <3>2, <2>1, <2>2, <2>4, <1>1
    <2> QED BY <2>3, <2>4
  <1>9. MatchedAnswerNamesTheRow'
    <2> SUFFICES ASSUME NEW s \in Requests, req'[s].result = "matched"
                 PROVE  (\E m \in RowsOf(Pair(s)) : m.id = req[s].matchId)'
      BY DEF MatchedAnswerNamesTheRow
    <2>1. CASE s = r
      BY <2>1, <1>1
    <2>2. CASE s # r
      <3>1. \E m \in RowsOf(Pair(s)) : m.id = req[s].matchId
        BY <2>2, <1>1 DEF Inv, MatchedAnswerNamesTheRow
      <3> QED BY <3>1, <2>2, <1>1, <1>4, <1>5 DEF RowsOf
    <2> QED BY <2>1, <2>2
  <1> QED BY <1>3, <1>6, <1>7, <1>8, <1>9 DEF Inv

\* Moving a request on to a later statement of SendLike, with what that
\* statement takes for granted, keeps the invariant.
LEMMA GotoInv ==
    ASSUME Inv, NEW r \in Requests, req[r].pc \in LikedPC,
           NEW pc \in {"createMatch", "getMatch"}, Goto(r, pc),
           UNCHANGED <<likes, skips, matches, ended>>,
           nextMatchId' \in Nat, nextMatchId <= nextMatchId',
           Reverse(Pair(r)) \in likes, pc = "getMatch" => IsMatched(Pair(r))
    PROVE  Inv'
  <1>1. /\ req' \in [Requests -> RequestState]
        /\ req'[r].pc = pc /\ req'[r].result = req[r].result
        /\ req'[r].from = req[r].from /\ req'[r].to = req[r].to
        /\ \A s \in Requests \ {r} : req'[s] = req[s]
    BY DEF Goto, Inv, TypeOK, RequestState, PC, LikePC
  <1>2. TypeOK'
    BY <1>1 DEF Inv, TypeOK
  <1>3. /\ \A s \in Requests : Pair(s)' = Pair(s)
        /\ \A q : RowsOf(q)' = RowsOf(q)
    BY <1>1 DEF Pair, RowsOf
  <1>4. Working'
    <2> SUFFICES ASSUME NEW s \in Requests, req'[s].pc \in LikedPC
                 PROVE  /\ Pair(s) \in likes /\ ended[Pair(s)] = "running"
                        /\ req'[s].pc # "hasLiked" => Reverse(Pair(s)) \in likes
                        /\ req'[s].pc = "getMatch" => IsMatched(Pair(s))
      BY <1>3 DEF Working, IsMatched, RowsOf
    <2>1. req[s].pc \in LikedPC
      BY <1>1
    <2> QED BY <2>1, <1>1 DEF Inv, Working
  <1>5. WellFormed' /\ OneWorker'
    BY <1>1, <1>3 DEF Inv, WellFormed, OneWorker, PC, LikePC, SkipPC, LikedPC
  <1>6. History'
    BY DEF Inv, History, IsMatched, RowsOf
  <1>7. Rows'
    BY DEF Inv, TypeOK, Rows, MatchNeedsMutualLike, OneMatchPerPair
  <1>8. MatchedAnswerNamesTheRow'
    <2>1. \A s \in Requests : req'[s].result = "matched" => req'[s] = req[s]
      BY <1>1 DEF Inv, WellFormed, LikedPC
    <2> QED BY <2>1, <1>3 DEF Inv, MatchedAnswerNamesTheRow
  <1> QED BY <1>2, <1>4, <1>5, <1>6, <1>7, <1>8 DEF Inv

\* Rows does not depend on what the likes' requests do.
LEMMA RowsUnchanged ==
    ASSUME Inv, UNCHANGED tables PROVE Rows'
  BY DEF Inv, Rows, MatchNeedsMutualLike, OneMatchPerPair, tables

\* The SELECT that looks for the partner's like.
LEMMA HasLikedInv ==
    ASSUME Inv, NEW r \in Requests, HasLiked(r) PROVE Inv'
  <1>1. req[r].pc \in LikedPC /\ UNCHANGED tables
    BY DEF HasLiked, LikedPC
  <1>2. nextMatchId \in Nat \ {0} /\ matches \subseteq
            [id : Nat \ {0}, user1 : Users, user2 : Users]
    BY DEF Inv, TypeOK
  <1>3. CASE Reverse(Pair(r)) \in likes
    BY <1>1, <1>2, <1>3, GotoInv DEF HasLiked, tables
  <1>4. CASE Reverse(Pair(r)) \notin likes
    <2>1. EndLike(r, "pending", 0, "pending")
      BY <1>4 DEF HasLiked
    <2>2. "pending" \in Results \ {"none"}
          /\ "pending" \in Endings \ {"none", "running", "refused"}
      BY DEF Results, Endings
    <2> QED BY <1>1, <1>2, <1>4, <2>1, <2>2, RowsUnchanged, EndLikeInv DEF tables
  <1> QED BY <1>3, <1>4

\* INSERT INTO matches.
LEMMA CreateMatchInv ==
    ASSUME Inv, NEW r \in Requests, CreateMatch(r) PROVE Inv'
  <1> DEFINE p == Pair(r)
             c == Canonical(p)
  <1>1. req[r].pc \in LikedPC /\ p \in likes /\ Reverse(p) \in likes
    BY DEF CreateMatch, LikedPC, Inv, Working
  <1>2. /\ p \in Pairs /\ p[1] # p[2] /\ c \in Pairs /\ c[1] < c[2]
        /\ c = p \/ c = Reverse(p)
        /\ Reverse(p) \in Pairs /\ Reverse(Reverse(p)) = p
        /\ Canonical(c) = c
    BY <1>1, PairOfRequest, CanonicalPair
  <1>3. c[1] \in Users /\ c[2] \in Users /\ c = <<c[1], c[2]>>
    BY <1>2, PairOf DEF Pairs
  <1>4. /\ nextMatchId \in Nat \ {0} /\ nextMatchId' = nextMatchId + 1
        /\ UNCHANGED <<likes, skips>>
        /\ matches \subseteq [id : Nat \ {0}, user1 : Users, user2 : Users]
    BY DEF CreateMatch, Inv, TypeOK
  <1>5. CASE IsMatched(c)
    <2>1. IsMatched(p)
      BY <1>2, <1>5 DEF IsMatched, RowsOf
    <2>2. Goto(r, "getMatch") /\ UNCHANGED <<matches, ended>>
      BY <1>2, <1>3, <1>5 DEF CreateMatch
    <2> QED BY <1>1, <1>4, <2>1, <2>2, GotoInv
  <1>6. CASE ~ IsMatched(c)
    <2>0. PICK row \in [id : Nat \ {0}, user1 : Users, user2 : Users] :
              row = [id |-> nextMatchId, user1 |-> c[1], user2 |-> c[2]]
      BY <1>3, <1>4
    <2>1. /\ matches' = matches \union {row}
          /\ EndLike(r, "matched", row.id, "matched")
      BY <1>2, <1>3, <1>6, <2>0 DEF CreateMatch, AddMatch
    <2>2. row.id = nextMatchId /\ row.user1 = c[1] /\ row.user2 = c[2]
      BY <2>0
    <2>3. Rows'
      <3>1. MatchNeedsMutualLike'
        <4>1. <<c[1], c[2]>> \in likes /\ <<c[2], c[1]>> \in likes
          BY <1>1, <1>2, <1>3 DEF Reverse
        <4> QED BY <4>1, <2>1, <2>2, <1>4 DEF Inv, Rows, MatchNeedsMutualLike
      <3>2. (\A m \in matches : m.user1 < m.user2 /\ m.id < nextMatchId)'
        BY <1>2, <1>3, <1>4, <2>1, <2>2 DEF Inv, Rows
      <3>3. \A m \in matches : m.id # row.id
        BY <1>4, <2>2 DEF Inv, Rows
      <3>4. \A m \in matches : {m.user1, m.user2} # {row.user1, row.user2}
        <4> SUFFICES ASSUME NEW m \in matches,
                            {m.user1, m.user2} = {c[1], c[2]}
                     PROVE  FALSE
          BY <2>2
        <4>1. m.user1 < m.user2 /\ m.user1 \in Nat /\ m.user2 \in Nat
          BY <1>4 DEF Inv, Rows
        <4>2. m.user1 = c[1] /\ m.user2 = c[2]
          BY <4>1, <1>2, <1>3
        <4>3. m \in RowsOf(c)
          BY <4>2, <1>2, <1>3 DEF RowsOf
        <4> QED BY <4>3, <1>6 DEF IsMatched
      <3>5. OneMatchPerPair'
        BY <2>1, <3>3, <3>4 DEF Inv, Rows, OneMatchPerPair
      <3> QED BY <3>1, <3>2, <3>5 DEF Rows
    <2>4. row \in RowsOf(p)'
      <3>1. Pair(r)' = p
        BY <2>1 DEF EndLike, Answer, Pair, Inv, TypeOK, RequestState
      <3>2. row \in matches' /\ <<row.user1, row.user2>> = Canonical(p)
        BY <1>3, <2>1, <2>2
      <3> QED BY <3>1, <3>2 DEF RowsOf
    <2>5. "matched" \in Results \ {"none"}
          /\ "matched" \in Endings \ {"none", "running", "refused"}
      BY DEF Results, Endings
    <2>6. IsMatched(Pair(r))' /\ (\E m \in RowsOf(Pair(r)) : m.id = row.id)'
      BY <2>4 DEF IsMatched
    <2>7. matches \subseteq matches' /\ nextMatchId' \in Nat \ {0}
          /\ matches' \subseteq [id : Nat \ {0}, user1 : Users, user2 : Users]
      BY <1>4, <2>1, <2>2
    <2> QED BY <1>1, <1>4, <2>1, <2>2, <2>3, <2>5, <2>6, <2>7, EndLikeInv
  <1> QED BY <1>5, <1>6

\* The SELECT after a duplicate finds the row the duplicate is of.
LEMMA GetMatchInv ==
    ASSUME Inv, NEW r \in Requests, GetMatch(r) PROVE Inv'
  <1>1. req[r].pc \in LikedPC /\ IsMatched(Pair(r)) /\ UNCHANGED tables
    BY DEF GetMatch, LikedPC, Inv, Working
  <1>2. matches \subseteq [id : Nat \ {0}, user1 : Users, user2 : Users]
        /\ nextMatchId \in Nat \ {0}
    BY DEF Inv, TypeOK
  <1>3. PICK m \in RowsOf(Pair(r)) : EndLike(r, "matched", m.id, "matched")
    BY <1>1 DEF GetMatch
  <1>4. m \in matches /\ m.id \in Nat
    BY <1>2 DEF RowsOf
  <1>5. Pair(r)' = Pair(r)
    BY <1>3 DEF EndLike, Answer, Pair, Inv, TypeOK, RequestState
  <1>6. m \in RowsOf(Pair(r))'
    BY <1>1, <1>3, <1>5 DEF RowsOf, tables
  <1>7. IsMatched(Pair(r))' /\ (\E n \in RowsOf(Pair(r)) : n.id = m.id)'
    BY <1>6 DEF IsMatched
  <1>8. "matched" \in Results \ {"none"}
        /\ "matched" \in Endings \ {"none", "running", "refused"}
    BY DEF Results, Endings
  <1> QED BY <1>1, <1>2, <1>3, <1>4, <1>7, <1>8, RowsUnchanged, EndLikeInv DEF tables

\* A failure after the insert leaves the like in the table and says so; one
\* before it leaves no trace.
LEMMA FailInv ==
    ASSUME Inv, NEW r \in Requests, Fail(r) PROVE Inv'
  <1>1. nextMatchId \in Nat \ {0} /\ UNCHANGED tables
        /\ matches \subseteq [id : Nat \ {0}, user1 : Users, user2 : Users]
    BY DEF Fail, Inv, TypeOK
  <1>2. CASE req[r].pc \in LikedPC
    <2>1. EndLike(r, "error", 0, "failed")
      BY <1>2 DEF Fail
    <2>2. "error" \in Results \ {"none"}
          /\ "failed" \in Endings \ {"none", "running", "refused"}
      BY DEF Results, Endings
    <2> QED BY <1>1, <1>2, <2>1, <2>2, RowsUnchanged, EndLikeInv DEF tables
  <1>3. CASE req[r].pc \notin LikedPC
    <2>1. /\ req'[r].pc = "answered" /\ req'[r].result = "error"
          /\ req' \in [Requests -> RequestState]
          /\ \A s \in Requests \ {r} : req'[s] = req[s]
          /\ ended' = ended
      BY <1>3 DEF Fail, Answer, Inv, TypeOK, RequestState, PC, Results
    <2>2. TypeOK'
      BY <1>1, <2>1 DEF Inv, TypeOK, tables
    <2>3. Working' /\ WellFormed' /\ OneWorker'
      <3>1. req'[r].pc \notin LikedPC /\ \A s \in Requests \ {r} : Pair(s)' = Pair(s)
        BY <2>1 DEF LikedPC, Pair
      <3>2. \A q : IsMatched(q)' <=> IsMatched(q)
        BY <1>1 DEF IsMatched, RowsOf, tables
      <3>3. Working'
        BY <1>1, <2>1, <3>1, <3>2 DEF Inv, Working, tables
      <3>4. WellFormed'
        BY <2>1 DEF Inv, WellFormed, LikedPC
      <3>5. OneWorker'
        BY <2>1, <3>1 DEF Inv, OneWorker
      <3> QED BY <3>3, <3>4, <3>5
    <2>4. History'
      BY <1>1, <2>1 DEF Inv, History, IsMatched, RowsOf, tables
    <2>5. MatchedAnswerNamesTheRow'
      BY <1>1, <2>1 DEF Inv, MatchedAnswerNamesTheRow, Pair, RowsOf, tables
    <2> QED BY <1>1, <2>2, <2>3, <2>4, <2>5, RowsUnchanged DEF Inv
  <1> QED BY <1>2, <1>3

\* Every step keeps the invariant.
LEMMA NextInv == Inv /\ [Next]_vars => Inv'
  <1> SUFFICES ASSUME Inv, [Next]_vars PROVE Inv'
    OBVIOUS
  <1>1. CASE Next
    <2>1. ASSUME NEW r \in Requests, NEW from \in Users, NEW to \in UserIds,
                 BeginLike(r, from, to) \/ BeginSkip(r, from, to)
          PROVE  Inv'
      BY <2>1, BeginInv DEF BeginLike, BeginSkip
    <2>2. ASSUME NEW r \in Requests, Step(r) PROVE Inv'
      BY <2>2, CheckUserInv, CreateLikeInv, HasLikedInv, CreateMatchInv, GetMatchInv,
         CreateSkipInv DEF Step
    <2>3. ASSUME NEW r \in Requests, Fail(r) \/ Receive(r) PROVE Inv'
      BY <2>3, FailInv, ReceiveInv
    <2> QED BY <1>1, <2>1, <2>2, <2>3 DEF Next
  <1>2. CASE UNCHANGED vars
    <2>1. UNCHANGED <<likes, skips, matches, nextMatchId, req, ended>>
      BY <1>2 DEF vars, tables
    <2>2. \A q : (IsMatched(q)' <=> IsMatched(q)) /\ RowsOf(q)' = RowsOf(q)
      BY <2>1 DEF IsMatched, RowsOf
    <2>3. \A s \in Requests : Pair(s)' = Pair(s)
      BY <2>1 DEF Pair
    <2>4. TypeOK'
      BY <2>1 DEF Inv, TypeOK
    <2>5. Working' /\ WellFormed' /\ OneWorker'
      BY <2>1, <2>2, <2>3 DEF Inv, Working, WellFormed, OneWorker
    <2>6. History'
      BY <2>1, <2>2 DEF Inv, History
    <2>7. Rows'
      BY <2>1 DEF Inv, Rows, MatchNeedsMutualLike, OneMatchPerPair
    <2>8. MatchedAnswerNamesTheRow'
      BY <2>1, <2>2, <2>3 DEF Inv, MatchedAnswerNamesTheRow
    <2> QED BY <2>4, <2>5, <2>6, <2>7, <2>8 DEF Inv
  <1> QED BY <1>1, <1>2

-----------------------------------------------------------------------------

\* Inv holds in every reachable state.
THEOREM MatchingInvariant == Spec => []Inv
  <1>1. Init => Inv
    BY DEF Init, Inv, TypeOK, Working, WellFormed, OneWorker, History, Rows,
           MatchNeedsMutualLike, OneMatchPerPair, MatchedAnswerNamesTheRow,
           Idle, Request, PC, LikePC, SkipPC, LikedPC, RequestState, Results, Endings, Pairs
  <1> QED BY <1>1, NextInv, PTL DEF Spec

\* The tables and the requests keep their types.
THEOREM MatchingTypes == Spec => []TypeOK
  <1>1. Inv => TypeOK
    BY DEF Inv
  <1> QED BY <1>1, MatchingInvariant, PTL

\* A match is backed by both likes, each pair of users has at most one, and
\* each answer "matched" names it: however many requests run at a time.
THEOREM MatchesAreSound ==
    Spec => [](MatchNeedsMutualLike /\ OneMatchPerPair /\ MatchedAnswerNamesTheRow)
  <1>1. Inv => MatchNeedsMutualLike /\ OneMatchPerPair /\ MatchedAnswerNamesTheRow
    BY DEF Inv, Rows
  <1> QED BY <1>1, MatchingInvariant, PTL

\* What two requests that liked each other have answered when both are done:
\* one of them looked for the other's like after it was inserted.
LEMMA OneSawBoth ==
    ASSUME Inv, NEW p \in likes, Settled(p), ~ FailedEither(p)
    PROVE  "matched" \in {ended[p], ended[Reverse(p)]}
  <1>1. p \in Pairs /\ Reverse(p) \in likes /\ Reverse(p) \in Pairs
    BY DEF Settled, Inv, TypeOK
  <1>2. \A q \in {p, Reverse(p)} : ended[q] \in {"pending", "matched"}
    BY <1>1 DEF Settled, FailedEither, Inv, TypeOK, History, Endings
  <1>3. ended[p] = "pending" => ended[Reverse(p)] # "pending"
    BY <1>1 DEF Inv, History
  <1> QED BY <1>2, <1>3

\* No mutual like is lost to a race, for any number of users and requests.
THEOREM NoMatchIsLost == Spec => []NoLostMatch
  <1>1. Inv => NoLostMatch
    <2> SUFFICES ASSUME Inv, NEW p \in likes, Settled(p), ~ FailedEither(p)
                 PROVE  IsMatched(p)
      BY DEF NoLostMatch
    <2>1. PICK q \in {p, Reverse(p)} : ended[q] = "matched"
      BY OneSawBoth
    <2>2. p \in Pairs /\ Reverse(p) \in Pairs /\ p[1] # p[2]
      BY DEF Settled, Inv, TypeOK, History
    <2>3. IsMatched(q)
      BY <2>1, <2>2 DEF Inv, History
    <2>4. Canonical(q) = Canonical(p)
      BY <2>2, CanonicalPair
    <2> QED BY <2>3, <2>4 DEF IsMatched, RowsOf
  <1> QED BY <1>1, MatchingInvariant, PTL

\* One of the two users at least is told of the match.
THEOREM OneOfTheTwoIsTold == Spec => []SomeoneIsTold
  <1>1. Inv => SomeoneIsTold
    BY OneSawBoth DEF SomeoneIsTold
  <1> QED BY <1>1, MatchingInvariant, PTL

-----------------------------------------------------------------------------

\* A statement of SendLike is a step of MutualLike or leaves it alone.
LEMMA StepImplementsPromise ==
    ASSUME Inv, [Next]_vars PROVE [Promise!Next]_(Promise!vars)
  <1> USE DEF Promise!vars
  <1>1. ASSUME NEW r \in Requests, CreateLike(r), Pair(r) \notin likes
        PROVE  Promise!Next
    <2>1. /\ likes' = likes \union {<<req[r].from, req[r].to>>}
          /\ matches' = matches
      BY <1>1 DEF CreateLike, Pair
    <2>2. req[r].from \in Users /\ req[r].to \in Users /\ req[r].from # req[r].to
      BY <1>1 DEF CreateLike, Inv, WellFormed, PC, LikePC, SkipPC, LikedPC
    <2> QED BY <2>1, <2>2 DEF Promise!Next, Promise!Like
  <1>2. ASSUME NEW r \in Requests, CreateMatch(r), matches' # matches
        PROVE  Promise!Next
    <2> DEFINE p == Pair(r)
               c == Canonical(p)
    <2>1. /\ p \in likes /\ Reverse(p) \in likes
          /\ p \in Pairs /\ p[1] # p[2] /\ req[r].pc \in LikedPC
      BY <1>2, PairOfRequest DEF CreateMatch, LikedPC, Inv, Working
    <2>2. /\ c \in Pairs /\ (c = p \/ c = Reverse(p)) /\ c[1] < c[2]
          /\ Canonical(c) = c
      BY <2>1, CanonicalPair
    <2>3. c[1] \in Users /\ c[2] \in Users /\ c = <<c[1], c[2]>>
      BY <2>2, PairOf DEF Pairs
    <2>4. /\ ~ IsMatched(c)
          /\ matches' = matches \union
                 {[id |-> nextMatchId, user1 |-> c[1], user2 |-> c[2]]}
          /\ likes' = likes
      BY <1>2, <2>2, <2>3 DEF CreateMatch, AddMatch
    <2>5. PICK a \in Users, b \in Users : a = c[1] /\ b = c[2]
      BY <2>3
    <2>6. <<a, b>> \in likes /\ <<b, a>> \in likes
      <3>1. c \in likes /\ Reverse(c) \in likes
        BY <2>1, <2>2, CanonicalPair
      <3> QED BY <3>1, <2>3, <2>5 DEF Reverse
    <2>7. {a, b} \notin {{m.user1, m.user2} : m \in matches}
      <3> SUFFICES ASSUME NEW m \in matches, {m.user1, m.user2} = {a, b} PROVE FALSE
        OBVIOUS
      <3>1. m.user1 < m.user2 /\ m.user1 \in Nat /\ m.user2 \in Nat
        BY DEF Inv, TypeOK, Rows
      <3>2. m.user1 = c[1] /\ m.user2 = c[2]
        BY <3>1, <2>2, <2>3, <2>5
      <3>3. m \in RowsOf(c)
        BY <3>2, <2>2, <2>3 DEF RowsOf
      <3> QED BY <3>3, <2>4 DEF IsMatched
    <2>8. {{m.user1, m.user2} : m \in matches'} =
              {{m.user1, m.user2} : m \in matches} \union {{a, b}}
      <3>1. PICK row \in [id : Nat, user1 : Users, user2 : Users] :
                row = [id |-> nextMatchId, user1 |-> c[1], user2 |-> c[2]]
        BY <2>3 DEF Inv, TypeOK
      <3>2. matches' = matches \union {row} /\ row.user1 = a /\ row.user2 = b
        BY <3>1, <2>4, <2>5
      <3> QED BY <3>2
    <2>9. Promise!Match(a, b)
      BY <2>4, <2>6, <2>7, <2>8 DEF Promise!Match, Promise!Mutual
    <2> QED BY <2>9 DEF Promise!Next
  <1>3. ASSUME UNCHANGED <<likes, matches>> PROVE UNCHANGED Promise!vars
    BY <1>3
  <1>4. CASE Next
    <2>1. ASSUME NEW r \in Requests, NEW from \in Users, NEW to \in UserIds,
                 BeginLike(r, from, to) \/ BeginSkip(r, from, to)
          PROVE  UNCHANGED <<likes, matches>>
      BY <2>1 DEF BeginLike, BeginSkip, Begin, tables
    <2>2. ASSUME NEW r \in Requests,
                 CheckUser(r) \/ HasLiked(r) \/ GetMatch(r) \/ CreateSkip(r)
                     \/ Fail(r) \/ Receive(r)
          PROVE  UNCHANGED <<likes, matches>>
      BY <2>2 DEF CheckUser, HasLiked, GetMatch, CreateSkip, Fail, Receive, tables
    <2>3. ASSUME NEW r \in Requests, CreateLike(r)
          PROVE  Promise!Next \/ UNCHANGED <<likes, matches>>
      BY <2>3, <1>1 DEF CreateLike
    <2>4. ASSUME NEW r \in Requests, CreateMatch(r)
          PROVE  Promise!Next \/ UNCHANGED <<likes, matches>>
      BY <2>4, <1>2 DEF CreateMatch
    <2> QED BY <1>3, <1>4, <2>1, <2>2, <2>3, <2>4 DEF Next, Step
  <1>5. CASE UNCHANGED vars
    BY <1>3, <1>5 DEF vars, tables
  <1> QED BY <1>4, <1>5

\* Matching implements MutualLike: nothing SendLike or SendSkip does, under any
\* interleaving and with any failures, is seen as anything but a like or the
\* match of two users who like each other.
THEOREM MatchingImplementsPromise == Spec => ImplementsPromise
  <1>1. Init => Promise!Init
    BY DEF Init, Promise!Init
  <1>2. Inv /\ [Next]_vars => [Promise!Next]_(Promise!vars)
    BY StepImplementsPromise
  <1> QED BY <1>1, <1>2, MatchingInvariant, PTL DEF Spec, ImplementsPromise, Promise!Spec
=============================================================================
