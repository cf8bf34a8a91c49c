----------------------------- MODULE Messaging -----------------------------
(***************************************************************************)
(* Messages between one user, "me", and the partners of my matches: the    *)
(* SendMessage requests of both sides, the pushes to my browser and the    *)
(* TanStack Query caches of that browser (apps/api/usecases/               *)
(* message_usecase.go; apps/web/hooks/use-ws-connection.ts, use-messages.ts*)
(* and use-match-profiles.ts; apps/web/components/messages/chat-view.tsx). *)
(*                                                                         *)
(* A cache is written by three hands that do not wait for one another: the *)
(* answers of its own fetches, each a snapshot the server took earlier;    *)
(* the pushes; and the answers of my own sends.                            *)
(***************************************************************************)
EXTENDS Naturals, Sequences, FiniteSets, SequencesExt

CONSTANTS Matches,    \* my matches; each is also the key of its history query
          Chats,      \* bound: the matches whose chat I open
          Requests,   \* POST /matches/:matchId/messages, numbered as they are sent
          Limit       \* defaultMessagesLimit: the messages a history is read with

ASSUME ChatsAssumption == Chats \subseteq Matches
ASSUME RequestsAssumption == Requests \subseteq Nat
ASSUME LimitAssumption == Limit \in Nat \ {0}

Lists == {"unmessaged", "messaged"}
Queries == Matches \union Lists
OtherPages == {"recs", "rendering", "inbox"}

\* Matches are told from the keys of the lists and from the pages that are no chat.
ASSUME MatchesAssumption == Matches \intersect (Lists \union OtherPages) = {}

VARIABLES rows,       \* table messages: what is committed
          nextId,     \* the sequence behind messages.id
          req,        \* the progress of each request
          wire,       \* pushes under way to my browser, in order
          page,       \* the page my browser shows
          loaded,     \* the queries whose cache is not undefined
          history,    \* cache matches.{matchId}.messages: ids, shown reversed
          unmessaged, \* cache matches.unmessaged
          messaged,   \* cache matches.messaged: match and last message
          fetch,      \* the fetch of each query: "none", "asked", "answered"
          spoiled     \* history: matches that had a message under way while their
                      \* history was not loaded or was being fetched, or of which a push
                      \* or an answer to me got lost

cache == <<loaded, history, unmessaged, messaged>>
server == <<rows, nextId>>
vars == <<server, req, wire, page, cache, fetch, spoiled>>

Participants == {"me", "partner"}
Users == Participants \union {"outsider"}
NoMatch == "no match"

States == {"new", "begun", "inserting", "stored", "published",
           "refetching", "ended"}
UnderWay == {"begun", "inserting", "stored", "published", "refetching"}
Request(state, m, u) == [state |-> state, match |-> m, from |-> u, id |-> 0]

\* However it ended: nothing reads the rest.
Ended == Request("ended", NoMatch, "outsider")

Idle == [state |-> "none", seen |-> {}]
Asked == [state |-> "asked", seen |-> {}]

Init ==
    /\ rows = {} /\ nextId = 1
    /\ req = [r \in Requests |-> Request("new", NoMatch, "outsider")]
    /\ wire = <<>> /\ page = "recs"
    /\ loaded = {} /\ history = [m \in Matches |-> <<>>]
    /\ unmessaged = {} /\ messaged = <<>>
    /\ fetch = [q \in Queries |-> Idle]
    /\ spoiled = {}

\* Only queries of mounted components are refetched.
Active(q) == IF q \in Lists THEN page = "inbox" ELSE page = q

InFlight(q) == fetch[q].state # "none"

\* A message of m is between its INSERT and my caches.
Moving(m) ==
    \/ \E r \in Requests : req[r].match = m /\ req[r].state \in UnderWay
    \/ \E p \in ToSet(wire) : p.match = m

\* Part of every action: the bookkeeping of spoiled.
Spoils(matches) ==
    spoiled' = spoiled \union matches \union
        {m \in Matches : Moving(m)' /\ (m \notin loaded' \/ InFlight(m)')}
Observe == Spoils({})

-----------------------------------------------------------------------------
(* The API: SendMessage                                                    *)

SetState(r, state) == req' = [req EXCEPT ![r].state = state]
End(r) == req' = [req EXCEPT ![r] = Ended]

IsNext(r) == req[r].state = "new" /\ \A s \in Requests : s < r => req[s].state # "new"

\* Mutant: the check of otherParticipant is dropped.
SendUnchecked(r, m, u) ==
    /\ IsNext(r)
    /\ u = "me" => page = m
    /\ req' = [req EXCEPT ![r] = Request("begun", m, u)]
    /\ UNCHANGED <<server, wire, page, cache, fetch>>
    /\ Observe

\* A request arrives; GetMatchByID and otherParticipant find the recipient or
\* refuse.  My own requests come from the chat that is open.
Send(r, m, u) ==
    /\ IsNext(r)
    /\ u = "me" => page = m
    /\ req' = [req EXCEPT ![r] = IF u \in Participants THEN Request("begun", m, u) ELSE Ended]
    /\ UNCHANGED <<server, wire, page, cache, fetch>>
    /\ Observe

\* CreateMessage begins: the row takes its id from the sequence.
Insert(r) ==
    /\ req[r].state = "begun"
    /\ req' = [req EXCEPT ![r].state = "inserting", ![r].id = nextId]
    /\ nextId' = nextId + 1
    /\ UNCHANGED <<rows, wire, page, cache, fetch>>
    /\ Observe

Row(r) == [id |-> req[r].id, match |-> req[r].match, from |-> req[r].from]

\* The INSERT commits; ids may commit in another order than they were taken.
Commit(r) ==
    /\ req[r].state = "inserting"
    /\ SetState(r, "stored")
    /\ rows' = rows \union {Row(r)}
    /\ UNCHANGED <<nextId, wire, page, cache, fetch>>
    /\ Observe

\* GetMatchByID or CreateMessage returns an error.
Fail(r) ==
    /\ req[r].state \in {"begun", "inserting"}
    /\ End(r)
    /\ UNCHANGED <<server, wire, page, cache, fetch>>
    /\ Observe

\* Mutant: the recipient is the sender.
RecipientIsSender(u) == u

Recipient(u) == IF u = "me" THEN "partner" ELSE "me"

Pushed(r) ==
    wire' = IF Recipient(req[r].from) = "me" THEN Append(wire, Row(r)) ELSE wire

\* The API answers; what becomes of an answer to a partner is not followed.
Answered(r) == IF req[r].from = "me" THEN SetState(r, "published") ELSE End(r)

\* Mutant: published before the result of the INSERT is looked at.
PublishEarly(r) ==
    /\ req[r].state \in {"inserting", "stored"}
    /\ Answered(r)
    /\ UNCHANGED <<server, page, cache, fetch>>
    /\ \/ Pushed(r) /\ Observe
       \/ UNCHANGED wire /\ Spoils({req[r].match})

\* publishNewMessage; an error is only logged (and makes a difference to me
\* if I am the recipient).
Publish(r) ==
    /\ req[r].state = "stored"
    /\ Answered(r)
    /\ UNCHANGED <<server, page, cache, fetch>>
    /\ \/ Pushed(r) /\ Observe
       \/ /\ Recipient(req[r].from) = "me"
          /\ UNCHANGED wire /\ Spoils({req[r].match})

\* My connection is down for a while: nothing is delivered later.
LosePushes ==
    /\ wire # <<>>
    /\ wire' = <<>>
    /\ UNCHANGED <<server, req, page, cache, fetch>>
    /\ Spoils({p.match : p \in ToSet(wire)})

-----------------------------------------------------------------------------
(* TanStack Query                                                          *)

\* invalidateQueries: an active query is fetched anew.  A fetch in flight is
\* cancelled if there is data to show meanwhile; without data it is joined.
Invalidate(q) ==
    fetch' = IF Active(q) /\ (q \in loaded \/ ~InFlight(q))
             THEN [fetch EXCEPT ![q] = Asked] ELSE fetch

Newest(S, m) == CHOOSE r \in S : r.match = m /\ \A s \in S : s.match = m => s.id <= r.id

\* A set of numbers as a list, the greatest first.
Descending(S) ==
    CHOOSE s \in [1..Cardinality(S) -> S] :
        ToSet(s) = S /\ \A i, j \in DOMAIN s : i < j => s[i] > s[j]

\* What the three endpoints answer from the rows the server sees.
HistoryFrom(m, seen) ==
    LET all == Descending({r.id : r \in {s \in seen : s.match = m}})
    IN IF Len(all) <= Limit THEN all ELSE SubSeq(all, 1, Limit)
UnmessagedFrom(seen) == {m \in Matches : \A r \in seen : r.match # m}
MessagedFrom(seen) ==
    LET newest == {Newest(seen, m) : m \in Matches \ UnmessagedFrom(seen)}
        last == Descending({r.id : r \in newest})
        match(id) == (CHOOSE r \in newest : r.id = id).match
    IN [i \in DOMAIN last |-> [match |-> match(last[i]), last |-> last[i]]]

\* Mutant: useUnmessagedMatches does not poll.
StartWithoutPolling(q) ==
    /\ Active(q) /\ ~InFlight(q) /\ q # "unmessaged"
    /\ fetch' = [fetch EXCEPT ![q] = Asked]
    /\ UNCHANGED <<server, req, wire, page, cache>>
    /\ Observe

\* A poll (unmessaged), the window getting the focus, or a stale query mounted.
Start(q) ==
    /\ Active(q) /\ ~InFlight(q)
    /\ fetch' = [fetch EXCEPT ![q] = Asked]
    /\ UNCHANGED <<server, req, wire, page, cache>>
    /\ Observe

ServerReads(q) ==
    /\ fetch[q].state = "asked"
    /\ fetch' = [fetch EXCEPT ![q] = [state |-> "answered", seen |-> rows]]
    /\ UNCHANGED <<server, req, wire, page, cache>>
    /\ Observe

\* The answer replaces whatever the cache holds by then.
FetchReturns(q) ==
    /\ fetch[q].state = "answered"
    /\ q \in Lists => page # "rendering"
    /\ loaded' = loaded \union {q}
    /\ history' = IF q \in Matches
                  THEN [history EXCEPT ![q] = HistoryFrom(q, fetch[q].seen)] ELSE history
    /\ unmessaged' = IF q = "unmessaged" THEN UnmessagedFrom(fetch[q].seen) ELSE unmessaged
    /\ messaged' = IF q = "messaged" THEN MessagedFrom(fetch[q].seen) ELSE messaged
    /\ fetch' = [fetch EXCEPT ![q] = Idle]
    /\ UNCHANGED <<server, req, wire, page>>
    /\ Observe

\* After its retries the query keeps the data it had.
FetchFails(q) ==
    /\ InFlight(q)
    /\ q \in Lists => page # "rendering"
    /\ fetch' = [fetch EXCEPT ![q] = Idle]
    /\ UNCHANGED <<server, req, wire, page, cache>>
    /\ Observe

-----------------------------------------------------------------------------
(* The pages                                                               *)

\* The first visit of the inbox is rendered on the server, which reads both
\* lists; later the caches are there and what the server renders is ignored, unless
\* one of its reads fails.
OpenInbox ==
    /\ page \notin {"rendering", "inbox"}
    /\ IF Lists \subseteq loaded
       THEN page' \in {"inbox", "recs"} /\ UNCHANGED fetch
       ELSE page' = "rendering" /\ fetch' = [q \in Queries |->
                                              IF q \in Lists THEN Asked ELSE fetch[q]]
    /\ UNCHANGED <<server, req, wire, cache>>
    /\ Observe

\* initialData fills both caches when the inbox is mounted.
MountInbox ==
    /\ page = "rendering"
    /\ \A q \in Lists : fetch[q].state = "answered"
    /\ page' = "inbox"
    /\ loaded' = loaded \union Lists
    /\ unmessaged' = UnmessagedFrom(fetch["unmessaged"].seen)
    /\ messaged' = MessagedFrom(fetch["messaged"].seen)
    /\ fetch' = [q \in Queries |-> IF q \in Lists THEN Idle ELSE fetch[q]]
    /\ UNCHANGED <<server, req, wire, history>>
    /\ Observe

\* A read fails: 401 redirects to the login page, any other error is thrown.  No page
\* shown then uses the caches, like "recs".
RenderFails ==
    /\ page = "rendering"
    /\ page' = "recs"
    /\ fetch' = [q \in Queries |-> IF q \in Lists THEN Idle ELSE fetch[q]]
    /\ UNCHANGED <<server, req, wire, cache>>
    /\ Observe

\* ChatView is mounted: without data its query is fetched, or joined.
OpenChat(m) ==
    /\ page \notin {"rendering", m}
    /\ page' = m
    /\ fetch' = IF m \in loaded \/ InFlight(m) THEN fetch ELSE [fetch EXCEPT ![m] = Asked]
    /\ UNCHANGED <<server, req, wire, cache>>
    /\ Observe

-----------------------------------------------------------------------------
(* Pushes and my own messages in the caches                                *)

\* Mutant: the match is not taken out of its old place in the list.
ApplyWithoutFilter(m, id) ==
    /\ unmessaged' = unmessaged \ {m}
    /\ IF "messaged" \in loaded
       THEN messaged' = <<[match |-> m, last |-> id]>> \o messaged /\ UNCHANGED fetch
       ELSE Invalidate("messaged") /\ UNCHANGED messaged

\* The list without a match, in the same order.
Without(list, m) ==
    LET kept == Reverse(Descending({i \in DOMAIN list : list[i].match # m}))
    IN [k \in DOMAIN kept |-> list[kept[k]]]

\* applyNewMessageToMatchesCache: the match leaves the one list and becomes
\* the head of the other, or that other list is refetched.
ApplyNewMessage(m, id) ==
    LET others == Without(messaged, m)
        known == m \in unmessaged \/ Len(others) < Len(messaged) IN
    /\ unmessaged' = unmessaged \ {m}
    /\ IF "messaged" \in loaded /\ known
       THEN messaged' = <<[match |-> m, last |-> id]>> \o others /\ UNCHANGED fetch
       ELSE Invalidate("messaged") /\ UNCHANGED messaged

Prepend(m, id) == history' = [history EXCEPT ![m] = IF m \in loaded THEN <<id>> \o @ ELSE @]

\* useWsConnection's onMessage.
OnPush ==
    /\ wire # <<>>
    /\ wire' = Tail(wire)
    /\ LET p == Head(wire) IN
         Prepend(p.match, p.id) /\ ApplyNewMessage(p.match, p.id)
    /\ UNCHANGED <<server, req, page, loaded>>
    /\ Observe

\* The answer 201 reaches my browser: handleSend writes it into the caches or,
\* without a history to write to, refetches that first.
Receive(r) ==
    /\ req[r].state = "published"
    /\ LET m == req[r].match IN
       IF m \in loaded
       THEN /\ End(r)
            /\ Prepend(m, req[r].id) /\ ApplyNewMessage(m, req[r].id)
       ELSE /\ SetState(r, "refetching")
            /\ Invalidate(m) /\ UNCHANGED <<history, unmessaged, messaged>>
    /\ UNCHANGED <<server, wire, page, loaded>>
    /\ Observe

\* The await in handleSend is over.
HandleSendGoesOn(r) ==
    /\ req[r].state = "refetching"
    /\ ~InFlight(req[r].match)
    /\ End(r)
    /\ ApplyNewMessage(req[r].match, req[r].id)
    /\ UNCHANGED <<server, wire, page, loaded, history>>
    /\ Observe

\* The answer does not reach my browser.
LoseAnswer(r) ==
    /\ req[r].state = "published"
    /\ End(r)
    /\ UNCHANGED <<server, wire, page, cache, fetch>>
    /\ Spoils({req[r].match})

-----------------------------------------------------------------------------
Next ==
    \/ \E r \in Requests :
         \/ \E m \in Matches, u \in Users : Send(r, m, u)
         \/ Insert(r) \/ Commit(r) \/ Fail(r) \/ Publish(r)
         \/ Receive(r) \/ HandleSendGoesOn(r) \/ LoseAnswer(r)
    \/ OnPush \/ LosePushes
    \/ \E q \in Queries : Start(q) \/ ServerReads(q) \/ FetchReturns(q) \/ FetchFails(q)
    \/ OpenInbox \/ MountInbox \/ RenderFails
    \/ \E m \in Chats : OpenChat(m)


Spec == Init /\ [][Next]_vars

\* The interval of useUnmessagedMatches goes on while the inbox is open, the
\* server answers, and a fetch that is repeated for ever succeeds in the end.
PollFairness ==
    /\ WF_vars(Start("unmessaged"))
    /\ SF_vars(ServerReads("unmessaged"))
    /\ SF_vars(FetchReturns("unmessaged"))

FairSpec == Spec /\ PollFairness

-----------------------------------------------------------------------------
(* Properties                                                              *)

Message == [id : Nat, match : Matches, from : Participants]
Ids(m) == {r.id : r \in {s \in rows : s.match = m}}

\* The types of the state.
TypeOK ==
    /\ rows \subseteq Message /\ nextId \in Nat
    /\ req \in [Requests -> [state : States, match : Matches \union {NoMatch},
                             from : Users, id : Nat]]
    /\ wire \in Seq(Message)
    /\ page \in OtherPages \union Matches
    /\ loaded \subseteq Queries
    /\ history \in [Matches -> Seq(Nat)]
    /\ unmessaged \subseteq Matches
    /\ messaged \in Seq([match : Matches, last : Nat])
    /\ fetch \in [Queries -> [state : {"none", "asked", "answered"}, seen : SUBSET Message]]
    /\ spoiled \subseteq Matches

\* Nothing is shown or pushed that is not stored in that match: publishing and
\* answering come after the commit, and a fetch sees committed rows only.
NoPhantom ==
    /\ \A p \in ToSet(wire) : p \in rows
    /\ \A m \in Matches : ToSet(history[m]) \subseteq Ids(m)
    /\ \A c \in ToSet(messaged) : c.last \in Ids(c.match)

\* The inbox never lists a conversation twice, however pushes, sends and
\* refetches mix.
ConversationListedOnce == IsInjective([i \in DOMAIN messaged |-> messaged[i].match])

Quiet ==
    /\ wire = <<>>
    /\ \A r \in Requests : req[r].state \notin UnderWay
    /\ \A q \in Queries : ~InFlight(q)

\* A list of a chat's messages has no gaps: what it leaves out is older than all it shows,
\* and is left out because the list is full.
HasNoGap(m, list) ==
    \A i \in Ids(m) \ ToSet(list) : Len(list) >= Limit /\ \A j \in ToSet(list) : i < j

\* Only a fetch can spoil a chat: as long as none overlaps with a message of it and
\* none of its is lost, pushes and my own sends together bring every message of the
\* chat exactly once, without any refetch, and follow on what was fetched.
ChatCompleteWithoutOverlap ==
    Quiet => \A m \in loaded \ (spoiled \union Lists) :
                 IsInjective(history[m]) /\ HasNoGap(m, history[m])

\* While the inbox stays open, polling brings its row of new matches in line
\* with the table, whatever was lost or overwritten before.
UnmessagedConverges ==
    <>[](page = "inbox") => <>[](unmessaged = UnmessagedFrom(rows))
=============================================================================
