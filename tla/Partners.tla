------------------------------ MODULE Partners ------------------------------
(***************************************************************************)
(* The partners a user is shown: GET /partners with its cursor             *)
(* (partner_usecase.go, profile_repository.go), the two feeds of the       *)
(* search page (use-search-profiles.ts, search-profile-actions.tsx), the   *)
(* deck of cards (recs-provider.tsx, swipe-card-deck.tsx) and the list of  *)
(* likes received (use-received-likes.ts, use-return-like.ts) of one       *)
(* browser, while the same user decides on another device too, new         *)
(* profiles appear and others like the user.                               *)
(*                                                                         *)
(* The browser runs one server action at a time, in the order in which     *)
(* they were started; fetches run beside them.                             *)
(***************************************************************************)
EXTENDS Naturals, Sequences, FiniteSets, Functions

CONSTANTS Ids,        \* user ids of the others
          Limit,      \* profiles on a page, 20 by default
          Feeds,      \* the feeds of the search page: "recommended", "newest"
          Visits,     \* bound: the sets of parts that one user opens in a session
          MaxActions  \* bound on the server actions waiting at one time

ASSUME IdsAssumption == Ids \subseteq Nat \ {0} /\ IsFiniteSet(Ids)
ASSUME LimitAssumption == Limit \in Nat \ {0}
ASSUME FeedsAssumption == Feeds \subseteq {"recommended", "newest"}
ASSUME VisitsAssumption == Visits \subseteq SUBSET (Feeds \union {"recs", "likes"})
ASSUME MaxActionsAssumption == MaxActions \in Nat

VARIABLES profiles,  \* users with a profile
          decided,   \* pairs <<direction, id>>: my rows in likes and skips
          likers,    \* users whose like of me is stored
          matches,   \* users I am matched with
          feed,      \* TanStack cache of each feed: its pages
          fetch,     \* the fetch of each feed
          deck,      \* cached cards, and the direction the top one is leaving in
          pending,   \* cached list of likes received, and its total
          poll,      \* the answer of the poll of that list that is under way
          actions,   \* server actions started and not answered, in order
          visit,     \* the parts this user opens
          begun,     \* history: profiles there were when the feed's first page was read
          raced,     \* history: profiles liked while a fetch of the feed held them
          dealt,     \* history: cards the deck got from the server
          decisions, \* history: server actions that were answered with success
          reopened,  \* history: cards whose decision was being sent when the deck was left
          dropped    \* history: users the list lacked when my like of them was answered

server == <<profiles, decided, likers, matches>>
likes == <<pending, poll>>
caches == <<feed, fetch, deck, likes>>
history == <<visit, begun, raced, dealt, decisions, reopened, dropped>>
vars == <<server, caches, actions, history>>

Directions == {"like", "skip"}
Origins == {"deck", "leftDeck", "search", "received"}
Lists == Feeds \union {"likes"}
NoPoll == [read |-> FALSE, ids |-> {}]
NoCursor == 0
NoFetch == [kind |-> "none", pages |-> <<>>, left |-> 0, begun |-> {}]
Closed == [open |-> FALSE, cards |-> {}, leaving |-> "none", submitted |-> FALSE]

Init ==
    /\ profiles \in SUBSET Ids
    /\ visit \in Visits
    /\ decided = {} /\ likers = {} /\ matches = {}
    /\ pending = [got |-> FALSE, ids |-> {}, total |-> 0] /\ poll = NoPoll
    /\ feed = [f \in Feeds |-> <<>>]
    /\ fetch = [f \in Feeds |-> NoFetch]
    /\ deck = Closed
    /\ actions = <<>>
    /\ begun = [f \in Feeds |-> {}]
    /\ raced = [l \in Lists |-> {}]
    /\ dealt = {} /\ decisions = {} /\ reopened = {} /\ dropped = {}

-----------------------------------------------------------------------------
(* GET /partners                                                           *)

Liked == {d[2] : d \in {e \in decided : e[1] = "like"}}
Decided == {d[2] : d \in decided}
Undecided == profiles \ Decided

Before(f, i, j) == IF f = "newest" THEN i > j ELSE i < j
First(f, n, S) == {i \in S : Cardinality({j \in S : Before(f, j, i)}) < n}
LastOf(f, S) == CHOOSE i \in S : \A j \in S \ {i} : Before(f, j, i)

\* Mutant: the cursor's own profile is read again.
BeyondOrAt(f, i, cursor) == cursor = NoCursor \/ i = cursor \/ Before(f, cursor, i)

Beyond(f, i, cursor) == cursor = NoCursor \/ Before(f, cursor, i)

\* (A match is two likes, so the query's NOT EXISTS over matches adds nothing.)
SearchProfiles(f, cursor, n) == First(f, n, {i \in Undecided : Beyond(f, i, cursor)})

\* Mutant: the cursor is the extra row that only tells that there is a next page.
SearchFromExtra(f, cursor) ==
    LET found == SearchProfiles(f, cursor, Limit + 1)
        hasNext == Cardinality(found) > Limit
    IN  [ids |-> First(f, Limit, found),
         next |-> IF hasNext THEN LastOf(f, found) ELSE NoCursor]

Search(f, cursor) ==
    LET found == SearchProfiles(f, cursor, Limit + 1)
        hasNext == Cardinality(found) > Limit
        page == First(f, Limit, found)
    IN  [ids |-> page, next |-> IF hasNext THEN LastOf(f, page) ELSE NoCursor]

-----------------------------------------------------------------------------
(* The feeds of the search page                                            *)

PageIds(pages) == UNION {page.ids : page \in Range(pages)}
NextCursor(pages) == IF pages = <<>> THEN NoCursor ELSE pages[Len(pages)].next
HasNext(pages) == pages # <<>> /\ NextCursor(pages) # NoCursor

\* The first fetch of a feed, or the refetch of all its pages when it is stale.
Refetch(f) ==
    /\ f \in visit /\ fetch[f].kind = "none"
    /\ fetch' = [fetch EXCEPT ![f] = [kind |-> "refetch", pages |-> <<>>,
                   left |-> IF feed[f] = <<>> THEN 1 ELSE Len(feed[f]), begun |-> {}]]
    /\ UNCHANGED <<server, feed, deck, likes, actions, history>>

\* fetchNextPage goes on from the pages there are; it cancels a refetch.
FetchNextPage(f) ==
    /\ fetch[f].kind # "next" /\ HasNext(feed[f])
    /\ fetch' = [fetch EXCEPT ![f] = [kind |-> "next", pages |-> feed[f],
                   left |-> 1, begun |-> begun[f]]]
    /\ UNCHANGED <<server, feed, deck, likes, actions, history>>

\* The API answers for one page; a refetch stops where there is no next one.
ReadPage(f) ==
    /\ fetch[f].kind # "none" /\ fetch[f].left > 0
    /\ LET page == Search(f, NextCursor(fetch[f].pages))
       IN  fetch' = [fetch EXCEPT ![f].pages = Append(@, page),
                       ![f].left = IF page.next = NoCursor THEN 0 ELSE @ - 1,
                       ![f].begun = IF fetch[f].pages = <<>> THEN profiles ELSE @]
    /\ UNCHANGED <<server, feed, deck, likes, actions, history>>

FetchEnds(f) ==
    /\ fetch[f].kind # "none" /\ fetch[f].left = 0
    /\ feed' = [feed EXCEPT ![f] = fetch[f].pages]
    /\ begun' = [begun EXCEPT ![f] = fetch[f].begun]
    /\ fetch' = [fetch EXCEPT ![f] = NoFetch]
    /\ raced' = [raced EXCEPT ![f] = @ \intersect PageIds(fetch[f].pages)]
    /\ UNCHANGED <<server, deck, likes, actions, visit, dealt, decisions, reopened, dropped>>

FetchFails(f) ==
    /\ fetch[f].kind # "none"
    /\ fetch' = [fetch EXCEPT ![f] = NoFetch]
    /\ UNCHANGED <<server, feed, deck, likes, actions, history>>

-----------------------------------------------------------------------------
(* The deck                                                                *)

Current == LastOf("newest", deck.cards)

\* /recs is rendered with the first page; the cache keeps it from then on.  (There
\* is no /api/recs, so every refetch fails and changes nothing.)
OpenDeck ==
    /\ "recs" \in visit /\ ~deck.open /\ dealt = {}
    /\ LET cards == Search("recommended", NoCursor).ids
       IN  deck' = [Closed EXCEPT !.open = TRUE, !.cards = cards] /\ dealt' = cards
    /\ UNCHANGED <<server, feed, fetch, likes, actions, visit, begun, raced, decisions, reopened, dropped>>

\* The user looks at the card's detail page: the card on the deck is unmounted,
\* and nobody waits for its decision any more, though it is still carried out.
LeaveDeck ==
    /\ deck.open /\ deck.cards # {}
    /\ deck' = [deck EXCEPT !.open = FALSE, !.leaving = "none", !.submitted = FALSE]
    /\ reopened' = reopened \union {a.id : a \in {b \in Range(actions) : b.origin = "deck"}}
    /\ actions' = [k \in DOMAIN actions |->
                     [actions[k] EXCEPT !.origin = IF @ = "deck" THEN "leftDeck" ELSE @]]
    /\ UNCHANGED <<server, feed, fetch, likes, visit, begun, raced, dealt, decisions, dropped>>

\* Back from it, perhaps with a swipe that was asked for there, which ends in
\* startSwipeAnimation like any other.
ReturnToDeck ==
    /\ ~deck.open /\ dealt # {}
    /\ deck' = [deck EXCEPT !.open = TRUE]
    /\ UNCHANGED <<server, feed, fetch, likes, actions, history>>

\* Mutant: a card that is leaving can be sent off again.
StartSwipeAnyTime(direction) ==
    /\ deck.open /\ deck.cards # {}
    /\ deck' = [deck EXCEPT !.leaving = direction, !.submitted = FALSE]
    /\ UNCHANGED <<server, feed, fetch, likes, actions, history>>

\* startSwipeAnimation: the card leaves unless it is leaving already.
StartSwipe(direction) ==
    /\ deck.open /\ deck.cards # {} /\ deck.leaving = "none"
    /\ deck' = [deck EXCEPT !.leaving = direction]
    /\ UNCHANGED <<server, feed, fetch, likes, actions, history>>

Action(what, i, origin) == [what |-> what, id |-> i, origin |-> origin, state |-> "waiting"]

\* The animation is over: submitDecision.
SubmitDecision ==
    /\ deck.open /\ deck.cards # {} /\ deck.leaving # "none" /\ ~deck.submitted
    /\ Len(actions) < MaxActions
    /\ deck' = [deck EXCEPT !.submitted = TRUE]
    /\ actions' = Append(actions, Action(deck.leaving, Current, "deck"))
    /\ UNCHANGED <<server, feed, fetch, likes, history>>

Settled(i) == IF deck.cards # {} /\ Current = i
              THEN [deck EXCEPT !.leaving = "none", !.submitted = FALSE] ELSE deck

\* The card comes back, if it is still the one that left.
Refused(a) == IF a.origin = "deck" THEN Settled(a.id) ELSE deck

\* The card is gone, and the next one is mounted anew.
Removed(a) == [Settled(a.id) EXCEPT !.cards = @ \ {a.id}]

-----------------------------------------------------------------------------
(* The likes received                                                      *)

\* Skips do not count: a like of somebody I skipped is listed.
GetPendingLikes == (likers \intersect profiles) \ matches

\* The list is asked for when it is opened and every 30 s, and the API reads it.
Poll ==
    /\ "likes" \in visit /\ ~poll.read
    /\ poll' = [read |-> TRUE, ids |-> GetPendingLikes]
    /\ UNCHANGED <<server, feed, fetch, deck, pending, actions, history>>

PollEnds ==
    /\ poll.read
    /\ pending' = [got |-> TRUE, ids |-> poll.ids, total |-> Cardinality(poll.ids)]
    /\ poll' = NoPoll
    /\ raced' = [raced EXCEPT !["likes"] = @ \intersect poll.ids]
    /\ dropped' = {}
    /\ UNCHANGED <<server, feed, fetch, deck, actions, visit, begun, dealt, decisions, reopened>>

PollFails ==
    /\ poll.read
    /\ poll' = NoPoll
    /\ UNCHANGED <<server, feed, fetch, deck, pending, actions, history>>

\* Mutant: the total is left to the next poll.
TakeOutUncounted(i) ==
    IF pending.got THEN [pending EXCEPT !.ids = @ \ {i}] ELSE pending

\* useReturnLike takes the profile out of the list, and one off the total, whether
\* or not the list had it.
TakeOut(i) ==
    IF pending.got
    THEN [got |-> TRUE, ids |-> pending.ids \ {i},
          total |-> IF pending.total = 0 THEN 0 ELSE pending.total - 1]
    ELSE pending

-----------------------------------------------------------------------------
(* Server actions                                                          *)

\* handleLike on the detail page of a listed profile; once per visit.
LikeFromSearch(i) ==
    /\ \E f \in Feeds : i \in PageIds(feed[f])
    /\ Len(actions) < MaxActions
    /\ Action("like", i, "search") \notin Range(actions)
    /\ actions' = Append(actions, Action("like", i, "search"))
    /\ UNCHANGED <<server, caches, history>>

\* Returning a like, on the list or on the page of one who is or was on it; each has
\* a button of its own, which only waits for its own answer.
ReturnLike(i) ==
    /\ "likes" \in visit /\ i \in likers
    /\ Len(actions) < MaxActions
    /\ actions' = Append(actions, Action("like", i, "received"))
    /\ UNCHANGED <<server, caches, history>>

\* The match that my row d completes.
MatchBy(d) == IF d[1] = "like" THEN {d[2]} \intersect likers ELSE {}

\* POST /likes or /skips: 409 if the row is there.
Execute ==
    /\ actions # <<>> /\ Head(actions).state = "waiting"
    /\ LET d == <<Head(actions).what, Head(actions).id>>
           new == d \notin decided
       IN  /\ decided' = decided \union {d}
           /\ matches' = IF new THEN matches \union MatchBy(d) ELSE matches
           /\ actions' = [actions EXCEPT ![1].state = IF new THEN "done" ELSE "refused"]
    /\ UNCHANGED <<profiles, likers, caches, history>>

\* My like is stored and the request fails before the match is.
ExecuteStops ==
    /\ actions # <<>> /\ Head(actions).state = "waiting"
    /\ LET d == <<Head(actions).what, Head(actions).id>>
       IN  d \notin decided /\ MatchBy(d) # {} /\ decided' = decided \union {d}
    /\ actions' = [actions EXCEPT ![1].state = "refused"]
    /\ UNCHANGED <<profiles, likers, matches, caches, history>>

\* The call fails, before or after the row is written.
ExecuteFails ==
    /\ actions # <<>> /\ Head(actions).state \in {"waiting", "done"}
    /\ actions' = [actions EXCEPT ![1].state = "refused"]
    /\ UNCHANGED <<server, caches, history>>

Without(i, pages) == [k \in DOMAIN pages |-> [pages[k] EXCEPT !.ids = @ \ {i}]]

\* Mutant: only the page fetched last is updated.
UpdateLastPage(i) == [f \in Feeds |->
    [k \in DOMAIN feed[f] |-> IF k = Len(feed[f]) THEN Without(i, feed[f])[k] ELSE feed[f][k]]]

\* updateSearchProfileCaches
UpdateFeeds(i) == [f \in Feeds |-> Without(i, feed[f])]

\* The answer reaches the page that started the action.
Answered ==
    /\ actions # <<>> /\ Head(actions).state \in {"done", "refused"}
    /\ actions' = Tail(actions)
    /\ LET a == Head(actions)
           done == a.state = "done"
           returned == a.origin = "received" /\ done
       IN  /\ deck' = IF a.origin \in {"search", "received"} THEN deck
                      ELSE IF done THEN Removed(a) ELSE Refused(a)
           /\ pending' = IF returned THEN TakeOut(a.id) ELSE pending
           /\ dropped' = IF returned /\ pending.got /\ a.id \notin pending.ids
                         THEN dropped \union {a.id} ELSE dropped
           /\ feed' = IF a.origin = "search" /\ done THEN UpdateFeeds(a.id) ELSE feed
           /\ decisions' = IF done THEN decisions \union {<<a.origin, a.what, a.id>>}
                           ELSE decisions
           /\ raced' = [l \in Lists |->
                IF \/ l = "likes" /\ returned /\ a.id \in poll.ids
                   \/ l # "likes" /\ a.origin = "search" /\ done /\ a.id \in PageIds(fetch[l].pages)
                THEN raced[l] \union {a.id} ELSE raced[l]]
    /\ UNCHANGED <<server, fetch, poll, visit, begun, dealt, reopened>>

-----------------------------------------------------------------------------
(* Elsewhere                                                               *)

\* Somebody completes a sign-up.
NewProfile(i) ==
    /\ i \notin profiles
    /\ profiles' = profiles \union {i}
    /\ UNCHANGED <<decided, likers, matches, caches, actions, history>>

\* I like or skip somebody on another device; the match may fail to be stored.
DecideElsewhere(direction, i) ==
    /\ i \in profiles /\ <<direction, i>> \notin decided
    /\ decided' = decided \union {<<direction, i>>}
    /\ \E made \in SUBSET MatchBy(<<direction, i>>) : matches' = matches \union made
    /\ UNCHANGED <<profiles, likers, caches, actions, history>>

\* Somebody likes me, which is a match if I liked them, unless that fails to be
\* stored.  (Only the list of likes received tells it.)
LikedBy(i) ==
    /\ "likes" \in visit /\ i \in profiles \ likers
    /\ likers' = likers \union {i}
    /\ \E made \in SUBSET ({i} \intersect Liked) : matches' = matches \union made
    /\ UNCHANGED <<profiles, decided, caches, actions, history>>

Next ==
    \/ \E f \in Feeds : Refetch(f) \/ FetchNextPage(f) \/ ReadPage(f) \/ FetchEnds(f) \/ FetchFails(f)
    \/ OpenDeck \/ LeaveDeck \/ ReturnToDeck \/ SubmitDecision
    \/ \E direction \in Directions : StartSwipe(direction)
    \/ Poll \/ PollEnds \/ PollFails
    \/ Execute \/ ExecuteStops \/ ExecuteFails \/ Answered
    \/ \E i \in Ids :
         \/ LikeFromSearch(i) \/ ReturnLike(i) \/ NewProfile(i) \/ LikedBy(i)
         \/ \E direction \in Directions : DecideElsewhere(direction, i)

Spec == Init /\ [][Next]_vars

-----------------------------------------------------------------------------
(* Properties                                                              *)

Page == [ids : SUBSET Ids, next : Ids \union {NoCursor}]
Fetch == [kind : {"none", "refetch", "next"}, pages : Seq(Page), left : Nat, begun : SUBSET Ids]
ServerAction == [what : Directions, id : Ids, origin : Origins, state : {"waiting", "done", "refused"}]

\* The types of the state.
TypeOK ==
    /\ visit \in Visits
    /\ profiles \subseteq Ids /\ decided \subseteq Directions \X Ids
    /\ likers \subseteq profiles /\ matches \subseteq likers \intersect Liked
    /\ pending \in [got : BOOLEAN, ids : SUBSET Ids, total : 0..Cardinality(Ids)]
    /\ poll \in [read : BOOLEAN, ids : SUBSET Ids]
    /\ feed \in [Feeds -> Seq(Page)] /\ fetch \in [Feeds -> Fetch]
    /\ deck \in [open : BOOLEAN, cards : SUBSET Ids,
                 leaving : Directions \union {"none"}, submitted : BOOLEAN]
    /\ actions \in Seq(ServerAction) /\ Len(actions) <= MaxActions
    /\ begun \in [Feeds -> SUBSET Ids] /\ raced \in [Lists -> SUBSET Ids]
    /\ dealt \subseteq Ids /\ decisions \subseteq Origins \X Directions \X Ids
    /\ reopened \subseteq Ids /\ dropped \subseteq Ids

\* profile_repository.go:70: no profile is on two pages of a feed, whoever is liked,
\* skipped or signs up between them and whatever is removed from them.
NoProfileTwice == \A f \in Feeds : \A j, k \in DOMAIN feed[f] :
    j # k => feed[f][j].ids \intersect feed[f][k].ids = {}

\* A feed that has no next page lists everybody who had a profile when it was begun
\* and on whom I have not decided: paging loses nobody.
FeedComplete == \A f \in Feeds :
    feed[f] # <<>> /\ ~HasNext(feed[f]) =>
        begun[f] \ Decided \subseteq PageIds(feed[f])

\* A profile liked from the search page is on no feed any more, nor does it come back,
\* unless a fetch that had read it before was still under way; and one whose like was
\* returned is not among the likes received, under the same condition.
LikedLeavesTheLists ==
    /\ \A f \in Feeds : \A i \in PageIds(feed[f]) :
         <<"search", "like", i>> \in decisions => i \in raced[f]
    /\ \A i \in pending.ids :
         <<"received", "like", i>> \in decisions => i \in raced["likes"]

\* new-matches.tsx:23: the number of likes shown is the length of the list, unless a
\* poll had taken somebody out before my like of them was answered.
TotalCountsTheList ==
    dropped = {} => pending.total = Cardinality(pending.ids)

\* recs-provider.tsx:79: a card leaves the deck only when its decision has been
\* stored; and the deck stores one decision for a card that is gone and none for one
\* that is there, unless the deck was left while one was being sent.
OneDecisionPerCard ==
    /\ dealt \ deck.cards \subseteq Decided
    /\ \A i \in dealt \ reopened :
         Cardinality({d \in decisions : d[1] = "deck" /\ d[3] = i})
           = IF i \in deck.cards THEN 0 ELSE 1
=============================================================================
