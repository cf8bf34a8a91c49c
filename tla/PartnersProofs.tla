--------------------------- MODULE PartnersProofs ---------------------------
(***************************************************************************)
(* Proofs about Partners, for any finite number of others, any size of a   *)
(* page and any number of server actions waiting.                          *)
(*                                                                         *)
(* The feeds, the deck and the likes received share the rows of the        *)
(* database and the queue of server actions; each has an invariant of its  *)
(* own.  For the feeds it says that every id of a page comes before every  *)
(* id of a later one, and that whoever is on none comes after the cursor;  *)
(* for the deck that the card being sent is the one on top; for the likes  *)
(* received that a returned one is a match.                                *)
(***************************************************************************)
EXTENDS Partners, FiniteSetTheorems, SequenceTheorems, WellFoundedInduction, TLAPS

-----------------------------------------------------------------------------
(* Least and greatest ids                                                  *)

LEMMA Least == ASSUME NEW T, T \subseteq Nat, T # {} PROVE \E m \in T : \A k \in T : m <= k
  <1>1. PICK m \in T : \A k \in T : ~(<<k, m>> \in OpToRel(<, Nat))
    BY NatLessThanWellFounded, WFMin
  <1>2. \A k \in T : ~(k < m)
    BY <1>1 DEF OpToRel
  <1> QED  BY <1>2

\* A smallest set without a greatest number would have one, by that of the rest.
LEMMA Greatest == ASSUME NEW S, S \subseteq Nat, IsFiniteSet(S), S # {}
  PROVE  \E m \in S : \A k \in S : k <= m
  <1> DEFINE U == {T \in SUBSET S : T # {} /\ ~\E m \in T : \A k \in T : k <= m}
             N == {Cardinality(T) : T \in U}
  <1>1. \A T \in U : IsFiniteSet(T) /\ Cardinality(T) \in Nat
    BY FS_Subset, FS_CardinalityType
  <1>2. SUFFICES ASSUME U # {} PROVE FALSE
    OBVIOUS
  <1>3. N \subseteq Nat /\ N # {}
    BY <1>1, <1>2
  <1>4. PICK n \in N : \A k \in N : n <= k
    BY <1>3, Least
  <1>5. PICK T \in U : n = Cardinality(T)
    BY <1>4
  <1>6. PICK x \in T : TRUE
    OBVIOUS
  <1>7. /\ IsFiniteSet(T) /\ T \subseteq Nat
        /\ Cardinality(T \ {x}) = Cardinality(T) - 1 /\ Cardinality(T) \in Nat
    BY <1>1, <1>6, FS_RemoveElement
  <1>8. T \ {x} \notin U
    <2> SUFFICES ASSUME T \ {x} \in U PROVE FALSE
      OBVIOUS
    <2>1. Cardinality(T \ {x}) \in N
      OBVIOUS
    <2>2. n <= Cardinality(T \ {x})
      BY <1>4, <2>1
    <2> QED  BY <1>5, <1>7, <2>2
  <1>9. T \ {x} # {}
    BY <1>6, <1>7
  <1>10. PICK m \in T \ {x} : \A k \in T \ {x} : k <= m
    BY <1>8, <1>9
  <1> QED  BY <1>6, <1>7, <1>10

LEMMA Orders == ASSUME NEW f, NEW x \in Nat, NEW y \in Nat, NEW z \in Nat
  PROVE  /\ ~Before(f, x, x)
         /\ ~(Before(f, x, y) /\ Before(f, y, x))
         /\ Before(f, x, y) /\ Before(f, y, z) => Before(f, x, z)
         /\ x = y \/ Before(f, x, y) \/ Before(f, y, x)
  BY DEF Before

\* The last of the ids is one of them, behind all others, and the only one that is.
LEMMA LastIs == ASSUME NEW f, NEW S, S \subseteq Ids, S # {}
  PROVE  /\ LastOf(f, S) \in S
         /\ \A j \in S \ {LastOf(f, S)} : Before(f, j, LastOf(f, S))
         /\ \A i \in S : (\A j \in S \ {i} : Before(f, j, i)) => i = LastOf(f, S)
  <1>1. S \subseteq Nat /\ IsFiniteSet(S)
    BY IdsAssumption, FS_Subset
  <1>2. \E i \in S : \A j \in S \ {i} : Before(f, j, i)
    <2>1. CASE f = "newest"
      <3>1. PICK m \in S : \A k \in S : m <= k
        BY <1>1, Least
      <3>2. \A j \in S \ {m} : Before(f, j, m)
        BY <1>1, <2>1, <3>1 DEF Before
      <3> QED  BY <3>2
    <2>2. CASE f # "newest"
      <3>1. PICK m \in S : \A k \in S : k <= m
        BY <1>1, Greatest
      <3>2. \A j \in S \ {m} : Before(f, j, m)
        BY <1>1, <2>2, <3>1 DEF Before
      <3> QED  BY <3>2
    <2> QED  BY <2>1, <2>2
  <1>3. LastOf(f, S) \in S /\ \A j \in S \ {LastOf(f, S)} : Before(f, j, LastOf(f, S))
    BY <1>2 DEF LastOf
  <1> DEFINE l == LastOf(f, S)
  <1> HIDE DEF l
  <1>4. l \in S /\ \A j \in S \ {l} : Before(f, j, l)
    BY <1>3 DEF l
  <1>5. ASSUME NEW i \in S, \A j \in S \ {i} : Before(f, j, i), i # l PROVE FALSE
    <2>1. Before(f, l, i) /\ Before(f, i, l)
      BY <1>4, <1>5
    <2> QED  BY <1>1, <1>4, <2>1, Orders
  <1> QED  BY <1>3, <1>5 DEF l

LEMMA FirstExists == ASSUME NEW f, NEW S, S \subseteq Ids, S # {}
  PROVE  \E i \in S : \A j \in S \ {i} : Before(f, i, j)
  <1> DEFINE g == IF f = "newest" THEN "recommended" ELSE "newest"
  <1>1. \A i, j : Before(g, j, i) <=> Before(f, i, j)
    BY DEF Before
  <1> HIDE DEF g
  <1>2. LastOf(g, S) \in S /\ \A j \in S \ {LastOf(g, S)} : Before(g, j, LastOf(g, S))
    BY LastIs
  <1> QED  BY <1>1, <1>2

-----------------------------------------------------------------------------
(* Pages                                                                   *)

\* Whoever comes before one of the first is one of them; and who is not is missing
\* only because there are enough before.
LEMMA FirstIs == ASSUME NEW f, NEW S, S \subseteq Ids, NEW n \in Nat
  PROVE  /\ First(f, n, S) \subseteq S
         /\ \A i \in First(f, n, S) : \A j \in S : Before(f, j, i) => j \in First(f, n, S)
         /\ First(f, n, S) # S => Cardinality(First(f, n, S)) >= n
  <1>1. S \subseteq Nat /\ IsFiniteSet(S)
    BY IdsAssumption, FS_Subset
  <1> DEFINE before(i) == {j \in S : Before(f, j, i)}
             F == First(f, n, S)
  <1>2. F = {i \in S : Cardinality(before(i)) < n}
    BY DEF First
  <1>3. \A i \in S : IsFiniteSet(before(i)) /\ Cardinality(before(i)) \in Nat
    BY <1>1, FS_Subset, FS_CardinalityType
  <1>4. ASSUME NEW i \in F, NEW j \in S, Before(f, j, i) PROVE j \in F
    <2>1. i \in S /\ Cardinality(before(i)) < n
      BY <1>2
    <2>2. before(j) \subseteq before(i)
      BY <1>1, <1>4, <2>1, Orders
    <2>3. Cardinality(before(j)) <= Cardinality(before(i))
      BY <1>3, <2>1, <2>2, FS_Subset
    <2>4. Cardinality(before(j)) \in Nat /\ Cardinality(before(i)) \in Nat
      BY <1>3, <2>1
    <2> HIDE DEF before, F
    <2>5. Cardinality(before(j)) < n
      BY <2>1, <2>3, <2>4
    <2> QED  BY <1>2, <2>5
  <1>5. F # S => Cardinality(F) >= n
    <2> SUFFICES ASSUME F # S PROVE Cardinality(F) >= n
      OBVIOUS
    <2>1. S \ F # {} /\ S \ F \subseteq Ids /\ F \subseteq S
      BY <1>2
    <2>2. PICK i \in S \ F : \A j \in (S \ F) \ {i} : Before(f, i, j)
      BY <2>1, FirstExists
    <2>3. before(i) \subseteq F
      BY <1>1, <2>2, Orders
    <2>4. IsFiniteSet(F) /\ Cardinality(F) \in Nat
      BY <1>1, <2>1, FS_Subset, FS_CardinalityType
    <2>5. Cardinality(before(i)) <= Cardinality(F)
      BY <2>3, <2>4, FS_Subset
    <2>6. ~(Cardinality(before(i)) < n) /\ Cardinality(before(i)) \in Nat
      BY <1>2, <1>3, <2>2
    <2> HIDE DEF before, F
    <2> QED  BY <2>4, <2>5, <2>6
  <1> QED  BY <1>2, <1>4, <1>5

Candidates(f, cursor) == {i \in Undecided : Beyond(f, i, cursor)}

\* A page has only candidates.  Without a next page it has them all; else its cursor is
\* its last, and the candidates that are not on it come after it.
LEMMA PageIs == ASSUME NEW f, NEW cursor, profiles \subseteq Ids
  PROVE  LET page == Search(f, cursor)
         IN  /\ page.ids \subseteq Candidates(f, cursor)
             /\ page \in Page
             /\ page.next = NoCursor => page.ids = Candidates(f, cursor)
             /\ page.next # NoCursor =>
                  /\ page.next \in page.ids
                  /\ \A i \in page.ids : i = page.next \/ Before(f, i, page.next)
                  /\ \A i \in Candidates(f, cursor) \ page.ids : Before(f, page.next, i)
  <1> DEFINE S == Candidates(f, cursor)
             found == First(f, Limit + 1, S)
             ids == First(f, Limit, found)
             hasNext == Cardinality(found) > Limit
             next == IF hasNext THEN LastOf(f, ids) ELSE NoCursor
  <1>1. Search(f, cursor) = [ids |-> ids, next |-> next]
    BY DEF Search, SearchProfiles, Candidates
  <1>2. S \subseteq Ids /\ Limit \in Nat /\ Limit + 1 \in Nat /\ Limit # 0
    BY LimitAssumption DEF Candidates, Undecided
  <1>3. S \subseteq Nat \ {0} /\ IsFiniteSet(S)
    BY <1>2, IdsAssumption, FS_Subset
  <1> HIDE DEF S
  <1>4. /\ found \subseteq S
        /\ \A i \in found : \A j \in S : Before(f, j, i) => j \in found
        /\ found # S => Cardinality(found) >= Limit + 1
    BY <1>2, FirstIs
  <1>5. found \subseteq Ids /\ found \subseteq Nat /\ IsFiniteSet(found) /\ Cardinality(found) \in Nat
    BY <1>2, <1>3, <1>4, FS_Subset, FS_CardinalityType
  <1> HIDE DEF found
  <1>6. /\ ids \subseteq found
        /\ \A i \in ids : \A j \in found : Before(f, j, i) => j \in ids
        /\ ids # found => Cardinality(ids) >= Limit
    BY <1>2, <1>5, FirstIs
  <1>7. ids \subseteq Ids /\ IsFiniteSet(ids) /\ Cardinality(ids) \in Nat
    BY <1>5, <1>6, FS_Subset, FS_CardinalityType
  <1>8. CASE ~hasNext
    <2>1. found = S
      BY <1>2, <1>4, <1>5, <1>8
    <2>2. Cardinality(ids) <= Cardinality(found) /\ (Cardinality(found) = Cardinality(ids) => found = ids)
      BY <1>5, <1>6, FS_Subset
    <2> HIDE DEF ids
    <2>3. ids = found
      BY <1>2, <1>5, <1>6, <1>7, <1>8, <2>2
    <2>4. next = NoCursor
      BY <1>8
    <2> HIDE DEF next
    <2> QED  BY <1>1, <1>7, <2>1, <2>3, <2>4 DEF S, Page
  <1>9. CASE hasNext
    <2>1. found # {}
      BY <1>2, <1>5, <1>9, FS_EmptySet
    <2>2. ids # {}
      <3>1. PICK i \in found : \A j \in found \ {i} : Before(f, i, j)
        BY <1>5, <2>1, FirstExists
      <3>2. {j \in found : Before(f, j, i)} = {}
        BY <1>5, <3>1, Orders
      <3>3. Cardinality({j \in found : Before(f, j, i)}) = 0
        BY <3>2, FS_EmptySet
      <3>4. i \in ids
        BY <1>2, <3>3 DEF First
      <3> QED  BY <3>4
    <2> HIDE DEF ids
    <2>3. next = LastOf(f, ids)
      BY <1>9
    <2> HIDE DEF next
    <2>4. next \in ids /\ \A i \in ids : i = next \/ Before(f, i, next)
      BY <1>7, <2>2, <2>3, LastIs
    <2>5. next \in Nat \ {0} /\ next \in found /\ next \in Ids
      BY <1>3, <1>4, <1>6, <1>7, <2>4
    <2>6. \A i \in S \ ids : Before(f, next, i)
      <3> SUFFICES ASSUME NEW i \in S \ ids, ~Before(f, next, i) PROVE FALSE
        OBVIOUS
      <3>1. Before(f, i, next)
        BY <1>3, <2>4, <2>5, Orders
      <3>2. i \in found
        BY <1>4, <2>5, <3>1
      <3> QED  BY <1>6, <2>4, <3>1, <3>2
    <2>7. /\ Search(f, cursor).ids = ids /\ Search(f, cursor).next = next
          /\ Search(f, cursor) \in Page /\ next # NoCursor
      BY <1>1, <1>7, <2>5 DEF Page, NoCursor
    <2>8. ids \subseteq Candidates(f, cursor) /\ S = Candidates(f, cursor)
      BY <1>4, <1>6 DEF S
    <2> QED  BY <2>4, <2>6, <2>7, <2>8
  <1> QED  BY <1>8, <1>9
-----------------------------------------------------------------------------
(* The invariant                                                           *)

\* What was answered with success is stored, and a returned like is a match.
Stored ==
    /\ \A a \in Range(actions) :
         /\ a.state = "done" => <<a.what, a.id>> \in decided
         /\ a.origin = "received" => /\ a.what = "like" /\ a.id \in likers
                                     /\ a.state = "done" => a.id \in matches
    /\ \A d \in decisions :
         /\ <<d[2], d[3]>> \in decided
         /\ d[1] = "received" => d[3] \in matches

InOrder(f, pages) ==
    /\ \A j, k \in DOMAIN pages :
         j < k => \A x \in pages[j].ids, y \in pages[k].ids : Before(f, x, y)
    /\ HasNext(pages) =>
         \A x \in PageIds(pages) : x = NextCursor(pages) \/ Before(f, x, NextCursor(pages))

\* Who of S is on no page comes after the cursor.
Covers(f, pages, S) == pages # <<>> =>
    \A i \in S : i \in PageIds(pages) \/ (HasNext(pages) /\ Before(f, NextCursor(pages), i))

PagesInv(f, pages, S, liked, races) ==
    InOrder(f, pages) /\ Covers(f, pages, S) /\ PageIds(pages) \intersect liked \subseteq races

\* A fetch goes on where there is a next page, and ends with a page at least.
GoesOn(w) == w.kind # "none" =>
    IF w.left = 0 THEN w.pages # <<>> ELSE w.pages = <<>> \/ HasNext(w.pages)

LikedFromSearch == {i \in Ids : <<"search", "like", i>> \in decisions}

FeedInv(f) ==
    /\ begun[f] \subseteq profiles /\ fetch[f].begun \subseteq profiles /\ GoesOn(fetch[f])
    /\ PagesInv(f, feed[f], begun[f] \ Decided, LikedFromSearch, raced[f])
    /\ PagesInv(f, fetch[f].pages, fetch[f].begun \ Decided, LikedFromSearch, raced[f])

\* The decision of a card that is on the deck, and whose page was not left meanwhile.
Sent(k) == actions[k].origin = "deck" /\ actions[k].id \notin reopened
DeckDecisions(i) == {d \in decisions : d[1] = "deck" /\ d[3] = i}

\* Of the deck's actions that are waiting, at most one is the decision of the card on top.
OneSent == \A k \in DOMAIN actions :
    /\ actions[k].origin \in {"deck", "leftDeck"} => actions[k].id \in dealt
    /\ actions[k].origin = "leftDeck" => actions[k].id \in reopened
    /\ Sent(k) => deck.cards # {} /\ actions[k].id = Current /\ deck.submitted
    /\ \A l \in DOMAIN actions : Sent(k) /\ Sent(l) => k = l

CardsInv ==
    /\ deck.cards \subseteq dealt /\ reopened \subseteq dealt
    /\ \A d \in decisions : d[1] = "deck" => d[3] \in dealt
    /\ dealt \ deck.cards \subseteq Decided
    /\ \A i \in dealt \ reopened :
         IF i \in deck.cards THEN DeckDecisions(i) = {} ELSE \E d : DeckDecisions(i) = {d}

DeckInv == OneSent /\ CardsInv

LikesReturned == {i \in Ids : <<"received", "like", i>> \in decisions}

LikesInv ==
    /\ (pending.ids \union poll.ids) \intersect LikesReturned \subseteq raced["likes"]
    /\ ~pending.got => pending.ids = {}
    /\ TotalCountsTheList

IInv == TypeOK /\ Stored /\ (\A f \in Feeds : FeedInv(f)) /\ DeckInv /\ LikesInv

-----------------------------------------------------------------------------
(* Lists                                                                   *)

LEMMA Lists1 == ASSUME NEW S, NEW s \in Seq(S)
  PROVE  /\ Len(s) \in Nat /\ DOMAIN s = 1..Len(s)
         /\ \A k \in DOMAIN s : s[k] \in S /\ s[k] \in Range(s)
         /\ \A x \in Range(s) : x \in S /\ \E k \in DOMAIN s : x = s[k]
  BY LenProperties, ElementOfSeq DEF Range

LEMMA MapList == ASSUME NEW S, NEW T, NEW s \in Seq(S), NEW g \in [DOMAIN s -> T]
  PROVE  g \in Seq(T) /\ Len(g) = Len(s)
  <1>1. Len(s) \in Nat /\ DOMAIN s = 1..Len(s)
    BY LenProperties
  <1>2. g \in Seq(T)
    BY <1>1, SeqDef
  <1>3. Len(g) \in Nat /\ DOMAIN g = 1..Len(g)
    BY <1>2, LenProperties
  <1>4. 1..Len(g) = 1..Len(s)
    BY <1>1, <1>3
  <1>5. Len(g) = Len(s)
    <2>1. CASE Len(g) < Len(s)
      <3>1. Len(s) \in 1..Len(s) /\ Len(s) \notin 1..Len(g)
        BY <1>1, <1>3, <2>1
      <3> QED  BY <1>4, <3>1
    <2>2. CASE Len(s) < Len(g)
      <3>1. Len(g) \in 1..Len(g) /\ Len(g) \notin 1..Len(s)
        BY <1>1, <1>3, <2>2
      <3> QED  BY <1>4, <3>1
    <2> QED  BY <1>1, <1>3, <2>1, <2>2
  <1> QED  BY <1>2, <1>5

\* The queue with one action more, and without its first; and its first one changed.
LEMMA Appended == ASSUME NEW S, NEW s \in Seq(S), NEW x \in S
  PROVE  /\ Append(s, x) \in Seq(S) /\ Len(Append(s, x)) = Len(s) + 1
         /\ DOMAIN Append(s, x) = 1..(Len(s) + 1) /\ DOMAIN s = 1..Len(s) /\ Len(s) \in Nat
         /\ \A k \in 1..Len(s) : Append(s, x)[k] = s[k]
         /\ Append(s, x)[Len(s) + 1] = x
         /\ Range(Append(s, x)) = Range(s) \union {x}
  <1>1. /\ Append(s, x) \in Seq(S) /\ Len(Append(s, x)) = Len(s) + 1
        /\ DOMAIN Append(s, x) = 1..(Len(s) + 1) /\ DOMAIN s = 1..Len(s) /\ Len(s) \in Nat
        /\ \A k \in 1..Len(s) : Append(s, x)[k] = s[k]
        /\ Append(s, x)[Len(s) + 1] = x
    BY AppendProperties, LenProperties
  <1>2. \A k \in 1..(Len(s) + 1) : k \in 1..Len(s) \/ k = Len(s) + 1
    BY <1>1
  <1>3. Len(s) + 1 \in 1..(Len(s) + 1) /\ \A k \in 1..Len(s) : k \in 1..(Len(s) + 1)
    BY <1>1
  <1>4. Range(Append(s, x)) = Range(s) \union {x}
    BY <1>1, <1>2, <1>3 DEF Range
  <1> QED  BY <1>1, <1>4

LEMMA HeadTail == ASSUME NEW S, NEW s \in Seq(S), s # <<>>
  PROVE  /\ Head(s) = s[1] /\ Head(s) \in S /\ Head(s) \in Range(s)
         /\ Tail(s) \in Seq(S) /\ Len(Tail(s)) = Len(s) - 1 /\ 1 \in DOMAIN s
         /\ DOMAIN Tail(s) = 1..(Len(s) - 1) /\ DOMAIN s = 1..Len(s) /\ Len(s) \in Nat
         /\ \A k \in DOMAIN Tail(s) : k + 1 \in DOMAIN s /\ Tail(s)[k] = s[k + 1]
         /\ Range(Tail(s)) \subseteq Range(s)
  <1>1. /\ Head(s) \in S /\ Tail(s) \in Seq(S) /\ Len(Tail(s)) = Len(s) - 1
        /\ \A k \in 1..Len(Tail(s)) : Tail(s)[k] = s[k + 1]
        /\ Len(s) \in Nat /\ Len(s) # 0 /\ DOMAIN s = 1..Len(s) /\ DOMAIN Tail(s) = 1..Len(Tail(s))
    BY HeadTailProperties, LenProperties, EmptySeq
  <1>2. 1 \in DOMAIN s /\ Head(s) = s[1]
    BY <1>1
  <1>3. \A k \in DOMAIN Tail(s) : k + 1 \in DOMAIN s /\ Tail(s)[k] = s[k + 1]
    BY <1>1
  <1>4. Range(Tail(s)) \subseteq Range(s) /\ Head(s) \in Range(s)
    BY <1>2, <1>3 DEF Range
  <1> QED  BY <1>1, <1>2, <1>3, <1>4

LEMMA PagesOf == ASSUME NEW pages \in Seq(Page)
  PROVE  /\ \A k \in DOMAIN pages : pages[k].ids \subseteq PageIds(pages)
         /\ \A x \in PageIds(pages) : x \in Ids /\ \E k \in DOMAIN pages : x \in pages[k].ids
  <1>1. \A k \in DOMAIN pages : pages[k] \in Page /\ pages[k] \in Range(pages)
    BY Lists1
  <1>2. \A p \in Range(pages) : p \in Page /\ \E k \in DOMAIN pages : p = pages[k]
    BY Lists1
  <1> QED  BY <1>1, <1>2 DEF PageIds, Page
-----------------------------------------------------------------------------
(* The queue                                                               *)

\* The first action changes its state and nothing else.
LEMMA Marked ==
  ASSUME TypeOK, actions # <<>>, NEW st \in {"waiting", "done", "refused"},
         actions' = [actions EXCEPT ![1].state = st]
  PROVE  /\ actions' \in Seq(ServerAction) /\ Len(actions') = Len(actions)
         /\ DOMAIN actions' = DOMAIN actions /\ 1 \in DOMAIN actions
         /\ \A k \in DOMAIN actions :
              /\ actions'[k].what = actions[k].what /\ actions'[k].id = actions[k].id
              /\ actions'[k].origin = actions[k].origin
              /\ actions'[k].state = IF k = 1 THEN st ELSE actions[k].state
  <1> DEFINE a == [actions[1] EXCEPT !.state = st]
  <1>1. /\ actions \in Seq(ServerAction) /\ 1 \in DOMAIN actions
        /\ DOMAIN actions = 1..Len(actions) /\ actions[1] \in ServerAction
    BY HeadTail, Lists1 DEF TypeOK
  <1>2. a \in ServerAction /\ a.what = actions[1].what /\ a.id = actions[1].id
        /\ a.origin = actions[1].origin /\ a.state = st
    BY <1>1 DEF ServerAction
  <1>3. actions' = [actions EXCEPT ![1] = a]
    OBVIOUS
  <1> HIDE DEF a
  <1>4. /\ actions' \in Seq(ServerAction) /\ Len(actions') = Len(actions)
        /\ \A j \in 1..Len(actions) : actions'[j] = IF j = 1 THEN a ELSE actions[j]
    BY <1>1, <1>2, <1>3, ExceptSeq
  <1>5. DOMAIN actions' = DOMAIN actions
    BY <1>3
  <1> QED  BY <1>1, <1>2, <1>4, <1>5

\* An action that is started waits.
LEMMA Started ==
  ASSUME TypeOK, Len(actions) < MaxActions, NEW what \in Directions, NEW i \in Ids,
         NEW origin \in Origins, actions' = Append(actions, Action(what, i, origin))
  PROVE  /\ actions' \in Seq(ServerAction) /\ Len(actions') <= MaxActions
         /\ DOMAIN actions = 1..Len(actions) /\ Len(actions) \in Nat
         /\ DOMAIN actions' = 1..(Len(actions) + 1)
         /\ \A k \in 1..Len(actions) : actions'[k] = actions[k]
         /\ actions'[Len(actions) + 1] = Action(what, i, origin)
         /\ Range(actions') = Range(actions) \union {Action(what, i, origin)}
  <1>1. Action(what, i, origin) \in ServerAction
    BY DEF Action, ServerAction
  <1>2. actions \in Seq(ServerAction)
    BY DEF TypeOK
  <1>3. /\ actions' \in Seq(ServerAction) /\ Len(actions') = Len(actions) + 1
        /\ DOMAIN actions = 1..Len(actions) /\ Len(actions) \in Nat
        /\ DOMAIN actions' = 1..(Len(actions) + 1)
        /\ \A k \in 1..Len(actions) : actions'[k] = actions[k]
        /\ actions'[Len(actions) + 1] = Action(what, i, origin)
        /\ Range(actions') = Range(actions) \union {Action(what, i, origin)}
    BY <1>1, <1>2, Appended
  <1>4. Len(actions') <= MaxActions
    BY <1>3, MaxActionsAssumption
  <1> QED  BY <1>3, <1>4

\* Leaving the deck renames the origins of its actions.
LEMMA Renamed ==
  ASSUME TypeOK, LeaveDeck
  PROVE  /\ actions' \in Seq(ServerAction) /\ Len(actions') = Len(actions)
         /\ DOMAIN actions' = DOMAIN actions
         /\ \A k \in DOMAIN actions :
              /\ actions[k] \in ServerAction /\ actions[k] \in Range(actions)
              /\ actions'[k].what = actions[k].what /\ actions'[k].id = actions[k].id
              /\ actions'[k].state = actions[k].state
              /\ actions'[k].origin = IF actions[k].origin = "deck" THEN "leftDeck" ELSE actions[k].origin
  <1> DEFINE a(k) == [actions[k] EXCEPT !.origin = IF @ = "deck" THEN "leftDeck" ELSE @]
  <1>1. /\ actions \in Seq(ServerAction)
        /\ \A k \in DOMAIN actions : actions[k] \in ServerAction /\ actions[k] \in Range(actions)
    BY Lists1 DEF TypeOK
  <1>2. \A k \in DOMAIN actions :
          /\ a(k) \in ServerAction
          /\ a(k).what = actions[k].what /\ a(k).id = actions[k].id /\ a(k).state = actions[k].state
          /\ a(k).origin = IF actions[k].origin = "deck" THEN "leftDeck" ELSE actions[k].origin
    BY <1>1 DEF ServerAction, Origins
  <1>3. actions' = [k \in DOMAIN actions |-> a(k)]
    BY DEF LeaveDeck
  <1> HIDE DEF a
  <1>4. actions' \in [DOMAIN actions -> ServerAction]
    BY <1>2, <1>3
  <1>5. actions' \in Seq(ServerAction) /\ Len(actions') = Len(actions)
    BY <1>1, <1>4, MapList
  <1> QED  BY <1>1, <1>2, <1>3, <1>5

\* What is said of the actions one by one.
LEMMA EachAction == ASSUME actions' \in Seq(ServerAction)
  PROVE  \A a \in Range(actions') : \E k \in DOMAIN actions' : a = actions'[k]
  BY Lists1

-----------------------------------------------------------------------------
(* Types                                                                   *)

LEMMA WithoutTypes == ASSUME NEW i, NEW pages \in Seq(Page)
  PROVE  /\ Without(i, pages) \in Seq(Page) /\ Len(Without(i, pages)) = Len(pages)
         /\ DOMAIN Without(i, pages) = DOMAIN pages
         /\ \A k \in DOMAIN pages : /\ Without(i, pages)[k].ids = pages[k].ids \ {i}
                                    /\ Without(i, pages)[k].next = pages[k].next
  <1> DEFINE p(k) == [pages[k] EXCEPT !.ids = @ \ {i}]
  <1>1. \A k \in DOMAIN pages : pages[k] \in Page
    BY Lists1
  <1>2. \A k \in DOMAIN pages : p(k) \in Page /\ p(k).ids = pages[k].ids \ {i} /\ p(k).next = pages[k].next
    BY <1>1 DEF Page
  <1>3. Without(i, pages) = [k \in DOMAIN pages |-> p(k)]
    BY DEF Without
  <1> HIDE DEF p
  <1>4. Without(i, pages) \in [DOMAIN pages -> Page]
    BY <1>2, <1>3
  <1>5. Without(i, pages) \in Seq(Page) /\ Len(Without(i, pages)) = Len(pages)
    BY <1>4, MapList
  <1> QED  BY <1>2, <1>3, <1>5

LEMMA InitTypes == Init => TypeOK
  <1> HAVE Init
  <1>1. NoFetch \in Fetch
    BY EmptySeq DEF NoFetch, Fetch
  <1>2. <<>> \in Seq(Page) /\ <<>> \in Seq(ServerAction) /\ Len(<<>>) = 0
    BY EmptySeq
  <1>3. 0 \in 0..Cardinality(Ids)
    BY IdsAssumption, FS_CardinalityType
  <1>4. Len(actions) <= MaxActions
    BY <1>2, MaxActionsAssumption DEF Init
  <1>5. pending \in [got : BOOLEAN, ids : SUBSET Ids, total : 0..Cardinality(Ids)]
    BY <1>3 DEF Init
  <1>6. feed \in [Feeds -> Seq(Page)] /\ fetch \in [Feeds -> Fetch]
    BY <1>1, <1>2 DEF Init
  <1>7. deck \in [open : BOOLEAN, cards : SUBSET Ids, leaving : Directions \union {"none"}, submitted : BOOLEAN]
    BY DEF Init, Closed
  <1>8. poll \in [read : BOOLEAN, ids : SUBSET Ids]
    BY DEF Init, NoPoll
  <1>9. begun \in [Feeds -> SUBSET Ids] /\ raced \in [Lists -> SUBSET Ids]
    BY DEF Init
  <1> QED  BY <1>2, <1>4, <1>5, <1>6, <1>7, <1>8, <1>9 DEF Init, TypeOK

FeedTypes == /\ feed \in [Feeds -> Seq(Page)] /\ fetch \in [Feeds -> Fetch]
             /\ begun \in [Feeds -> SUBSET Ids] /\ raced \in [Lists -> SUBSET Ids]
DeckTypes == /\ deck \in [open : BOOLEAN, cards : SUBSET Ids,
                          leaving : Directions \union {"none"}, submitted : BOOLEAN]
             /\ dealt \subseteq Ids /\ reopened \subseteq Ids
LikesTypes == /\ pending \in [got : BOOLEAN, ids : SUBSET Ids, total : 0..Cardinality(Ids)]
              /\ poll \in [read : BOOLEAN, ids : SUBSET Ids] /\ dropped \subseteq Ids
ServerTypes == /\ visit \in Visits
               /\ profiles \subseteq Ids /\ decided \subseteq Directions \X Ids
               /\ likers \subseteq profiles /\ matches \subseteq likers \intersect Liked
QueueTypes == /\ actions \in Seq(ServerAction) /\ Len(actions) <= MaxActions
              /\ decisions \subseteq Origins \X Directions \X Ids

LEMMA TypesAre == TypeOK <=> FeedTypes /\ DeckTypes /\ LikesTypes /\ ServerTypes /\ QueueTypes
  BY DEF TypeOK, FeedTypes, DeckTypes, LikesTypes, ServerTypes, QueueTypes

LEMMA TypesAreNext == TypeOK' <=> FeedTypes' /\ DeckTypes' /\ LikesTypes' /\ ServerTypes' /\ QueueTypes'
  BY DEF TypeOK, FeedTypes, DeckTypes, LikesTypes, ServerTypes, QueueTypes

LEMMA FetchOnly ==
  ASSUME TypeOK, NEW f \in Feeds, NEW w \in Fetch, fetch' = [fetch EXCEPT ![f] = w],
         UNCHANGED <<server, feed, deck, likes, actions, history>>
  PROVE  TypeOK'
  BY DEF TypeOK, server, likes, history, Liked

\* What ReadPage reads: a page, for those beyond the cursor.
LEMMA ReadPageIs ==
  ASSUME TypeOK, NEW f \in Feeds, ReadPage(f)
  PROVE  \E page \in Page, w \in Fetch :
           /\ page = Search(f, NextCursor(fetch[f].pages))
           /\ w.kind = fetch[f].kind /\ w.pages = Append(fetch[f].pages, page)
           /\ w.left = 0 \/ page.next # NoCursor
           /\ w.begun = IF fetch[f].pages = <<>> THEN profiles ELSE fetch[f].begun
           /\ fetch' = [fetch EXCEPT ![f] = w]
  <1> DEFINE page == Search(f, NextCursor(fetch[f].pages))
             pages == Append(fetch[f].pages, page)
             left == IF page.next = NoCursor THEN 0 ELSE fetch[f].left - 1
             begin == IF fetch[f].pages = <<>> THEN profiles ELSE fetch[f].begun
             w == [fetch[f] EXCEPT !.pages = pages, !.left = left, !.begun = begin]
  <1>1. fetch[f] \in Fetch /\ fetch \in [Feeds -> Fetch] /\ profiles \subseteq Ids
    BY DEF TypeOK
  <1>2. fetch[f].kind \in {"none", "refetch", "next"} /\ fetch[f].pages \in Seq(Page)
        /\ fetch[f].left \in Nat /\ fetch[f].left > 0 /\ fetch[f].begun \in SUBSET Ids
    BY <1>1 DEF Fetch, ReadPage
  <1>3. page \in Page
    BY <1>1, PageIs
  <1>4. fetch' = [fetch EXCEPT ![f] = w]
    <2>1. fetch' = [fetch EXCEPT ![f].pages = pages, ![f].left = left, ![f].begun = begin]
      BY DEF ReadPage
    <2> HIDE DEF pages, left, begin
    <2> QED  BY <1>1, <2>1
  <1> HIDE DEF page
  <1>5. pages \in Seq(Page) /\ left \in Nat /\ begin \in SUBSET Ids
    BY <1>1, <1>2, <1>3, AppendProperties
  <1>6. left = 0 \/ page.next # NoCursor
    OBVIOUS
  <1>7. begin = IF fetch[f].pages = <<>> THEN profiles ELSE fetch[f].begun
    OBVIOUS
  <1>8. pages = Append(fetch[f].pages, page)
    OBVIOUS
  <1> HIDE DEF left, begin, pages
  <1>9. /\ w \in Fetch /\ w.kind = fetch[f].kind /\ w.pages = pages
        /\ w.left = left /\ w.begun = begin
    BY <1>1, <1>5 DEF Fetch
  <1> HIDE DEF w
  <1> QED  BY <1>3, <1>4, <1>6, <1>7, <1>8, <1>9 DEF page

LEMMA FetchTypes ==
  ASSUME TypeOK, NEW f \in Feeds, Refetch(f) \/ FetchNextPage(f) \/ ReadPage(f) \/ FetchFails(f)
  PROVE  TypeOK'
  <1>1. /\ feed[f] \in Seq(Page) /\ Len(feed[f]) \in Nat /\ begun[f] \in SUBSET Ids
        /\ <<>> \in Seq(Page)
    BY LenProperties, EmptySeq DEF TypeOK
  <1>2. CASE Refetch(f)
    <2> DEFINE w == [kind |-> "refetch", pages |-> <<>>,
                     left |-> IF feed[f] = <<>> THEN 1 ELSE Len(feed[f]), begun |-> {}]
    <2>1. w \in Fetch
      BY <1>1 DEF Fetch
    <2>2. fetch' = [fetch EXCEPT ![f] = w]
      BY <1>2 DEF Refetch
    <2> HIDE DEF w
    <2> QED  BY <1>2, <2>1, <2>2, FetchOnly DEF Refetch
  <1>3. CASE FetchNextPage(f)
    <2> DEFINE w == [kind |-> "next", pages |-> feed[f], left |-> 1, begun |-> begun[f]]
    <2>1. w \in Fetch
      BY <1>1 DEF Fetch
    <2>2. fetch' = [fetch EXCEPT ![f] = w]
      BY <1>3 DEF FetchNextPage
    <2> HIDE DEF w
    <2> QED  BY <1>3, <2>1, <2>2, FetchOnly DEF FetchNextPage
  <1>4. CASE ReadPage(f)
    <2>1. \E w \in Fetch : fetch' = [fetch EXCEPT ![f] = w]
      BY <1>4, ReadPageIs
    <2> QED  BY <1>4, <2>1, FetchOnly DEF ReadPage
  <1>5. CASE FetchFails(f)
    <2>1. NoFetch \in Fetch
      BY <1>1 DEF NoFetch, Fetch
    <2> QED  BY <1>5, <2>1, FetchOnly DEF FetchFails
  <1> QED  BY <1>2, <1>3, <1>4, <1>5

LEMMA FetchEndsTypes == ASSUME TypeOK, NEW f \in Feeds, FetchEnds(f) PROVE TypeOK'
  <1>1. fetch[f].pages \in Seq(Page) /\ fetch[f].begun \in SUBSET Ids
    BY DEF TypeOK, Fetch
  <1>2. NoFetch \in Fetch
    BY EmptySeq DEF NoFetch, Fetch
  <1>3. feed' \in [Feeds -> Seq(Page)] /\ begun' \in [Feeds -> SUBSET Ids]
    BY <1>1 DEF TypeOK, FetchEnds
  <1>4. fetch' \in [Feeds -> Fetch]
    BY <1>2 DEF TypeOK, FetchEnds
  <1>5. raced' \in [Lists -> SUBSET Ids]
    BY DEF TypeOK, FetchEnds, Lists
  <1> QED  BY <1>3, <1>4, <1>5 DEF TypeOK, FetchEnds, server, likes, Liked

LEMMA CurrentIs == ASSUME TypeOK, deck.cards # {} PROVE Current \in deck.cards /\ Current \in Ids
  <1>1. deck.cards \subseteq Ids
    BY DEF TypeOK
  <1> QED  BY <1>1, LastIs DEF Current

LEMMA DeckOnlyTypes == ASSUME TypeOK,
    OpenDeck \/ ReturnToDeck \/ (\E direction \in Directions : StartSwipe(direction))
  PROVE  TypeOK'
  <1> DEFINE Deck == [open : BOOLEAN, cards : SUBSET Ids,
                      leaving : Directions \union {"none"}, submitted : BOOLEAN]
  <1>1. deck \in Deck
    BY DEF TypeOK
  <1>2. CASE OpenDeck
    <2> DEFINE cards == Search("recommended", NoCursor).ids
    <2>1. Search("recommended", NoCursor) \in Page
      BY PageIs DEF TypeOK
    <2>2. cards \in SUBSET Ids
      BY <2>1 DEF Page
    <2>3. deck' = [Closed EXCEPT !.open = TRUE, !.cards = cards] /\ dealt' = cards
      BY <1>2 DEF OpenDeck
    <2> HIDE DEF cards
    <2>4. deck' \in Deck
      BY <2>2, <2>3 DEF Closed
    <2> QED  BY <1>2, <2>2, <2>3, <2>4 DEF OpenDeck, TypeOK, server, likes, Liked
  <1>3. CASE ReturnToDeck
    <2>1. deck' \in Deck
      BY <1>1, <1>3 DEF ReturnToDeck
    <2> QED  BY <1>3, <2>1 DEF ReturnToDeck, TypeOK, server, likes, history, Liked
  <1>4. CASE \E direction \in Directions : StartSwipe(direction)
    <2>1. PICK direction \in Directions : StartSwipe(direction)
      BY <1>4
    <2>2. deck' \in Deck
      BY <1>1, <2>1 DEF StartSwipe
    <2> QED  BY <2>1, <2>2 DEF StartSwipe, TypeOK, server, likes, history, Liked
  <1> QED  BY <1>2, <1>3, <1>4

LEMMA LeaveDeckTypes == ASSUME TypeOK, LeaveDeck PROVE TypeOK'
  <1>1. deck' \in [open : BOOLEAN, cards : SUBSET Ids,
                   leaving : Directions \union {"none"}, submitted : BOOLEAN]
    BY DEF TypeOK, LeaveDeck
  <1>2. actions' \in Seq(ServerAction) /\ Len(actions') <= MaxActions
    BY Renamed DEF TypeOK
  <1>3. reopened' \subseteq Ids
    <2>1. \A a \in Range(actions) : a.id \in Ids
      <3>1. actions \in Seq(ServerAction)
        BY DEF TypeOK
      <3>2. \A a \in Range(actions) : a \in ServerAction
        BY <3>1, Lists1
      <3> QED  BY <3>2 DEF ServerAction
    <2> QED  BY <2>1 DEF TypeOK, LeaveDeck
  <1> QED  BY <1>1, <1>2, <1>3 DEF LeaveDeck, TypeOK, server, likes, Liked

LEMMA SubmitDecisionTypes == ASSUME TypeOK, SubmitDecision PROVE TypeOK'
  <1>1. deck' \in [open : BOOLEAN, cards : SUBSET Ids,
                   leaving : Directions \union {"none"}, submitted : BOOLEAN]
    BY DEF TypeOK, SubmitDecision
  <1>2. actions' \in Seq(ServerAction) /\ Len(actions') <= MaxActions
    BY Started, CurrentIs DEF TypeOK, SubmitDecision, Origins
  <1> QED  BY <1>1, <1>2 DEF SubmitDecision, TypeOK, server, likes, history, Liked

LEMMA StartTypes == ASSUME TypeOK, NEW i \in Ids, LikeFromSearch(i) \/ ReturnLike(i) PROVE TypeOK'
  <1>1. actions' \in Seq(ServerAction) /\ Len(actions') <= MaxActions
    BY Started DEF LikeFromSearch, ReturnLike, Origins, Directions
  <1> QED  BY <1>1 DEF LikeFromSearch, ReturnLike, TypeOK, server, caches, likes, history, Liked

LEMMA PollTypes == ASSUME TypeOK, Poll \/ PollEnds \/ PollFails PROVE TypeOK'
  <1> DEFINE Polls == [read : BOOLEAN, ids : SUBSET Ids]
  <1>1. NoPoll \in Polls
    BY DEF NoPoll
  <1>2. CASE Poll
    <2>1. poll' \in Polls
      BY <1>2 DEF Poll, GetPendingLikes, TypeOK
    <2> QED  BY <1>2, <2>1 DEF Poll, TypeOK, server, history, Liked
  <1>3. CASE PollEnds
    <2>1. poll.ids \subseteq Ids
      BY DEF TypeOK
    <2>2. Cardinality(poll.ids) \in 0..Cardinality(Ids)
      BY <2>1, IdsAssumption, FS_Subset, FS_CardinalityType
    <2>3. pending' \in [got : BOOLEAN, ids : SUBSET Ids, total : 0..Cardinality(Ids)]
      BY <1>3, <2>1, <2>2 DEF PollEnds
    <2>4. raced' \in [Lists -> SUBSET Ids]
      BY <1>3 DEF PollEnds, TypeOK, Lists
    <2> QED  BY <1>1, <1>3, <2>3, <2>4 DEF PollEnds, TypeOK, server, Liked
  <1>4. CASE PollFails
    BY <1>1, <1>4 DEF PollFails, TypeOK, server, history, Liked
  <1> QED  BY <1>2, <1>3, <1>4

\* The direction and the id of the first action, and what its row makes of the matches.
LEMMA HeadRow == ASSUME TypeOK, actions # <<>>
  PROVE  LET d == <<Head(actions).what, Head(actions).id>>
         IN  /\ Head(actions) = actions[1] /\ Head(actions) \in Range(actions)
             /\ Head(actions) \in ServerAction
             /\ d \in Directions \X Ids /\ d[2] = Head(actions).id /\ d[1] = Head(actions).what
             /\ MatchBy(d) \subseteq likers \intersect {d[2]}
             /\ MatchBy(d) # {} => d[1] = "like"
             /\ Head(actions).what = "like" /\ Head(actions).id \in likers =>
                  Head(actions).id \in MatchBy(d)
  <1>1. /\ Head(actions) = actions[1] /\ Head(actions) \in ServerAction
        /\ Head(actions) \in Range(actions)
    BY HeadTail DEF TypeOK
  <1>2. Head(actions).what \in Directions /\ Head(actions).id \in Ids
    BY <1>1 DEF ServerAction
  <1> QED  BY <1>1, <1>2 DEF MatchBy

\* A row more, and those matches among its own that are stored.
LEMMA RowTypes ==
  ASSUME TypeOK, NEW d \in Directions \X Ids, decided' = decided \union {d},
         matches' \subseteq matches \union MatchBy(d), UNCHANGED <<visit, profiles, likers>>
  PROVE  ServerTypes'
  <1>1. decided' \subseteq Directions \X Ids
    BY DEF TypeOK
  <1>2. Liked \subseteq Liked'
    BY DEF Liked
  <1>3. d[1] = "like" => d[2] \in Liked'
    BY DEF Liked
  <1>4. MatchBy(d) \subseteq likers \intersect Liked'
    BY <1>3 DEF MatchBy
  <1> QED  BY <1>1, <1>2, <1>4 DEF ServerTypes, TypeOK

LEMMA MarkTypes ==
  ASSUME TypeOK, Execute \/ ExecuteStops \/ ExecuteFails
  PROVE  /\ actions # <<>>
         /\ \E st \in {"waiting", "done", "refused"} : actions' = [actions EXCEPT ![1].state = st]
         /\ actions' \in Seq(ServerAction) /\ Len(actions') <= MaxActions
  <1>1. actions # <<>> /\ \E st \in {"waiting", "done", "refused"} : actions' = [actions EXCEPT ![1].state = st]
    BY DEF Execute, ExecuteStops, ExecuteFails
  <1> QED  BY <1>1, Marked DEF TypeOK

LEMMA ExecuteTypes == ASSUME TypeOK, Execute \/ ExecuteStops \/ ExecuteFails PROVE TypeOK'
  <1> DEFINE d == <<Head(actions).what, Head(actions).id>>
  <1>1. actions # <<>> /\ actions' \in Seq(ServerAction) /\ Len(actions') <= MaxActions
    BY MarkTypes
  <1>2. d \in Directions \X Ids
    BY <1>1, HeadRow
  <1>3. QueueTypes' /\ FeedTypes' /\ DeckTypes' /\ LikesTypes'
    <2>1. UNCHANGED <<caches, history>>
      BY DEF Execute, ExecuteStops, ExecuteFails
    <2> QED  BY <1>1, <2>1 DEF TypeOK, QueueTypes, FeedTypes, DeckTypes, LikesTypes, caches, likes, history
  <1>4. ServerTypes'
    <2>1. CASE Execute
      <3>1. /\ decided' = decided \union {d} /\ matches' \subseteq matches \union MatchBy(d)
            /\ UNCHANGED <<visit, profiles, likers>>
        BY <2>1 DEF Execute, history
      <3> HIDE DEF d
      <3> QED  BY <1>2, <3>1, RowTypes
    <2>2. CASE ExecuteStops
      <3>1. /\ decided' = decided \union {d} /\ matches' \subseteq matches \union MatchBy(d)
            /\ UNCHANGED <<visit, profiles, likers>>
        BY <2>2 DEF ExecuteStops, history
      <3> HIDE DEF d
      <3> QED  BY <1>2, <3>1, RowTypes
    <2>3. CASE ExecuteFails
      BY <2>3 DEF ExecuteFails, history, server, ServerTypes, TypeOK, Liked
    <2> QED  BY <2>1, <2>2, <2>3
  <1> QED  BY <1>3, <1>4, TypesAreNext

LEMMA ElsewhereTypes ==
  ASSUME TypeOK, NEW i \in Ids,
         NewProfile(i) \/ LikedBy(i) \/ \E direction \in Directions : DecideElsewhere(direction, i)
  PROVE  TypeOK'
  <1>1. QueueTypes' /\ FeedTypes' /\ DeckTypes' /\ LikesTypes'
    <2>1. UNCHANGED <<caches, actions, history>>
      BY DEF NewProfile, LikedBy, DecideElsewhere
    <2> QED  BY <2>1 DEF TypeOK, QueueTypes, FeedTypes, DeckTypes, LikesTypes, caches, likes, history
  <1>2. ServerTypes'
    <2>1. CASE NewProfile(i)
      BY <2>1 DEF NewProfile, history, ServerTypes, TypeOK, Liked
    <2>2. CASE LikedBy(i)
      BY <2>2 DEF LikedBy, history, ServerTypes, TypeOK, Liked
    <2>3. CASE \E direction \in Directions : DecideElsewhere(direction, i)
      <3>1. PICK direction \in Directions : DecideElsewhere(direction, i)
        BY <2>3
      <3> DEFINE d == <<direction, i>>
      <3>2. /\ decided' = decided \union {d} /\ matches' \subseteq matches \union MatchBy(d)
            /\ UNCHANGED <<visit, profiles, likers>>
        BY <3>1 DEF DecideElsewhere, history
      <3>3. d \in Directions \X Ids
        OBVIOUS
      <3> HIDE DEF d
      <3> QED  BY <3>2, <3>3, RowTypes
    <2> QED  BY <2>1, <2>2, <2>3
  <1> QED  BY <1>1, <1>2, TypesAreNext

\* What an answer does to the deck, the feeds and the likes received.
LEMMA RemovedIs == ASSUME TypeOK, NEW a \in ServerAction
  PROVE  /\ Settled(a.id).cards = deck.cards
         /\ Removed(a).cards = deck.cards \ {a.id} /\ Refused(a).cards = deck.cards
         /\ Removed(a).submitted = Settled(a.id).submitted
         /\ Settled(a.id).submitted = (deck.submitted /\ ~(deck.cards # {} /\ Current = a.id))
         /\ Refused(a).submitted = (deck.submitted /\ ~(a.origin = "deck" /\ deck.cards # {} /\ Current = a.id))
         /\ \A D \in {Removed(a), Refused(a)} :
              D \in [open : BOOLEAN, cards : SUBSET Ids,
                     leaving : Directions \union {"none"}, submitted : BOOLEAN]
  <1> DEFINE Deck == [open : BOOLEAN, cards : SUBSET Ids,
                      leaving : Directions \union {"none"}, submitted : BOOLEAN]
             S == Settled(a.id)
  <1>1. deck \in Deck
    BY DEF TypeOK
  <1>2. S \in Deck /\ S.cards = deck.cards
        /\ S.submitted = (deck.submitted /\ ~(deck.cards # {} /\ Current = a.id))
    BY <1>1 DEF Settled
  <1>3. Removed(a) = [S EXCEPT !.cards = S.cards \ {a.id}]
    BY DEF Removed
  <1> HIDE DEF S
  <1>4. Removed(a) \in Deck /\ Removed(a).cards = S.cards \ {a.id} /\ Removed(a).submitted = S.submitted
    BY <1>2, <1>3
  <1>5. Refused(a) \in Deck /\ Refused(a).cards = deck.cards
        /\ Refused(a).submitted = (deck.submitted /\ ~(a.origin = "deck" /\ deck.cards # {} /\ Current = a.id))
    BY <1>1, <1>2 DEF Refused, S
  <1> QED  BY <1>2, <1>4, <1>5 DEF S

LEMMA AnsweredTypes == ASSUME TypeOK, Answered PROVE TypeOK'
  <1> DEFINE a == Head(actions)
  <1>1. a \in ServerAction /\ a.id \in Ids /\ a.what \in Directions /\ a.origin \in Origins
    BY HeadRow DEF Answered, ServerAction
  <1>2. QueueTypes'
    <2>1. actions' \in Seq(ServerAction) /\ Len(actions') <= MaxActions
      BY HeadTail, MaxActionsAssumption DEF Answered, TypeOK
    <2>2. decisions' \subseteq decisions \union {<<a.origin, a.what, a.id>>}
      BY DEF Answered
    <2> HIDE DEF a
    <2>3. decisions' \subseteq Origins \X Directions \X Ids
      BY <1>1, <2>2 DEF TypeOK
    <2> QED  BY <2>1, <2>3 DEF QueueTypes
  <1>3. DeckTypes'
    <2>1. deck' \in {deck, Removed(a), Refused(a)} /\ UNCHANGED <<dealt, reopened>>
      BY DEF Answered
    <2> HIDE DEF a
    <2> QED  BY <1>1, <2>1, RemovedIs DEF DeckTypes, TypeOK
  <1>4. LikesTypes'
    <2>1. pending' \in {pending, TakeOut(a.id)} /\ dropped' \subseteq dropped \union {a.id}
          /\ UNCHANGED poll
      BY DEF Answered
    <2> HIDE DEF a
    <2>2. TakeOut(a.id) \in [got : BOOLEAN, ids : SUBSET Ids, total : 0..Cardinality(Ids)]
      <3>1. /\ pending \in [got : BOOLEAN, ids : SUBSET Ids, total : 0..Cardinality(Ids)]
            /\ Cardinality(Ids) \in Nat
        BY IdsAssumption, FS_CardinalityType DEF TypeOK
      <3>2. (IF pending.total = 0 THEN 0 ELSE pending.total - 1) \in 0..Cardinality(Ids)
        BY <3>1
      <3> QED  BY <3>1, <3>2 DEF TakeOut
    <2> QED  BY <1>1, <2>1, <2>2 DEF LikesTypes, TypeOK
  <1>5. FeedTypes'
    <2>1. feed' \in {feed, UpdateFeeds(a.id)} /\ UNCHANGED <<fetch, begun>>
          /\ raced' \in [Lists -> SUBSET Ids]
      <3>1. feed' \in {feed, UpdateFeeds(a.id)} /\ UNCHANGED <<fetch, begun>>
        BY DEF Answered
      <3>2. \A l \in Lists : raced[l] \in SUBSET Ids /\ raced[l] \union {a.id} \in SUBSET Ids
        BY <1>1 DEF TypeOK
      <3>3. raced' \in [Lists -> SUBSET Ids]
        BY <3>2 DEF Answered
      <3> QED  BY <3>1, <3>3
    <2> HIDE DEF a
    <2>2. UpdateFeeds(a.id) \in [Feeds -> Seq(Page)]
      BY WithoutTypes DEF UpdateFeeds, TypeOK
    <2> QED  BY <2>1, <2>2 DEF FeedTypes, TypeOK
  <1>6. ServerTypes'
    BY DEF Answered, TypeOK, ServerTypes, server, Liked
  <1> QED  BY <1>2, <1>3, <1>4, <1>5, <1>6, TypesAreNext

LEMMA TypesStep == TypeOK /\ [Next]_vars => TypeOK'
  <1> SUFFICES ASSUME TypeOK, [Next]_vars PROVE TypeOK'
    OBVIOUS
  <1>1. CASE \E f \in Feeds : Refetch(f) \/ FetchNextPage(f) \/ ReadPage(f) \/ FetchEnds(f) \/ FetchFails(f)
    BY <1>1, FetchTypes, FetchEndsTypes
  <1>2. CASE OpenDeck \/ LeaveDeck \/ ReturnToDeck \/ SubmitDecision
             \/ \E direction \in Directions : StartSwipe(direction)
    BY <1>2, DeckOnlyTypes, LeaveDeckTypes, SubmitDecisionTypes
  <1>3. CASE Poll \/ PollEnds \/ PollFails
    BY <1>3, PollTypes
  <1>4. CASE Execute \/ ExecuteStops \/ ExecuteFails \/ Answered
    BY <1>4, ExecuteTypes, AnsweredTypes
  <1>5. CASE \E i \in Ids :
               \/ LikeFromSearch(i) \/ ReturnLike(i) \/ NewProfile(i) \/ LikedBy(i)
               \/ \E direction \in Directions : DecideElsewhere(direction, i)
    BY <1>5, StartTypes, ElsewhereTypes
  <1>6. CASE UNCHANGED vars
    BY <1>6 DEF TypeOK, vars, server, caches, likes, history, Liked
  <1> QED  BY <1>1, <1>2, <1>3, <1>4, <1>5, <1>6 DEF Next
\* What is stored stays stored.
LEMMA Grows == ASSUME TypeOK, Next
  PROVE  /\ profiles \subseteq profiles' /\ decided \subseteq decided' /\ likers \subseteq likers'
         /\ matches \subseteq matches' /\ decisions \subseteq decisions'
  <1>1. CASE \E f \in Feeds : Refetch(f) \/ FetchNextPage(f) \/ ReadPage(f) \/ FetchEnds(f) \/ FetchFails(f)
    BY <1>1 DEF Refetch, FetchNextPage, ReadPage, FetchEnds, FetchFails, server, history
  <1>2. CASE OpenDeck \/ LeaveDeck \/ ReturnToDeck \/ SubmitDecision
             \/ \E direction \in Directions : StartSwipe(direction)
    BY <1>2 DEF OpenDeck, LeaveDeck, ReturnToDeck, SubmitDecision, StartSwipe, server, history
  <1>3. CASE Poll \/ PollEnds \/ PollFails
    BY <1>3 DEF Poll, PollEnds, PollFails, server, history
  <1>4. CASE Execute \/ ExecuteStops \/ ExecuteFails \/ Answered
    BY <1>4 DEF Execute, ExecuteStops, ExecuteFails, Answered, server, history
  <1>5. CASE \E i \in Ids :
               \/ LikeFromSearch(i) \/ ReturnLike(i) \/ NewProfile(i) \/ LikedBy(i)
               \/ \E direction \in Directions : DecideElsewhere(direction, i)
    BY <1>5 DEF LikeFromSearch, ReturnLike, NewProfile, LikedBy, DecideElsewhere, server, history
  <1> QED  BY <1>1, <1>2, <1>3, <1>4, <1>5 DEF Next

-----------------------------------------------------------------------------
(* What was answered with success is stored                                *)

Sound(a, rows, mine, theirs) ==
    /\ a.state = "done" => <<a.what, a.id>> \in rows
    /\ a.origin = "received" => /\ a.what = "like" /\ a.id \in theirs
                                /\ a.state = "done" => a.id \in mine

LEMMA StoredIs ==
  /\ Stored <=> /\ \A a \in Range(actions) : Sound(a, decided, matches, likers)
                /\ \A d \in decisions : /\ <<d[2], d[3]>> \in decided
                                        /\ d[1] = "received" => d[3] \in matches
  /\ Stored' <=> /\ \A a \in Range(actions') : Sound(a, decided', matches', likers')
                 /\ \A d \in decisions' : /\ <<d[2], d[3]>> \in decided'
                                          /\ d[1] = "received" => d[3] \in matches'
  BY DEF Stored, Sound

LEMMA SoundGrows == ASSUME TypeOK, Next, NEW a, Sound(a, decided, matches, likers)
  PROVE  Sound(a, decided', matches', likers')
  BY Grows DEF Sound

LEMMA StoredStep == ASSUME TypeOK, Stored, Next PROVE Stored'
  <1>1. \A a \in Range(actions) : Sound(a, decided', matches', likers')
    BY StoredIs, SoundGrows
  <1>2. \A d \in decisions : /\ <<d[2], d[3]>> \in decided'
                             /\ d[1] = "received" => d[3] \in matches'
    BY Grows DEF Stored
  <1>4. CASE Answered
    <2> DEFINE a == Head(actions)
               e == <<a.origin, a.what, a.id>>
    <2>1. a \in Range(actions) /\ Range(actions') \subseteq Range(actions)
      BY <1>4, HeadTail DEF Answered, TypeOK
    <2>2. Sound(a, decided', matches', likers')
      BY <1>1, <2>1
    <2>3. decisions' = IF a.state = "done" THEN decisions \union {e} ELSE decisions
      BY <1>4 DEF Answered
    <2> HIDE DEF a
    <2>4. a.state = "done" => /\ <<e[2], e[3]>> \in decided'
                              /\ e[1] = "received" => e[3] \in matches'
      BY <2>2 DEF Sound
    <2> HIDE DEF e
    <2>5. \A d \in decisions' : /\ <<d[2], d[3]>> \in decided'
                                /\ d[1] = "received" => d[3] \in matches'
      BY <1>2, <2>3, <2>4
    <2> QED  BY <1>1, <2>1, <2>5, StoredIs
  <1>5. CASE Execute \/ ExecuteStops \/ ExecuteFails
    <2> DEFINE d == <<Head(actions).what, Head(actions).id>>
    <2>1. PICK st \in {"waiting", "done", "refused"} : actions' = [actions EXCEPT ![1].state = st]
      BY <1>5, MarkTypes
    <2>2. /\ actions # <<>> /\ actions' \in Seq(ServerAction) /\ DOMAIN actions' = DOMAIN actions
          /\ \A k \in DOMAIN actions :
              /\ actions'[k].what = actions[k].what /\ actions'[k].id = actions[k].id
              /\ actions'[k].origin = actions[k].origin
              /\ actions'[k].state = IF k = 1 THEN st ELSE actions[k].state
          /\ 1 \in DOMAIN actions
      BY <1>5, <2>1, MarkTypes, Marked
    <2>3. \A k \in DOMAIN actions : Sound(actions[k], decided', matches', likers')
      BY <1>1, Lists1 DEF TypeOK
    <2>4. \A k \in DOMAIN actions : k # 1 => Sound(actions'[k], decided', matches', likers')
      BY <2>2, <2>3 DEF Sound
    <2>5. actions'[1].state = "done" =>
            /\ d \in decided'
            /\ actions[1].origin = "received" => actions[1].id \in matches'
      <3> SUFFICES ASSUME actions'[1].state = "done"
                   PROVE  /\ d \in decided'
                          /\ actions[1].origin = "received" => actions[1].id \in matches'
        OBVIOUS
      <3>0. Head(actions) = actions[1] /\ actions[1] \in ServerAction
        BY <2>2, HeadRow
      <3>1. Execute /\ d \notin decided
        <4>1. CASE Execute
          <5>1. d \in decided => actions'[1].state = "refused"
            BY <2>2, <4>1, <3>0 DEF Execute, ServerAction
          <5> QED  BY <4>1, <5>1
        <4>2. CASE ~Execute
          <5>1. actions' = [actions EXCEPT ![1].state = "refused"]
            BY <1>5, <4>2 DEF ExecuteStops, ExecuteFails
          <5>2. actions'[1].state = "refused"
            BY <2>2, <5>1, Marked
          <5> QED  BY <5>2
        <4> QED  BY <4>1, <4>2
      <3>2. d \in decided' /\ matches' = matches \union MatchBy(d)
        BY <3>1 DEF Execute
      <3>3. actions[1].origin = "received" => actions[1].what = "like" /\ actions[1].id \in likers
        BY <2>2, Lists1 DEF Stored, TypeOK
      <3>4. actions[1].origin = "received" => actions[1].id \in MatchBy(d)
        BY <2>2, <3>0, <3>3, HeadRow
      <3> QED  BY <3>2, <3>4
    <2>6. Sound(actions'[1], decided', matches', likers')
      <3>1. Head(actions) = actions[1]
        BY <2>2, HeadRow
      <3> QED  BY <2>2, <2>3, <2>5, <3>1 DEF Sound
    <2>7. \A a \in Range(actions') : Sound(a, decided', matches', likers')
      BY <2>2, <2>4, <2>6, EachAction
    <2>8. decisions' = decisions
      BY <1>5 DEF Execute, ExecuteStops, ExecuteFails, history
    <2> QED  BY <1>2, <2>7, <2>8, StoredIs
  <1>6. CASE LeaveDeck
    <2>1. \A k \in DOMAIN actions : Sound(actions'[k], decided', matches', likers')
      BY <1>1, <1>6, Renamed DEF Sound
    <2>2. \A a \in Range(actions') : Sound(a, decided', matches', likers')
      BY <1>6, <2>1, Renamed, EachAction
    <2>3. decisions' = decisions
      BY <1>6 DEF LeaveDeck
    <2> QED  BY <1>2, <2>2, <2>3, StoredIs
  <1>7. CASE SubmitDecision \/ \E i \in Ids : LikeFromSearch(i) \/ ReturnLike(i)
    <2>1. \E what \in Directions, i \in Ids, origin \in Origins :
            /\ Len(actions) < MaxActions
            /\ actions' = Append(actions, Action(what, i, origin))
            /\ origin = "received" => what = "like" /\ i \in likers
            /\ decisions' = decisions /\ likers' = likers
      <3>1. CASE SubmitDecision
        <4>1. deck.leaving \in Directions /\ Current \in Ids /\ "deck" \in Origins /\ "deck" # "received"
          BY <3>1, CurrentIs DEF SubmitDecision, TypeOK, Origins
        <4> QED  BY <3>1, <4>1 DEF SubmitDecision, history, server
      <3>2. CASE \E i \in Ids : LikeFromSearch(i)
        BY <3>2 DEF LikeFromSearch, Directions, Origins, history, server
      <3>3. CASE \E i \in Ids : ReturnLike(i)
        BY <3>3 DEF ReturnLike, Directions, Origins, history, server
      <3> QED  BY <1>7, <3>1, <3>2, <3>3
    <2>2. PICK what \in Directions, i \in Ids, origin \in Origins :
            /\ Len(actions) < MaxActions
            /\ actions' = Append(actions, Action(what, i, origin))
            /\ origin = "received" => what = "like" /\ i \in likers
            /\ decisions' = decisions /\ likers' = likers
      BY <2>1
    <2>3. Range(actions') = Range(actions) \union {Action(what, i, origin)}
      BY <2>2, Started
    <2>4. Sound(Action(what, i, origin), decided', matches', likers')
      BY <2>2 DEF Action, Sound
    <2> QED  BY <1>1, <1>2, <2>2, <2>3, <2>4, StoredIs
  <1>8. CASE UNCHANGED <<actions, decisions>>
    BY <1>1, <1>2, <1>8, StoredIs
  <1>9. \/ Answered \/ Execute \/ ExecuteStops \/ ExecuteFails \/ LeaveDeck \/ SubmitDecision
        \/ (\E i \in Ids : LikeFromSearch(i) \/ ReturnLike(i)) \/ UNCHANGED <<actions, decisions>>
    BY DEF Next, Refetch, FetchNextPage, ReadPage, FetchEnds, FetchFails, OpenDeck, ReturnToDeck,
           StartSwipe, Poll, PollEnds, PollFails, NewProfile, LikedBy, DecideElsewhere, history
  <1> QED  BY <1>4, <1>5, <1>6, <1>7, <1>8, <1>9

-----------------------------------------------------------------------------
(* The feeds                                                               *)

LEMMA Nobody == ASSUME NEW f, NEW S, NEW liked, NEW races PROVE PagesInv(f, <<>>, S, liked, races)
  <1>1. PageIds(<<>>) = {} /\ ~HasNext(<<>>)
    BY DEF PageIds, HasNext, Range
  <1> QED  BY <1>1 DEF PagesInv, InOrder, Covers

\* Who is decided on is no longer looked for, and more are let off.
LEMMA Fewer ==
  ASSUME NEW f, NEW pages, NEW S, NEW T, NEW liked, NEW more, NEW races, NEW others,
         PagesInv(f, pages, S, liked, races), T \subseteq S,
         PageIds(pages) \intersect more \subseteq others
  PROVE  PagesInv(f, pages, T, more, others)
  BY DEF PagesInv, Covers

LEMMA FeedInvNext == ASSUME NEW f, begun'[f] \subseteq profiles', fetch'[f].begun \subseteq profiles',
    GoesOn(fetch'[f]),
    PagesInv(f, feed'[f], begun'[f] \ Decided', LikedFromSearch', raced'[f]),
    PagesInv(f, fetch'[f].pages, fetch'[f].begun \ Decided', LikedFromSearch', raced'[f])
  PROVE FeedInv(f)'
  BY DEF FeedInv

\* What leaves a feed alone: the rows only grow.
LEMMA FeedStays ==
  ASSUME NEW f, FeedInv(f), profiles \subseteq profiles', decided \subseteq decided',
         LikedFromSearch' = LikedFromSearch, raced'[f] = raced[f],
         feed'[f] = feed[f], fetch'[f] = fetch[f], begun'[f] = begun[f]
  PROVE  FeedInv(f)'
  <1>1. Decided \subseteq Decided'
    BY DEF Decided
  <1>2. /\ begun[f] \ Decided' \subseteq begun[f] \ Decided
        /\ fetch[f].begun \ Decided' \subseteq fetch[f].begun \ Decided
    BY <1>1
  <1>3. /\ PagesInv(f, feed[f], begun[f] \ Decided, LikedFromSearch, raced[f])
        /\ PagesInv(f, fetch[f].pages, fetch[f].begun \ Decided, LikedFromSearch, raced[f])
        /\ PageIds(feed[f]) \intersect LikedFromSearch \subseteq raced[f]
        /\ PageIds(fetch[f].pages) \intersect LikedFromSearch \subseteq raced[f]
    BY DEF FeedInv, PagesInv
  <1>4. /\ PagesInv(f, feed'[f], begun'[f] \ Decided', LikedFromSearch', raced'[f])
        /\ PagesInv(f, fetch'[f].pages, fetch'[f].begun \ Decided', LikedFromSearch', raced'[f])
    BY <1>2, <1>3, Fewer
  <1>5. begun'[f] \subseteq profiles' /\ fetch'[f].begun \subseteq profiles' /\ GoesOn(fetch'[f])
    BY DEF FeedInv
  <1> QED  BY <1>4, <1>5, FeedInvNext

\* A fetch that starts, reads a page or fails.
LEMMA FetchMoves ==
  ASSUME TypeOK, NEW f \in Feeds, NEW w \in Fetch, \A g \in Feeds : FeedInv(g),
         fetch' = [fetch EXCEPT ![f] = w], UNCHANGED <<server, feed, history>>,
         w.begun \subseteq profiles, GoesOn(w),
         PagesInv(f, w.pages, w.begun \ Decided, LikedFromSearch, raced[f])
  PROVE  \A g \in Feeds : FeedInv(g)'
  <1> SUFFICES ASSUME NEW g \in Feeds PROVE FeedInv(g)'
    OBVIOUS
  <1>1. /\ profiles' = profiles /\ decided' = decided /\ raced' = raced /\ begun' = begun
        /\ feed' = feed /\ LikedFromSearch' = LikedFromSearch /\ Decided' = Decided
    BY DEF server, history, LikedFromSearch, Decided
  <1>2. fetch'[f] = w /\ (g # f => fetch'[g] = fetch[g])
    BY DEF TypeOK
  <1>3. CASE g = f
    <2>1. FeedInv(f)
      OBVIOUS
    <2> QED  BY <1>1, <1>2, <1>3, <2>1, FeedInvNext DEF FeedInv
  <1>4. CASE g # f
    BY <1>1, <1>2, <1>4, FeedStays
  <1> QED  BY <1>3, <1>4

LEMMA OneMore == ASSUME NEW pages \in Seq(Page), NEW page \in Page
  PROVE  LET more == Append(pages, page)
         IN  /\ more # <<>> /\ more \in Seq(Page)
             /\ PageIds(more) = PageIds(pages) \union page.ids
             /\ NextCursor(more) = page.next
             /\ HasNext(more) <=> page.next # NoCursor
  <1> DEFINE more == Append(pages, page)
  <1>1. /\ more \in Seq(Page) /\ Len(more) = Len(pages) + 1 /\ Len(pages) \in Nat
        /\ more[Len(pages) + 1] = page /\ Range(more) = Range(pages) \union {page}
    BY Appended
  <1> HIDE DEF more
  <1>2. more # <<>>
    BY <1>1, EmptySeq
  <1>3. PageIds(more) = PageIds(pages) \union page.ids
    BY <1>1 DEF PageIds
  <1>4. NextCursor(more) = page.next
    BY <1>1, <1>2 DEF NextCursor
  <1>5. HasNext(more) <=> page.next # NoCursor
    BY <1>2, <1>4 DEF HasNext
  <1> QED  BY <1>1, <1>2, <1>3, <1>4, <1>5 DEF more

\* A page read behind the others keeps them in order and covers what they did.
LEMMA ReadOn ==
  ASSUME NEW f, NEW pages \in Seq(Page), NEW S, NEW T, NEW races, profiles \subseteq Ids,
         PagesInv(f, pages, S, LikedFromSearch, races), LikedFromSearch \subseteq Decided,
         pages = <<>> \/ HasNext(pages), T \subseteq Undecided, pages # <<>> => T \subseteq S
  PROVE  PagesInv(f, Append(pages, Search(f, NextCursor(pages))), T, LikedFromSearch, races)
  <1> DEFINE cursor == NextCursor(pages)
             page == Search(f, cursor)
             more == Append(pages, page)
  <1>0. pages = <<>> => PageIds(pages) = {} /\ cursor = NoCursor
    BY DEF PageIds, NextCursor, Range
  <1>1. /\ page.ids \subseteq Candidates(f, cursor) /\ page \in Page
        /\ page.next = NoCursor => page.ids = Candidates(f, cursor)
        /\ page.next # NoCursor =>
             /\ page.next \in page.ids
             /\ \A i \in page.ids : i = page.next \/ Before(f, i, page.next)
             /\ \A i \in Candidates(f, cursor) \ page.ids : Before(f, page.next, i)
    BY PageIs
  <1>2. /\ more # <<>> /\ PageIds(more) = PageIds(pages) \union page.ids
        /\ NextCursor(more) = page.next /\ (HasNext(more) <=> page.next # NoCursor)
    BY <1>1, OneMore
  <1>3. /\ Len(pages) \in Nat /\ DOMAIN more = 1..(Len(pages) + 1) /\ DOMAIN pages = 1..Len(pages)
        /\ \A k \in 1..Len(pages) : more[k] = pages[k]
        /\ more[Len(pages) + 1] = page
    BY <1>1, Appended
  <1>4. \A i \in Candidates(f, cursor) :
          i \in Undecided /\ i \in Nat /\ (pages # <<>> => Before(f, cursor, i))
    BY IdsAssumption DEF Candidates, Undecided, Beyond, HasNext
  <1>5. \A k \in DOMAIN pages : \A x \in pages[k].ids : x \in PageIds(pages)
    BY PagesOf
  <1>6. pages # <<>> => /\ cursor \in Nat
                        /\ \A x \in PageIds(pages) : x \in Nat /\ (x = cursor \/ Before(f, x, cursor))
    <2> SUFFICES ASSUME pages # <<>> PROVE cursor \in Nat
                    /\ \A x \in PageIds(pages) : x \in Nat /\ (x = cursor \/ Before(f, x, cursor))
      OBVIOUS
    <2>1. \A x \in PageIds(pages) : x \in Nat
      BY PagesOf, IdsAssumption
    <2>2. cursor \in Nat
      <3>1. Len(pages) \in DOMAIN pages
        BY <1>3, EmptySeq
      <3>2. pages[Len(pages)] \in Page
        BY <3>1, Lists1
      <3> HIDE DEF cursor
      <3>3. pages[Len(pages)].next \in Ids \union {NoCursor}
        BY <3>2 DEF Page
      <3>4. cursor \in Ids \union {NoCursor}
        BY <3>3 DEF NextCursor, cursor
      <3> QED  BY <3>4, IdsAssumption DEF NoCursor
    <2>3. HasNext(pages)
      OBVIOUS
    <2> QED  BY <2>1, <2>2, <2>3 DEF PagesInv, InOrder
  <1> HIDE DEF page, more, cursor
  <1>7. \A x \in PageIds(pages), y \in page.ids : Before(f, x, y)
    <2> SUFFICES ASSUME NEW x \in PageIds(pages), NEW y \in page.ids PROVE Before(f, x, y)
      OBVIOUS
    <2>1. pages # <<>>
      BY <1>0
    <2>2. Before(f, cursor, y) /\ y \in Nat /\ cursor \in Nat /\ x \in Nat
          /\ (x = cursor \/ Before(f, x, cursor))
      BY <1>1, <1>4, <1>6, <2>1
    <2> QED  BY <2>2, Orders
  <1>8. InOrder(f, more)
    <2>1. ASSUME NEW j \in DOMAIN more, NEW k \in DOMAIN more, j < k,
                 NEW x \in more[j].ids, NEW y \in more[k].ids
          PROVE  Before(f, x, y)
      <3>1. j \in DOMAIN pages /\ more[j] = pages[j]
        BY <1>3, <2>1
      <3>2. CASE k \in DOMAIN pages
        <4>1. more[k] = pages[k]
          BY <1>3, <3>2
        <4> QED  BY <2>1, <3>1, <3>2, <4>1 DEF PagesInv, InOrder
      <3>3. CASE k \notin DOMAIN pages
        <4>1. k = Len(pages) + 1
          BY <1>3, <3>3
        <4>2. y \in page.ids /\ x \in PageIds(pages)
          BY <1>3, <1>5, <3>1, <4>1
        <4> QED  BY <1>7, <4>2
      <3> QED  BY <3>2, <3>3
    <2>2. ASSUME HasNext(more), NEW x \in PageIds(more)
          PROVE  x = NextCursor(more) \/ Before(f, x, NextCursor(more))
      <3>1. page.next \in page.ids /\ NextCursor(more) = page.next
        BY <1>1, <1>2, <2>2
      <3>2. CASE x \in page.ids
        BY <1>1, <1>2, <2>2, <3>1, <3>2
      <3>3. CASE x \in PageIds(pages)
        BY <1>7, <3>1, <3>3
      <3> QED  BY <1>2, <2>2, <3>2, <3>3
    <2> QED  BY <2>1, <2>2 DEF InOrder
  <1>9. Covers(f, more, T)
    <2> SUFFICES ASSUME NEW i \in T
                 PROVE  i \in PageIds(more) \/ (HasNext(more) /\ Before(f, NextCursor(more), i))
      BY DEF Covers
    <2>1. i \in PageIds(pages) \/ i \in Candidates(f, cursor)
      <3>1. CASE pages = <<>>
        BY <1>0, <3>1 DEF Candidates, Beyond
      <3>2. CASE pages # <<>>
        <4>1. i \in S /\ i \in Undecided
          BY <3>2
        <4>2. i \in PageIds(pages) \/ Before(f, cursor, i)
          BY <3>2, <4>1 DEF PagesInv, Covers, cursor
        <4> QED  BY <4>1, <4>2 DEF Candidates, Beyond
      <3> QED  BY <3>1, <3>2
    <2> QED  BY <1>1, <1>2, <2>1
  <1>10. PageIds(more) \intersect LikedFromSearch \subseteq races
    <2>1. page.ids \intersect LikedFromSearch = {}
      BY <1>1, <1>4 DEF Undecided
    <2>2. PageIds(pages) \intersect LikedFromSearch \subseteq races
      BY DEF PagesInv
    <2> QED  BY <1>2, <2>1, <2>2
  <1>11. PagesInv(f, more, T, LikedFromSearch, races)
    BY <1>8, <1>9, <1>10 DEF PagesInv
  <1> QED  BY <1>11 DEF more, page, cursor

\* Whoever was liked from the search page is decided on.
LEMMA LikedIsDecided == ASSUME TypeOK, Stored
  PROVE LikedFromSearch \subseteq Decided
  <1> SUFFICES ASSUME NEW i \in LikedFromSearch PROVE i \in Decided
    OBVIOUS
  <1> DEFINE d == <<"search", "like", i>>
             e == <<"like", i>>
  <1>1. d \in decisions /\ d[2] = "like" /\ d[3] = i
    BY DEF LikedFromSearch
  <1>2. e \in decided /\ e[2] = i
    BY <1>1 DEF Stored
  <1> QED  BY <1>2 DEF Decided

LEMMA FetchInv ==
  ASSUME TypeOK, Stored, \A g \in Feeds : FeedInv(g), NEW f \in Feeds,
         Refetch(f) \/ FetchNextPage(f) \/ ReadPage(f) \/ FetchFails(f)
  PROVE  \A g \in Feeds : FeedInv(g)'
  <1>1. /\ feed[f] \in Seq(Page) /\ Len(feed[f]) \in Nat /\ begun[f] \in SUBSET Ids
        /\ <<>> \in Seq(Page) /\ fetch[f] \in Fetch /\ profiles \subseteq Ids
    BY LenProperties, EmptySeq DEF TypeOK
  <1>2. FeedInv(f)
    OBVIOUS
  <1>3. CASE Refetch(f)
    <2> DEFINE w == [kind |-> "refetch", pages |-> <<>>,
                     left |-> IF feed[f] = <<>> THEN 1 ELSE Len(feed[f]), begun |-> {}]
    <2>1. w \in Fetch /\ w.pages = <<>> /\ w.begun = {}
      BY <1>1 DEF Fetch
    <2>2. w.left # 0
      BY <1>1, EmptySeq
    <2>3. fetch' = [fetch EXCEPT ![f] = w]
      BY <1>3 DEF Refetch
    <2>4. UNCHANGED <<server, feed, history>>
      BY <1>3 DEF Refetch
    <2> HIDE DEF w
    <2>5. GoesOn(w)
      BY <2>1, <2>2 DEF GoesOn
    <2>6. PagesInv(f, w.pages, w.begun \ Decided, LikedFromSearch, raced[f])
      BY <2>1, Nobody
    <2> QED  BY <2>1, <2>3, <2>4, <2>5, <2>6, FetchMoves
  <1>4. CASE FetchNextPage(f)
    <2> DEFINE w == [kind |-> "next", pages |-> feed[f], left |-> 1, begun |-> begun[f]]
    <2>1. w \in Fetch /\ w.pages = feed[f] /\ w.begun = begun[f] /\ w.left # 0
      BY <1>1 DEF Fetch
    <2>3. fetch' = [fetch EXCEPT ![f] = w] /\ UNCHANGED <<server, feed, history>> /\ HasNext(feed[f])
      BY <1>4 DEF FetchNextPage
    <2> HIDE DEF w
    <2>5. GoesOn(w)
      BY <2>1, <2>3 DEF GoesOn
    <2>6. /\ PagesInv(f, w.pages, w.begun \ Decided, LikedFromSearch, raced[f])
          /\ w.begun \subseteq profiles
      BY <1>2, <2>1 DEF FeedInv
    <2> QED  BY <2>1, <2>3, <2>5, <2>6, FetchMoves
  <1>5. CASE ReadPage(f)
    <2> DEFINE pages == fetch[f].pages
    <2>1. PICK page \in Page, w \in Fetch :
            /\ page = Search(f, NextCursor(pages))
            /\ w.kind = fetch[f].kind /\ w.pages = Append(pages, page)
            /\ w.left = 0 \/ page.next # NoCursor
            /\ w.begun = IF pages = <<>> THEN profiles ELSE fetch[f].begun
            /\ fetch' = [fetch EXCEPT ![f] = w]
      BY <1>5, ReadPageIs
    <2>2. UNCHANGED <<server, feed, history>>
      BY <1>5 DEF ReadPage
    <2>3. pages \in Seq(Page)
      BY <1>1 DEF Fetch
    <2>4. pages = <<>> \/ HasNext(pages)
      <3>1. fetch[f].left # 0 /\ fetch[f].kind # "none"
        BY <1>1, <1>5 DEF ReadPage, Fetch
      <3> QED  BY <1>2, <3>1 DEF FeedInv, GoesOn
    <2>5. PagesInv(f, pages, fetch[f].begun \ Decided, LikedFromSearch, raced[f])
          /\ fetch[f].begun \subseteq profiles
      BY <1>2 DEF FeedInv
    <2> HIDE DEF pages
    <2>6. w.begun \subseteq profiles
      BY <2>1, <2>5
    <2>7. GoesOn(w)
      <3>1. w.pages # <<>> /\ (page.next # NoCursor => HasNext(w.pages))
        BY <2>1, <2>3, OneMore
      <3> QED  BY <2>1, <3>1 DEF GoesOn
    <2>8. /\ w.begun \ Decided \subseteq Undecided
          /\ pages # <<>> => w.begun \ Decided \subseteq fetch[f].begun \ Decided
      BY <2>1, <2>6 DEF Undecided
    <2>9. PagesInv(f, w.pages, w.begun \ Decided, LikedFromSearch, raced[f])
      BY <1>1, <2>1, <2>3, <2>4, <2>5, <2>8, ReadOn, LikedIsDecided
    <2> QED  BY <2>1, <2>2, <2>6, <2>7, <2>9, FetchMoves
  <1>6. CASE FetchFails(f)
    <2>1. NoFetch \in Fetch /\ NoFetch.pages = <<>> /\ NoFetch.begun = {} /\ NoFetch.kind = "none"
      BY <1>1 DEF NoFetch, Fetch
    <2>2. fetch' = [fetch EXCEPT ![f] = NoFetch] /\ UNCHANGED <<server, feed, history>>
      BY <1>6 DEF FetchFails
    <2>3. GoesOn(NoFetch)
      BY <2>1 DEF GoesOn
    <2>4. PagesInv(f, NoFetch.pages, NoFetch.begun \ Decided, LikedFromSearch, raced[f])
      BY <2>1, Nobody
    <2> QED  BY <2>1, <2>2, <2>3, <2>4, FetchMoves
  <1> QED  BY <1>3, <1>4, <1>5, <1>6

LEMMA FetchEndsInv ==
  ASSUME TypeOK, Stored, \A g \in Feeds : FeedInv(g), NEW f \in Feeds, FetchEnds(f)
  PROVE  \A g \in Feeds : FeedInv(g)'
  <1> SUFFICES ASSUME NEW g \in Feeds PROVE FeedInv(g)'
    OBVIOUS
  <1>1. /\ profiles' = profiles /\ decided' = decided
        /\ LikedFromSearch' = LikedFromSearch /\ Decided' = Decided
    BY DEF FetchEnds, server, LikedFromSearch, Decided
  <1>2. CASE g = f
    <2>1. /\ feed'[f] = fetch[f].pages /\ begun'[f] = fetch[f].begun /\ fetch'[f] = NoFetch
          /\ raced'[f] = raced[f] \intersect PageIds(fetch[f].pages)
      BY DEF FetchEnds, TypeOK, Lists
    <2>2. NoFetch.pages = <<>> /\ NoFetch.begun = {} /\ NoFetch.kind = "none"
      BY DEF NoFetch
    <2>3. FeedInv(f)
      OBVIOUS
    <2>4. PagesInv(f, feed'[f], begun'[f] \ Decided', LikedFromSearch', raced'[f])
      <3>1. PagesInv(f, fetch[f].pages, fetch[f].begun \ Decided, LikedFromSearch, raced[f])
        BY <2>3 DEF FeedInv
      <3>2. PageIds(fetch[f].pages) \intersect LikedFromSearch \subseteq raced'[f]
        BY <2>1, <3>1 DEF PagesInv
      <3> QED  BY <1>1, <2>1, <3>1, <3>2, Fewer
    <2>5. PagesInv(f, fetch'[f].pages, fetch'[f].begun \ Decided', LikedFromSearch', raced'[f])
      BY <2>1, <2>2, Nobody
    <2>6. GoesOn(fetch'[f])
      BY <2>1, <2>2 DEF GoesOn
    <2>7. begun'[f] \subseteq profiles' /\ fetch'[f].begun \subseteq profiles'
      BY <1>1, <2>1, <2>2, <2>3 DEF FeedInv
    <2> QED  BY <1>2, <2>4, <2>5, <2>6, <2>7, FeedInvNext
  <1>3. CASE g # f
    <2>1. /\ feed'[g] = feed[g] /\ begun'[g] = begun[g] /\ fetch'[g] = fetch[g]
          /\ raced'[g] = raced[g]
      BY <1>3 DEF FetchEnds, TypeOK, Lists
    <2> QED  BY <1>1, <2>1, FeedStays
  <1> QED  BY <1>2, <1>3

\* Taking a profile out of the pages leaves their order and their cursors.
LEMMA LessOne ==
  ASSUME NEW f, NEW pages \in Seq(Page), NEW i, NEW S, NEW liked, NEW races,
         PagesInv(f, pages, S, liked, races), i \notin S
  PROVE  /\ PageIds(Without(i, pages)) = PageIds(pages) \ {i}
         /\ PagesInv(f, Without(i, pages), S, liked \union {i}, races)
  <1> DEFINE rest == Without(i, pages)
  <1>1. /\ rest \in Seq(Page) /\ DOMAIN rest = DOMAIN pages /\ Len(rest) = Len(pages)
        /\ \A k \in DOMAIN pages : rest[k].ids = pages[k].ids \ {i} /\ rest[k].next = pages[k].next
    BY WithoutTypes
  <1> HIDE DEF rest
  <1>2. PageIds(rest) = PageIds(pages) \ {i}
    <2>1. \A x \in PageIds(rest) : x \in PageIds(pages) \ {i}
      BY <1>1, PagesOf
    <2>2. \A x \in PageIds(pages) \ {i} : x \in PageIds(rest)
      BY <1>1, PagesOf
    <2> QED  BY <2>1, <2>2
  <1>3. /\ rest = <<>> <=> pages = <<>>
        /\ NextCursor(rest) = NextCursor(pages)
    <2>1. (rest = <<>> <=> Len(rest) = 0) /\ (pages = <<>> <=> Len(pages) = 0)
      BY <1>1, EmptySeq
    <2>2. pages # <<>> => Len(pages) \in DOMAIN pages
      BY <2>1, LenProperties
    <2> QED  BY <1>1, <2>1, <2>2 DEF NextCursor
  <1>4. HasNext(rest) <=> HasNext(pages)
    BY <1>3 DEF HasNext
  <1>5. InOrder(f, rest)
    BY <1>1, <1>2, <1>3, <1>4 DEF PagesInv, InOrder
  <1>6. Covers(f, rest, S)
    BY <1>2, <1>3, <1>4 DEF PagesInv, Covers
  <1>7. PageIds(rest) \intersect (liked \union {i}) \subseteq races
    BY <1>2 DEF PagesInv
  <1> QED  BY <1>2, <1>5, <1>6, <1>7 DEF PagesInv, rest

LEMMA AnsweredFeeds ==
  ASSUME TypeOK, Stored, \A g \in Feeds : FeedInv(g), NEW f \in Feeds, Answered
  PROVE  FeedInv(f)'
  <1> DEFINE a == Head(actions)
             pages == fetch[f].pages
             e == <<a.origin, a.what, a.id>>
  <1>1. /\ a \in ServerAction /\ a.id \in Ids /\ a \in Range(actions)
        /\ a.state = "done" => <<a.what, a.id>> \in decided
    BY HeadRow DEF Answered, ServerAction, Stored
  <1>2. /\ profiles' = profiles /\ decided' = decided /\ Decided' = Decided
        /\ fetch' = fetch /\ begun' = begun
    BY DEF Answered, server, Decided
  <1>3. f # "likes" /\ f \in Lists
    BY FeedsAssumption DEF Lists
  <1>4. FeedInv(f)
    OBVIOUS
  <1>5. feed[f] \in Seq(Page)
    BY DEF TypeOK
  <1>6. /\ feed' = IF a.origin = "search" /\ a.state = "done" THEN UpdateFeeds(a.id) ELSE feed
        /\ decisions' = IF a.state = "done" THEN decisions \union {e} ELSE decisions
        /\ raced'[f] = IF a.origin = "search" /\ a.state = "done" /\ a.id \in PageIds(pages)
                       THEN raced[f] \union {a.id} ELSE raced[f]
    BY <1>3 DEF Answered
  <1>7. PagesInv(f, feed[f], begun[f] \ Decided, LikedFromSearch, raced[f])
        /\ PagesInv(f, pages, fetch[f].begun \ Decided, LikedFromSearch, raced[f])
    BY <1>4 DEF FeedInv
  <1> HIDE DEF a, pages
  <1>8. CASE a.origin = "search" /\ a.state = "done"
    <2>1. a.id \in Decided
      <3> DEFINE d == <<a.what, a.id>>
      <3>1. d \in decided /\ d[2] = a.id
        BY <1>1, <1>8
      <3> QED  BY <3>1 DEF Decided
    <2>2. LikedFromSearch' \subseteq LikedFromSearch \union {a.id}
      BY <1>6, <1>8 DEF LikedFromSearch
    <2>3. feed'[f] = Without(a.id, feed[f])
      BY <1>6, <1>8 DEF UpdateFeeds
    <2>4. /\ PageIds(feed'[f]) = PageIds(feed[f]) \ {a.id}
          /\ PagesInv(f, feed'[f], begun[f] \ Decided, LikedFromSearch \union {a.id}, raced[f])
      <3> DEFINE S == begun[f] \ Decided
                 rest == Without(a.id, feed[f])
      <3>1. a.id \notin S /\ PagesInv(f, feed[f], S, LikedFromSearch, raced[f])
        BY <1>7, <2>1
      <3> HIDE DEF S
      <3>2. /\ PageIds(rest) = PageIds(feed[f]) \ {a.id}
            /\ PagesInv(f, rest, S, LikedFromSearch \union {a.id}, raced[f])
        BY <1>5, <3>1, LessOne
      <3> QED  BY <2>3, <3>2 DEF S
    <2>5. PageIds(feed'[f]) \intersect LikedFromSearch' \subseteq raced'[f]
      BY <1>6, <2>2, <2>4 DEF PagesInv
    <2>6. PageIds(pages) \intersect LikedFromSearch' \subseteq raced'[f]
      BY <1>6, <1>7, <1>8, <2>2 DEF PagesInv
    <2>7. /\ PagesInv(f, feed'[f], begun'[f] \ Decided', LikedFromSearch', raced'[f])
          /\ PagesInv(f, fetch'[f].pages, fetch'[f].begun \ Decided', LikedFromSearch', raced'[f])
      BY <1>2, <1>7, <2>4, <2>5, <2>6, Fewer DEF pages
    <2>8. begun'[f] \subseteq profiles' /\ fetch'[f].begun \subseteq profiles' /\ GoesOn(fetch'[f])
      BY <1>2, <1>4 DEF FeedInv
    <2> QED  BY <2>7, <2>8, FeedInvNext
  <1>9. CASE ~(a.origin = "search" /\ a.state = "done")
    <2>1. feed' = feed /\ raced'[f] = raced[f]
      BY <1>6, <1>9
    <2>2. decisions \subseteq decisions'
          /\ \A d \in decisions' : d \in decisions \/ (d = e /\ d[1] # "search")
      BY <1>6, <1>9
    <2>3. LikedFromSearch' = LikedFromSearch
      <3>1. \A i \in Ids : <<"search", "like", i>>[1] = "search"
        OBVIOUS
      <3> HIDE DEF e
      <3> QED  BY <2>2, <3>1 DEF LikedFromSearch
    <2> QED  BY <1>2, <1>4, <2>1, <2>3, FeedStays
  <1> QED  BY <1>8, <1>9

LEMMA FeedStep == ASSUME TypeOK, Stored, \A g \in Feeds : FeedInv(g), Next
  PROVE  \A f \in Feeds : FeedInv(f)'
  <1>1. CASE \E f \in Feeds : Refetch(f) \/ FetchNextPage(f) \/ ReadPage(f) \/ FetchEnds(f) \/ FetchFails(f)
    BY <1>1, FetchInv, FetchEndsInv
  <1>2. CASE Answered
    BY <1>2, AnsweredFeeds
  <1>3. ASSUME UNCHANGED <<feed, fetch, begun, decisions>>,
               \A f \in Feeds : raced'[f] = raced[f]
        PROVE  \A f \in Feeds : FeedInv(f)'
    <2>1. LikedFromSearch' = LikedFromSearch
      BY <1>3 DEF LikedFromSearch
    <2>2. profiles \subseteq profiles' /\ decided \subseteq decided'
      BY Grows
    <2> QED  BY <1>3, <2>1, <2>2, FeedStays
  <1>4. CASE OpenDeck \/ LeaveDeck \/ ReturnToDeck \/ SubmitDecision \/ Poll \/ PollFails
             \/ \E direction \in Directions : StartSwipe(direction)
    <2>1. UNCHANGED <<feed, fetch, begun, decisions, raced>>
      BY <1>4 DEF OpenDeck, LeaveDeck, ReturnToDeck, SubmitDecision, StartSwipe, Poll, PollFails, history
    <2> QED  BY <1>3, <2>1
  <1>5. CASE PollEnds
    <2>1. UNCHANGED <<feed, fetch, begun, decisions>>
      BY <1>5 DEF PollEnds
    <2>2. \A f \in Feeds : raced'[f] = raced[f]
      BY <1>5, FeedsAssumption DEF PollEnds, TypeOK, Lists
    <2> QED  BY <1>3, <2>1, <2>2
  <1>6. CASE Execute \/ ExecuteStops \/ ExecuteFails
    <2>1. UNCHANGED <<feed, fetch, begun, decisions, raced>>
      BY <1>6 DEF Execute, ExecuteStops, ExecuteFails, caches, history
    <2> QED  BY <1>3, <2>1
  <1>7. CASE \E i \in Ids :
               \/ LikeFromSearch(i) \/ ReturnLike(i) \/ NewProfile(i) \/ LikedBy(i)
               \/ \E direction \in Directions : DecideElsewhere(direction, i)
    <2>1. UNCHANGED <<feed, fetch, begun, decisions, raced>>
      BY <1>7 DEF LikeFromSearch, ReturnLike, NewProfile, LikedBy, DecideElsewhere, caches, history
    <2> QED  BY <1>3, <2>1
  <1> QED  BY <1>1, <1>2, <1>4, <1>5, <1>6, <1>7 DEF Next

-----------------------------------------------------------------------------
(* The likes received                                                      *)

LEMMA ReturnedIsMatched == ASSUME TypeOK, Stored PROVE LikesReturned \subseteq matches
  <1> SUFFICES ASSUME NEW i \in LikesReturned PROVE i \in matches
    OBVIOUS
  <1> DEFINE d == <<"received", "like", i>>
  <1>1. d \in decisions /\ d[1] = "received" /\ d[3] = i
    BY DEF LikesReturned
  <1> HIDE DEF d
  <1> QED  BY <1>1 DEF Stored

LEMMA LikesStays ==
  ASSUME TypeOK, LikesInv, UNCHANGED <<likes, dropped>>, LikesReturned' = LikesReturned,
         raced'["likes"] = raced["likes"]
  PROVE  LikesInv'
  BY DEF LikesInv, TotalCountsTheList, likes

LEMMA PollInv == ASSUME TypeOK, Stored, LikesInv, Poll \/ PollEnds \/ PollFails PROVE LikesInv'
  <1>1. LikesReturned' = LikesReturned
    BY DEF LikesReturned, Poll, PollEnds, PollFails, history
  <1>2. CASE Poll
    <2>1. poll'.ids \intersect LikesReturned = {}
      BY <1>2, ReturnedIsMatched DEF Poll, GetPendingLikes
    <2>2. UNCHANGED <<pending, raced, dropped>>
      BY <1>2 DEF Poll, history
    <2> QED  BY <1>1, <2>1, <2>2 DEF LikesInv, TotalCountsTheList
  <1>3. CASE PollEnds
    <2>1. /\ pending' = [got |-> TRUE, ids |-> poll.ids, total |-> Cardinality(poll.ids)]
          /\ poll'.ids = {}
          /\ raced'["likes"] = raced["likes"] \intersect poll.ids
      BY <1>3 DEF PollEnds, NoPoll, TypeOK, Lists
    <2>2. pending'.got /\ pending'.ids = poll.ids /\ pending'.total = Cardinality(pending'.ids)
      BY <2>1
    <2> QED  BY <1>1, <2>1, <2>2 DEF LikesInv, TotalCountsTheList
  <1>4. CASE PollFails
    <2>1. poll'.ids = {} /\ UNCHANGED <<pending, raced, dropped>>
      BY <1>4 DEF PollFails, NoPoll, history
    <2> QED  BY <1>1, <2>1 DEF LikesInv, TotalCountsTheList
  <1> QED  BY <1>2, <1>3, <1>4

LEMMA AnsweredLikes == ASSUME TypeOK, LikesInv, Answered PROVE LikesInv'
  <1> DEFINE a == Head(actions)
             e == <<a.origin, a.what, a.id>>
  <1>1. a \in ServerAction /\ a.id \in Ids
    BY HeadRow DEF Answered, ServerAction
  <1>2. /\ pending' = IF a.origin = "received" /\ a.state = "done" THEN TakeOut(a.id) ELSE pending
        /\ dropped' = IF a.origin = "received" /\ a.state = "done" /\ pending.got /\ a.id \notin pending.ids
                      THEN dropped \union {a.id} ELSE dropped
        /\ decisions' = IF a.state = "done" THEN decisions \union {e} ELSE decisions
        /\ raced'["likes"] = IF a.origin = "received" /\ a.state = "done" /\ a.id \in poll.ids
                             THEN raced["likes"] \union {a.id} ELSE raced["likes"]
        /\ poll' = poll
    BY DEF Answered, Lists
  <1> HIDE DEF a
  <1>3. CASE a.origin = "received" /\ a.state = "done"
    <2>1. LikesReturned' \subseteq LikesReturned \union {a.id}
      BY <1>2, <1>3 DEF LikesReturned
    <2>2. CASE pending.got
      <3> DEFINE t == IF pending.total = 0 THEN 0 ELSE pending.total - 1
      <3>1. pending' = [got |-> TRUE, ids |-> pending.ids \ {a.id}, total |-> t]
        BY <1>2, <1>3, <2>2 DEF TakeOut
      <3>2. pending'.got /\ pending'.ids = pending.ids \ {a.id} /\ pending'.total = t
        BY <3>1
      <3>3. ASSUME dropped' = {} PROVE t = Cardinality(pending.ids \ {a.id})
        <4>1. dropped = {} /\ a.id \in pending.ids
          BY <1>2, <1>3, <2>2, <3>3
        <4>2. IsFiniteSet(pending.ids)
          BY IdsAssumption, FS_Subset DEF TypeOK
        <4>3. /\ Cardinality(pending.ids \ {a.id}) = Cardinality(pending.ids) - 1
              /\ Cardinality(pending.ids \ {a.id}) \in Nat /\ Cardinality(pending.ids) \in Nat
          BY <4>1, <4>2, FS_RemoveElement, FS_CardinalityType
        <4>4. pending.total = Cardinality(pending.ids)
          BY <4>1 DEF LikesInv, TotalCountsTheList
        <4> HIDE DEF t
        <4>5. pending.total # 0 /\ t = pending.total - 1
          BY <4>3, <4>4 DEF t
        <4> QED  BY <4>3, <4>4, <4>5
      <3> HIDE DEF t
      <3>4. (pending'.ids \union poll'.ids) \intersect LikesReturned' \subseteq raced'["likes"]
        BY <1>2, <1>3, <2>1, <3>2 DEF LikesInv
      <3> QED  BY <3>2, <3>3, <3>4 DEF LikesInv, TotalCountsTheList
    <2>3. CASE ~pending.got
      <3>1. pending' = pending /\ dropped' = dropped /\ pending.ids = {}
        BY <1>2, <1>3, <2>3 DEF TakeOut, LikesInv
      <3>2. (pending'.ids \union poll'.ids) \intersect LikesReturned' \subseteq raced'["likes"]
        BY <1>2, <1>3, <2>1, <3>1 DEF LikesInv
      <3> QED  BY <3>1, <3>2 DEF LikesInv, TotalCountsTheList
    <2> QED  BY <2>2, <2>3
  <1>4. CASE ~(a.origin = "received" /\ a.state = "done")
    <2>1. UNCHANGED <<likes, dropped>> /\ raced'["likes"] = raced["likes"]
      BY <1>2, <1>4 DEF likes
    <2>2. decisions \subseteq decisions'
          /\ \A d \in decisions' : d \in decisions \/ (d = e /\ d[1] # "received")
      BY <1>2, <1>4
    <2>3. LikesReturned' = LikesReturned
      <3>1. \A i \in Ids : <<"received", "like", i>>[1] = "received"
        OBVIOUS
      <3> HIDE DEF e
      <3> QED  BY <2>2, <3>1 DEF LikesReturned
    <2> QED  BY <2>1, <2>3, LikesStays
  <1> QED  BY <1>3, <1>4

LEMMA LikesStep == ASSUME TypeOK, Stored, LikesInv, Next PROVE LikesInv'
  <1>1. CASE Poll \/ PollEnds \/ PollFails
    BY <1>1, PollInv
  <1>2. CASE Answered
    BY <1>2, AnsweredLikes
  <1>3. ASSUME UNCHANGED <<likes, dropped, decisions>>, raced'["likes"] = raced["likes"] PROVE LikesInv'
    <2>1. LikesReturned' = LikesReturned
      BY <1>3 DEF LikesReturned
    <2> QED  BY <1>3, <2>1, LikesStays
  <1>4. CASE \E f \in Feeds : Refetch(f) \/ FetchNextPage(f) \/ ReadPage(f) \/ FetchFails(f) \/ FetchEnds(f)
    <2>1. UNCHANGED <<likes, dropped, decisions>>
      BY <1>4 DEF Refetch, FetchNextPage, ReadPage, FetchFails, FetchEnds, history
    <2>2. raced'["likes"] = raced["likes"]
      BY <1>4, FeedsAssumption DEF Refetch, FetchNextPage, ReadPage, FetchFails, FetchEnds, history,
         TypeOK, Lists
    <2> QED  BY <1>3, <2>1, <2>2
  <1>5. CASE OpenDeck \/ LeaveDeck \/ ReturnToDeck \/ SubmitDecision
             \/ \E direction \in Directions : StartSwipe(direction)
    <2>1. UNCHANGED <<likes, dropped, decisions, raced>>
      BY <1>5 DEF OpenDeck, LeaveDeck, ReturnToDeck, SubmitDecision, StartSwipe, history
    <2> QED  BY <1>3, <2>1
  <1>6. CASE Execute \/ ExecuteStops \/ ExecuteFails
    <2>1. UNCHANGED <<likes, dropped, decisions, raced>>
      BY <1>6 DEF Execute, ExecuteStops, ExecuteFails, caches, history
    <2> QED  BY <1>3, <2>1
  <1>7. CASE \E i \in Ids :
               \/ LikeFromSearch(i) \/ ReturnLike(i) \/ NewProfile(i) \/ LikedBy(i)
               \/ \E direction \in Directions : DecideElsewhere(direction, i)
    <2>1. UNCHANGED <<likes, dropped, decisions, raced>>
      BY <1>7 DEF LikeFromSearch, ReturnLike, NewProfile, LikedBy, DecideElsewhere, caches, history
    <2> QED  BY <1>3, <2>1
  <1> QED  BY <1>1, <1>2, <1>4, <1>5, <1>6, <1>7 DEF Next

-----------------------------------------------------------------------------
(* The deck                                                                *)

LEMMA DecidedGrows == decided \subseteq decided' => Decided \subseteq Decided'
  BY DEF Decided

\* What leaves the cards and their decisions alone.
LEMMA CardsStay ==
  ASSUME CardsInv, decided \subseteq decided', UNCHANGED <<dealt, reopened, decisions>>,
         deck'.cards = deck.cards
  PROVE  CardsInv'
  BY DecidedGrows DEF CardsInv, DeckDecisions

LEMMA SentStays ==
  ASSUME OneSent, DOMAIN actions' = DOMAIN actions, UNCHANGED <<dealt, reopened>>,
         \A k \in DOMAIN actions : actions'[k].origin = actions[k].origin /\ actions'[k].id = actions[k].id,
         deck'.cards = deck.cards, deck'.submitted = deck.submitted
  PROVE  OneSent'
  <1>1. Current' = Current
    BY DEF Current
  <1>2. \A k \in DOMAIN actions : Sent(k)' <=> Sent(k)
    BY DEF Sent
  <1> QED  BY <1>1, <1>2 DEF OneSent

LEMMA SameQueue ==
  ASSUME DeckInv, decided \subseteq decided', UNCHANGED <<actions, dealt, reopened, decisions>>,
         deck'.cards = deck.cards, deck'.submitted = deck.submitted
  PROVE  DeckInv'
  BY CardsStay, SentStays DEF DeckInv

LEMMA MarkDeck == ASSUME TypeOK, DeckInv, Execute \/ ExecuteStops \/ ExecuteFails PROVE DeckInv'
  <1>1. /\ DOMAIN actions' = DOMAIN actions
        /\ \A k \in DOMAIN actions : actions'[k].origin = actions[k].origin /\ actions'[k].id = actions[k].id
    BY MarkTypes, Marked
  <1>2. decided \subseteq decided' /\ UNCHANGED <<deck, dealt, reopened, decisions>>
    BY DEF Execute, ExecuteStops, ExecuteFails, caches, history, server
  <1> QED  BY <1>1, <1>2, CardsStay, SentStays DEF DeckInv

LEMMA StartDeck == ASSUME TypeOK, DeckInv, NEW i \in Ids, LikeFromSearch(i) \/ ReturnLike(i) PROVE DeckInv'
  <1>1. \E origin \in Origins :
          /\ Len(actions) < MaxActions /\ actions' = Append(actions, Action("like", i, origin))
          /\ origin \notin {"deck", "leftDeck"}
    BY DEF LikeFromSearch, ReturnLike, Origins
  <1>2. PICK origin \in Origins :
          /\ Len(actions) < MaxActions /\ actions' = Append(actions, Action("like", i, origin))
          /\ origin \notin {"deck", "leftDeck"}
    BY <1>1
  <1>3. UNCHANGED <<decided, deck, dealt, reopened, decisions>>
    BY DEF LikeFromSearch, ReturnLike, server, caches, history
  <1>4. /\ DOMAIN actions = 1..Len(actions) /\ Len(actions) \in Nat
        /\ DOMAIN actions' = 1..(Len(actions) + 1)
        /\ \A k \in 1..Len(actions) : actions'[k] = actions[k]
        /\ actions'[Len(actions) + 1] = Action("like", i, origin)
    BY <1>2, Started DEF Directions
  <1>5. \A k \in DOMAIN actions' : k \in DOMAIN actions \/ actions'[k].origin \notin {"deck", "leftDeck"}
    <2>1. \A k \in DOMAIN actions' : k \in DOMAIN actions \/ k = Len(actions) + 1
      BY <1>4
    <2>2. actions'[Len(actions) + 1].origin \notin {"deck", "leftDeck"}
      BY <1>2, <1>4 DEF Action
    <2> QED  BY <2>1, <2>2
  <1>6. \A k \in DOMAIN actions' : Sent(k)' => k \in DOMAIN actions /\ Sent(k)
    BY <1>3, <1>4, <1>5 DEF Sent
  <1>7. OneSent'
    <2>1. Current' = Current
      BY <1>3 DEF Current
    <2>2. \A k \in DOMAIN actions : actions'[k] = actions[k]
      BY <1>4
    <2> QED  BY <1>3, <1>5, <1>6, <2>1, <2>2 DEF DeckInv, OneSent
  <1> QED  BY <1>3, <1>7, CardsStay DEF DeckInv

LEMMA SubmitDeck == ASSUME TypeOK, DeckInv, SubmitDecision PROVE DeckInv'
  <1> DEFINE n == Len(actions) + 1
             a == Action(deck.leaving, Current, "deck")
  <1>1. /\ deck.cards # {} /\ ~deck.submitted /\ Len(actions) < MaxActions
        /\ actions' = Append(actions, a) /\ UNCHANGED <<decided, dealt, reopened, decisions>>
    BY DEF SubmitDecision, server, history
  <1>2. deck'.cards = deck.cards /\ deck'.submitted = TRUE /\ Current' = Current
    BY DEF SubmitDecision, TypeOK, Current
  <1>3. Current \in deck.cards /\ deck.leaving \in Directions /\ Current \in Ids
    BY <1>1, CurrentIs DEF SubmitDecision, TypeOK
  <1>4. /\ DOMAIN actions = 1..Len(actions) /\ Len(actions) \in Nat /\ DOMAIN actions' = 1..n
        /\ \A k \in 1..Len(actions) : actions'[k] = actions[k]
        /\ actions'[n] = a
    BY <1>1, <1>3, Started DEF Origins
  <1>5. /\ \A k \in DOMAIN actions' : k \in DOMAIN actions \/ k = n
        /\ \A k \in DOMAIN actions : actions'[k] = actions[k]
    BY <1>4
  <1>6. a.origin = "deck" /\ a.id = Current
    BY DEF Action
  <1>7. \A k \in DOMAIN actions : ~Sent(k)
    BY <1>1 DEF DeckInv, OneSent
  <1> HIDE DEF n, a
  <1>8. \A k \in DOMAIN actions' : Sent(k)' => k = n
    BY <1>1, <1>5, <1>7 DEF Sent
  <1>9. OneSent'
    <2> SUFFICES ASSUME NEW k \in DOMAIN actions'
                 PROVE /\ actions'[k].origin \in {"deck", "leftDeck"} => actions'[k].id \in dealt'
                       /\ actions'[k].origin = "leftDeck" => actions'[k].id \in reopened'
                       /\ Sent(k)' => deck'.cards # {} /\ actions'[k].id = Current' /\ deck'.submitted
                       /\ \A l \in DOMAIN actions' : Sent(k)' /\ Sent(l)' => k = l
      BY DEF OneSent
    <2>1. CASE k \in DOMAIN actions
      BY <1>1, <1>5, <1>7, <1>8, <2>1 DEF DeckInv, OneSent, Sent
    <2>2. CASE k = n
      BY <1>1, <1>2, <1>3, <1>4, <1>6, <1>8, <2>2 DEF DeckInv, CardsInv
    <2> QED  BY <1>5, <2>1, <2>2
  <1> QED  BY <1>1, <1>2, <1>9, CardsStay DEF DeckInv

LEMMA OpenInv == ASSUME TypeOK, DeckInv, OpenDeck PROVE DeckInv'
  <1>1. /\ dealt = {} /\ dealt' = deck'.cards /\ UNCHANGED <<actions, reopened, decisions>>
    BY DEF OpenDeck, Closed
  <1>2. reopened' = {} /\ \A d \in decisions' : d[1] # "deck"
    BY <1>1 DEF DeckInv, CardsInv
  <1>3. \A k \in DOMAIN actions' : actions'[k].origin \notin {"deck", "leftDeck"}
    BY <1>1 DEF DeckInv, OneSent
  <1>4. OneSent'
    BY <1>3 DEF OneSent, Sent
  <1>5. CardsInv'
    BY <1>1, <1>2 DEF CardsInv, DeckDecisions
  <1> QED  BY <1>4, <1>5 DEF DeckInv

LEMMA LeaveInv == ASSUME TypeOK, DeckInv, LeaveDeck PROVE DeckInv'
  <1>1. /\ reopened' = reopened \union {a.id : a \in {b \in Range(actions) : b.origin = "deck"}}
        /\ UNCHANGED <<decided, dealt, decisions>> /\ deck'.cards = deck.cards
    BY DEF LeaveDeck, server, TypeOK
  <1>2. /\ DOMAIN actions' = DOMAIN actions
        /\ \A k \in DOMAIN actions :
             /\ actions[k] \in Range(actions) /\ actions'[k].id = actions[k].id
             /\ actions'[k].origin = IF actions[k].origin = "deck" THEN "leftDeck" ELSE actions[k].origin
    BY Renamed
  <1>3. \A a \in Range(actions) : a.origin = "deck" => a.id \in dealt
    <2>1. \A a \in Range(actions) : \E k \in DOMAIN actions : a = actions[k]
      BY Lists1 DEF TypeOK
    <2> QED  BY <2>1 DEF DeckInv, OneSent
  <1>4. reopened \subseteq reopened' /\ reopened' \subseteq dealt
    BY <1>1, <1>3 DEF DeckInv, CardsInv
  <1>5. OneSent'
    <2>1. \A k \in DOMAIN actions' : ~Sent(k)'
      BY <1>2 DEF Sent
    <2>2. \A k \in DOMAIN actions' : actions'[k].origin = "leftDeck" =>
             actions'[k].id \in reopened' /\ actions'[k].id \in dealt'
      <3> SUFFICES ASSUME NEW k \in DOMAIN actions, actions'[k].origin = "leftDeck"
                   PROVE  actions[k].id \in reopened'
        BY <1>1, <1>2, <1>4
      <3>1. CASE actions[k].origin = "deck"
        BY <1>1, <1>2, <3>1
      <3>2. CASE actions[k].origin # "deck"
        BY <1>2, <1>4, <3>2 DEF DeckInv, OneSent
      <3> QED  BY <3>1, <3>2
    <2>3. \A k \in DOMAIN actions' : actions'[k].origin # "deck"
      BY <1>2
    <2> QED  BY <2>1, <2>2, <2>3 DEF OneSent
  <1>6. CardsInv'
    <2>1. Decided' = Decided
      BY <1>1 DEF Decided
    <2> QED  BY <1>1, <1>4, <2>1 DEF DeckInv, CardsInv, DeckDecisions
  <1> QED  BY <1>5, <1>6 DEF DeckInv

LEMMA AnsweredDeck == ASSUME TypeOK, Stored, DeckInv, Answered PROVE DeckInv'
  <1> DEFINE a == Head(actions)
             e == <<a.origin, a.what, a.id>>
             ours == a.origin \in {"deck", "leftDeck"}
  <1>1. /\ a \in ServerAction /\ a.id \in Ids /\ a.origin \in Origins
        /\ a.state = "done" => <<a.what, a.id>> \in decided
    BY HeadRow DEF Answered, ServerAction, Stored
  <1>2. /\ UNCHANGED <<decided, dealt, reopened>> /\ Decided' = Decided
        /\ decisions' = IF a.state = "done" THEN decisions \union {e} ELSE decisions
        /\ deck' = IF ~ours THEN deck ELSE IF a.state = "done" THEN Removed(a) ELSE Refused(a)
    BY <1>1 DEF Answered, server, Decided, Origins
  <1>3. /\ a = actions[1] /\ 1 \in DOMAIN actions
        /\ DOMAIN actions' \subseteq Nat \ {0}
        /\ \A k \in DOMAIN actions' : k + 1 \in DOMAIN actions /\ actions'[k] = actions[k + 1]
    BY HeadTail DEF Answered, TypeOK
  <1>4. a.state = "done" => a.id \in Decided
    <2> SUFFICES ASSUME a.state = "done" PROVE a.id \in Decided
      OBVIOUS
    <2> DEFINE d == <<a.what, a.id>>
    <2>1. d \in decided /\ d[2] = a.id
      BY <1>1
    <2> QED  BY <2>1 DEF Decided
  <1>5. /\ deck'.cards = IF ours /\ a.state = "done" THEN deck.cards \ {a.id} ELSE deck.cards
        /\ deck.submitted /\ ~(ours /\ deck.cards # {} /\ Current = a.id) => deck'.submitted
    <2> HIDE DEF a
    <2> QED  BY <1>1, <1>2, RemovedIs
  <1>6. ours => a.id \in dealt /\ (a.id \in reopened \/ (a.origin = "deck" /\ Sent(1) /\ a.id = Current /\ deck.cards # {}))
    BY <1>3 DEF DeckInv, OneSent, Sent
  <1> HIDE DEF a, ours
  <1>7. \A k \in DOMAIN actions' : Sent(k)' => Sent(k + 1)
    BY <1>2, <1>3 DEF Sent
  \* Another decision that is being sent is not that of the card that was answered for.
  <1>8. ASSUME NEW k \in DOMAIN actions', Sent(k)'
        PROVE  /\ deck'.cards # {} /\ actions'[k].id = Current' /\ deck'.submitted
    <2>1. Sent(k + 1) /\ k + 1 \in DOMAIN actions /\ k + 1 # 1 /\ actions'[k] = actions[k + 1]
      BY <1>3, <1>7, <1>8
    <2>2. deck.cards # {} /\ actions[k + 1].id = Current /\ deck.submitted /\ Current \notin reopened
      BY <2>1 DEF DeckInv, OneSent, Sent
    <2>3. ~Sent(1)
      BY <1>3, <2>1 DEF DeckInv, OneSent
    <2>4. ours => a.id # Current
      BY <1>6, <2>2, <2>3
    <2>5. deck'.submitted
      BY <1>5, <2>2, <2>4
    <2>6. Current \in deck.cards /\ Current \in deck'.cards /\ deck'.cards \subseteq deck.cards
      BY <1>5, <2>2, <2>4, CurrentIs
    <2>7. Current' = Current
      <3>1. deck.cards \subseteq Ids
        BY DEF TypeOK
      <3>2. \A j \in deck.cards \ {Current} : Before("newest", j, Current)
        BY <2>2, <3>1, LastIs DEF Current
      <3>3. \A j \in deck'.cards \ {Current} : Before("newest", j, Current)
        BY <2>6, <3>2
      <3>4. Current = LastOf("newest", deck'.cards)
        BY <2>6, <3>1, <3>3, LastIs
      <3> QED  BY <3>4 DEF Current
    <2> QED  BY <2>1, <2>2, <2>5, <2>6, <2>7
  <1>9. OneSent'
    <2>1. ASSUME NEW k \in DOMAIN actions'
          PROVE  /\ actions'[k].origin \in {"deck", "leftDeck"} => actions'[k].id \in dealt'
                 /\ actions'[k].origin = "leftDeck" => actions'[k].id \in reopened'
                 /\ \A l \in DOMAIN actions' : Sent(k)' /\ Sent(l)' => k = l
      <3>1. k + 1 \in DOMAIN actions /\ actions'[k] = actions[k + 1]
        BY <1>3
      <3>2. \A l \in DOMAIN actions' : Sent(k)' /\ Sent(l)' => k + 1 = l + 1
        BY <1>3, <1>7 DEF DeckInv, OneSent
      <3> QED  BY <1>2, <1>3, <3>1, <3>2 DEF DeckInv, OneSent
    <2> QED  BY <1>8, <2>1 DEF OneSent
  <1>10. \A i : i # a.id \/ ~ours \/ a.state # "done" => DeckDecisions(i)' = DeckDecisions(i)
    <2>1. e[1] = a.origin /\ e[3] = a.id
      OBVIOUS
    <2> HIDE DEF e
    <2> QED  BY <1>2, <2>1 DEF DeckDecisions, ours
  <1>11. CardsInv'
    <2>1. deck'.cards \subseteq dealt' /\ reopened' \subseteq dealt' /\ dealt' \ deck'.cards \subseteq Decided'
      BY <1>2, <1>4, <1>5 DEF DeckInv, CardsInv
    <2>2. \A d \in decisions' : d[1] = "deck" => d[3] \in dealt'
      <3>1. e[1] = a.origin /\ e[3] = a.id
        OBVIOUS
      <3> HIDE DEF e
      <3> QED  BY <1>2, <1>6, <3>1 DEF DeckInv, CardsInv, ours
    <2>3. ASSUME NEW i \in dealt' \ reopened'
          PROVE  IF i \in deck'.cards THEN DeckDecisions(i)' = {} ELSE \E d : DeckDecisions(i)' = {d}
      <3>1. IF i \in deck.cards THEN DeckDecisions(i) = {} ELSE \E d : DeckDecisions(i) = {d}
        BY <1>2, <2>3 DEF DeckInv, CardsInv
      <3>2. CASE i # a.id \/ ~ours \/ a.state # "done"
        BY <1>5, <1>10, <3>1, <3>2
      <3>3. CASE i = a.id /\ ours /\ a.state = "done"
        <4>1. a.origin = "deck" /\ a.id \in deck.cards
          BY <1>2, <1>6, <2>3, <3>3, CurrentIs
        <4>2. DeckDecisions(i) = {} /\ i \notin deck'.cards
          BY <1>5, <3>1, <3>3, <4>1
        <4>3. e[1] = "deck" /\ e[3] = i
          BY <3>3, <4>1
        <4>4. DeckDecisions(i)' = {e}
          <5> HIDE DEF e
          <5> QED  BY <1>2, <3>3, <4>2, <4>3 DEF DeckDecisions
        <4> QED  BY <4>2, <4>4
      <3> QED  BY <3>2, <3>3
    <2> QED  BY <2>1, <2>2, <2>3 DEF CardsInv
  <1> QED  BY <1>9, <1>11 DEF DeckInv


LEMMA DeckStep == ASSUME TypeOK, Stored, DeckInv, Next PROVE DeckInv'
  <1>1. CASE OpenDeck \/ LeaveDeck \/ SubmitDecision
    BY <1>1, OpenInv, LeaveInv, SubmitDeck
  <1>2. CASE Execute \/ ExecuteStops \/ ExecuteFails \/ Answered
    BY <1>2, MarkDeck, AnsweredDeck
  <1>3. CASE \E i \in Ids : LikeFromSearch(i) \/ ReturnLike(i)
    BY <1>3, StartDeck
  <1>4. ASSUME UNCHANGED <<actions, dealt, reopened, decisions>>,
               deck'.cards = deck.cards, deck'.submitted = deck.submitted
        PROVE  DeckInv'
    BY <1>4, Grows, SameQueue
  <1>5. CASE ReturnToDeck \/ \E direction \in Directions : StartSwipe(direction)
    <2>1. UNCHANGED <<actions, dealt, reopened, decisions>>
      BY <1>5 DEF ReturnToDeck, StartSwipe, history
    <2>2. deck'.cards = deck.cards /\ deck'.submitted = deck.submitted
      BY <1>5 DEF ReturnToDeck, StartSwipe, TypeOK
    <2> QED  BY <1>4, <2>1, <2>2
  <1>6. CASE Poll \/ PollEnds \/ PollFails
             \/ \E f \in Feeds : Refetch(f) \/ FetchNextPage(f) \/ ReadPage(f) \/ FetchFails(f) \/ FetchEnds(f)
    <2>1. UNCHANGED <<actions, dealt, reopened, decisions, deck>>
      BY <1>6 DEF Poll, PollEnds, PollFails, Refetch, FetchNextPage, ReadPage, FetchFails, FetchEnds, history
    <2> QED  BY <1>4, <2>1
  <1>7. CASE \E i \in Ids : NewProfile(i) \/ LikedBy(i) \/ \E direction \in Directions : DecideElsewhere(direction, i)
    <2>1. UNCHANGED <<actions, dealt, reopened, decisions, deck>>
      BY <1>7 DEF NewProfile, LikedBy, DecideElsewhere, caches, history
    <2> QED  BY <1>4, <2>1
  <1> QED  BY <1>1, <1>2, <1>3, <1>5, <1>6, <1>7 DEF Next

-----------------------------------------------------------------------------
(* The invariant holds                                                     *)

LEMMA InitInv == Init => IInv
  <1> HAVE Init
  <1>1. TypeOK
    BY InitTypes
  <1>2. actions = <<>> /\ decisions = {} /\ DOMAIN actions = {} /\ Range(actions) = {}
    BY DEF Init, Range
  <1>3. Stored
    BY <1>2 DEF Stored
  <1>4. ASSUME NEW f \in Feeds PROVE FeedInv(f)
    <2>1. feed[f] = <<>> /\ begun[f] = {} /\ fetch[f] = NoFetch
      BY DEF Init
    <2>2. NoFetch.pages = <<>> /\ NoFetch.begun = {} /\ NoFetch.kind = "none"
      BY DEF NoFetch
    <2> QED  BY <2>1, <2>2, Nobody DEF FeedInv, GoesOn
  <1>5. DeckInv
    BY <1>2 DEF Init, DeckInv, OneSent, CardsInv, Closed
  <1>6. LikesInv
    BY <1>2, FS_EmptySet DEF Init, LikesInv, LikesReturned, NoPoll, TotalCountsTheList
  <1> QED  BY <1>1, <1>3, <1>4, <1>5, <1>6 DEF IInv

LEMMA StepInv == IInv /\ [Next]_vars => IInv'
  <1> SUFFICES ASSUME IInv, [Next]_vars PROVE IInv'
    OBVIOUS
  <1>1. TypeOK'
    BY TypesStep DEF IInv
  <1>2. CASE Next
    <2>1. Stored' /\ DeckInv' /\ LikesInv'
      BY <1>2, StoredStep, DeckStep, LikesStep DEF IInv
    <2>2. \A f \in Feeds : FeedInv(f)'
      BY <1>2, FeedStep DEF IInv
    <2> QED  BY <1>1, <2>1, <2>2 DEF IInv
  <1>3. CASE UNCHANGED vars
    <2>1. /\ decided' = decided /\ matches' = matches /\ likers' = likers /\ profiles' = profiles
          /\ UNCHANGED <<feed, fetch, deck, likes, actions, begun, raced, dealt, decisions, reopened, dropped>>
      BY <1>3 DEF vars, server, caches, history
    <2>2. Stored' /\ LikesInv'
      BY <2>1 DEF IInv, Stored, LikesInv, LikesReturned, TotalCountsTheList, likes
    <2>3. DeckInv'
      BY <2>1, SameQueue DEF IInv
    <2>4. ASSUME NEW f \in Feeds PROVE FeedInv(f)'
      <3>1. LikedFromSearch' = LikedFromSearch
        BY <2>1 DEF LikedFromSearch
      <3>2. FeedInv(f)
        BY DEF IInv
      <3> QED  BY <2>1, <3>1, <3>2, FeedStays
    <2> QED  BY <1>1, <2>2, <2>3, <2>4 DEF IInv
  <1> QED  BY <1>2, <1>3

\* Whatever is true of a feed, of the deck and of the likes received holds in every
\* state: the pages are in the order of the query and none is missing before the cursor
\* (profile_repository.go), the decision being sent is the top card's
\* (swipe-card-deck.tsx), and a like that was returned is a match (like_usecase.go).
THEOREM InvHolds == Spec => []IInv
  <1> QED  BY InitInv, StepInv, PTL DEF Spec

\* Types: the pages, the queue of server actions, the rows and the lists stay what they
\* are declared to be, whatever is started, answered or lost.
THEOREM PartnersTypes == Spec => []TypeOK
  <1>1. IInv => TypeOK
    BY DEF IInv
  <1> QED  BY <1>1, InvHolds, PTL

\* No profile is on two pages of a feed (profile_repository.go:70), for any size of a
\* page and any number of pages and users.
THEOREM ProfilesOnce == Spec => []NoProfileTwice
  <1>1. IInv => NoProfileTwice
    <2> SUFFICES ASSUME IInv, NEW f \in Feeds, NEW j \in DOMAIN feed[f], NEW k \in DOMAIN feed[f],
                        j # k, NEW x \in feed[f][j].ids \intersect feed[f][k].ids
                 PROVE  FALSE
      BY DEF NoProfileTwice
    <2>1. feed[f] \in Seq(Page)
      BY DEF IInv, TypeOK
    <2>2. x \in Nat /\ j \in Nat /\ k \in Nat
      <3>1. j \in Nat /\ k \in Nat
        BY <2>1, Lists1
      <3>2. x \in Ids
        BY <2>1, PagesOf
      <3> QED  BY <3>1, <3>2, IdsAssumption
    <2>3. InOrder(f, feed[f])
      BY DEF IInv, FeedInv, PagesInv
    <2>4. Before(f, x, x)
      BY <2>2, <2>3 DEF InOrder
    <2> QED  BY <2>2, <2>4, Orders
  <1> QED  BY <1>1, InvHolds, PTL

\* A feed without a next page lists everybody who had a profile when it was begun and on
\* whom the user has not decided (use-search-profiles.ts and profile_repository.go).
THEOREM PagingLosesNobody == Spec => []FeedComplete
  <1>1. IInv => FeedComplete
    BY DEF IInv, FeedInv, PagesInv, Covers, FeedComplete
  <1> QED  BY <1>1, InvHolds, PTL

\* A profile liked on the search page, or whose like was returned, is on no list of its
\* kind, unless a fetch that had read it was under way (search-profile-actions.tsx,
\* use-return-like.ts).
THEOREM LikedAreTakenOut == Spec => []LikedLeavesTheLists
  <1>1. IInv => LikedLeavesTheLists
    <2> SUFFICES ASSUME IInv PROVE LikedLeavesTheLists
      OBVIOUS
    <2>1. ASSUME NEW f \in Feeds, NEW i \in PageIds(feed[f]), <<"search", "like", i>> \in decisions
          PROVE  i \in raced[f]
      <3>1. i \in Ids
        BY PagesOf DEF IInv, TypeOK
      <3> QED  BY <2>1, <3>1 DEF IInv, FeedInv, PagesInv, LikedFromSearch
    <2>2. ASSUME NEW i \in pending.ids, <<"received", "like", i>> \in decisions
          PROVE  i \in raced["likes"]
      <3>1. i \in Ids
        BY DEF IInv, TypeOK
      <3> QED  BY <2>2, <3>1 DEF IInv, LikesInv, LikesReturned
    <2> QED  BY <2>1, <2>2 DEF LikedLeavesTheLists
  <1> QED  BY <1>1, InvHolds, PTL

\* The number shown beside the likes received is the length of their list
\* (new-matches.tsx:23), unless a poll had taken somebody out before the answer did.
THEOREM TotalIsTheLength == Spec => []TotalCountsTheList
  <1>1. IInv => TotalCountsTheList
    BY DEF IInv, LikesInv
  <1> QED  BY <1>1, InvHolds, PTL

\* A card leaves the deck with its decision stored, one decision for each card that is
\* gone and none for one that is there (recs-provider.tsx:79, swipe-card-deck.tsx),
\* unless the deck was left while one was being sent.
THEOREM DeckDecidesOnce == Spec => []OneDecisionPerCard
  <1>1. IInv => OneDecisionPerCard
    <2> SUFFICES ASSUME IInv PROVE OneDecisionPerCard
      OBVIOUS
    <2>1. dealt \ deck.cards \subseteq Decided
      BY DEF IInv, DeckInv, CardsInv
    <2>2. ASSUME NEW i \in dealt \ reopened
          PROVE  Cardinality(DeckDecisions(i)) = IF i \in deck.cards THEN 0 ELSE 1
      <3>1. IF i \in deck.cards THEN DeckDecisions(i) = {} ELSE \E d : DeckDecisions(i) = {d}
        BY DEF IInv, DeckInv, CardsInv
      <3> QED  BY <3>1, FS_EmptySet, FS_Singleton
    <2> QED  BY <2>1, <2>2 DEF OneDecisionPerCard, DeckDecisions
  <1> QED  BY <1>1, InvHolds, PTL

=============================================================================
