-------------------------- MODULE MessagingProofs --------------------------
(***************************************************************************)
(* Proofs about Messaging, for any number of matches and of requests.      *)
(*                                                                         *)
(* What a chat shows is followed from the INSERT to the cache: a message   *)
(* of a chat that nothing spoiled is either shown or on its way, never     *)
(* both (ChatsComplete), since ids are taken once (Progress) and a fetch   *)
(* that a message of the chat overlaps with spoils it (Overlaps).          *)
(***************************************************************************)
EXTENDS Messaging, FiniteSetTheorems, SequenceTheorems, WellFoundedInduction, TLAPS

USE RequestsAssumption

-----------------------------------------------------------------------------
(* Lists                                                                   *)

\* A list is as long as its domain says, and its elements are what ToSet collects.
LEMMA ListIs == ASSUME NEW S, NEW s \in Seq(S)
  PROVE  /\ Len(s) \in Nat /\ DOMAIN s = 1..Len(s) /\ s \in [1..Len(s) -> S]
         /\ \A i \in DOMAIN s : s[i] \in S /\ s[i] \in ToSet(s)
         /\ \A x \in ToSet(s) : \E i \in DOMAIN s : s[i] = x
         /\ ToSet(s) \subseteq S
  BY LenProperties, ElementOfSeq DEF ToSet

LEMMA EmptyList == ToSet(<<>>) = {} /\ IsInjective(<<>>)
  BY DEF ToSet, IsInjective

LEMMA AppendList == ASSUME NEW S, NEW s \in Seq(S), NEW x \in S
  PROVE  /\ Append(s, x) \in Seq(S) /\ ToSet(Append(s, x)) = ToSet(s) \union {x}
         /\ IsInjective(s) /\ x \notin ToSet(s) => IsInjective(Append(s, x))
  <1>1. /\ Append(s, x) \in Seq(S) /\ Len(s) \in Nat
        /\ DOMAIN s = 1..Len(s) /\ DOMAIN Append(s, x) = 1..(Len(s) + 1)
        /\ \A i \in 1..Len(s) : Append(s, x)[i] = s[i]
        /\ Append(s, x)[Len(s) + 1] = x
    BY AppendProperties, LenProperties
  <1>2. ToSet(Append(s, x)) = ToSet(s) \union {x}
    <2>1. \A i \in 1..(Len(s) + 1) : i \in 1..Len(s) \/ i = Len(s) + 1
      BY <1>1
    <2>2. \A i \in 1..Len(s) : i \in 1..(Len(s) + 1)
      BY <1>1
    <2>3. Len(s) + 1 \in 1..(Len(s) + 1)
      BY <1>1
    <2> QED BY <1>1, <2>1, <2>2, <2>3 DEF ToSet
  <1>3. ASSUME IsInjective(s), x \notin ToSet(s) PROVE IsInjective(Append(s, x))
    <2>1. \A i \in 1..(Len(s) + 1) : i \in 1..Len(s) \/ i = Len(s) + 1
      BY <1>1
    <2>2. \A i \in 1..Len(s) : s[i] # x
      BY <1>1, <1>3 DEF ToSet
    <2> QED BY <1>1, <1>3, <2>1, <2>2 DEF IsInjective
  <1> QED BY <1>1, <1>2, <1>3

LEMMA TailList == ASSUME NEW S, NEW s \in Seq(S), s # <<>>
  PROVE  /\ Head(s) \in S /\ Tail(s) \in Seq(S)
         /\ Len(s) \in Nat \ {0} /\ Head(s) = s[1] /\ Len(Tail(s)) = Len(s) - 1
         /\ \A i \in 1..Len(Tail(s)) : Tail(s)[i] = s[i + 1]
         /\ ToSet(s) = {Head(s)} \union ToSet(Tail(s))
         /\ IsInjective(s) => IsInjective(Tail(s)) /\ Head(s) \notin ToSet(Tail(s))
  <1>1. /\ Head(s) \in S /\ Tail(s) \in Seq(S) /\ Len(s) \in Nat \ {0}
        /\ Head(s) = s[1] /\ DOMAIN s = 1..Len(s)
        /\ Len(Tail(s)) = Len(s) - 1 /\ DOMAIN Tail(s) = 1..(Len(s) - 1)
        /\ \A i \in 1..(Len(s) - 1) : Tail(s)[i] = s[i + 1]
    BY HeadTailProperties, LenProperties, EmptySeq
  <1>2. /\ \A i \in 1..(Len(s) - 1) : i + 1 \in 1..Len(s) /\ i + 1 # 1
        /\ \A i \in 1..Len(s) : i = 1 \/ \E j \in 1..(Len(s) - 1) : i = j + 1
        /\ 1 \in 1..Len(s)
    <2>1. \A i \in 1..Len(s) : i = 1 \/ (i - 1 \in 1..(Len(s) - 1) /\ i = (i - 1) + 1)
      BY <1>1
    <2> QED BY <1>1, <2>1
  <1>3. ToSet(s) = {Head(s)} \union ToSet(Tail(s))
    <2>1. ASSUME NEW i \in 1..Len(s) PROVE s[i] = Head(s) \/ s[i] \in ToSet(Tail(s))
      <3>1. CASE i = 1
        BY <1>1, <3>1
      <3>2. ASSUME NEW j \in 1..(Len(s) - 1), i = j + 1 PROVE s[i] \in ToSet(Tail(s))
        BY <1>1, <3>2 DEF ToSet
      <3> QED BY <1>2, <2>1, <3>1, <3>2
    <2>2. Head(s) \in ToSet(s)
      BY <1>1, <1>2 DEF ToSet
    <2>3. \A j \in 1..(Len(s) - 1) : Tail(s)[j] \in ToSet(s)
      BY <1>1, <1>2 DEF ToSet
    <2> QED BY <1>1, <2>1, <2>2, <2>3 DEF ToSet
  <1>4. ASSUME IsInjective(s) PROVE IsInjective(Tail(s)) /\ Head(s) \notin ToSet(Tail(s))
    <2>1. \A i, j \in 1..(Len(s) - 1) : i + 1 = j + 1 => i = j
      BY <1>1
    <2>2. IsInjective(Tail(s))
      BY <1>1, <1>2, <1>4, <2>1 DEF IsInjective
    <2>3. Head(s) \notin ToSet(Tail(s))
      BY <1>1, <1>2, <1>4 DEF IsInjective, ToSet
    <2> QED BY <2>2, <2>3
  <1> QED BY <1>1, <1>3, <1>4

LEMMA PrependList == ASSUME NEW S, NEW s \in Seq(S), NEW x \in S
  PROVE  /\ <<x>> \o s \in Seq(S) /\ ToSet(<<x>> \o s) = {x} \union ToSet(s)
         /\ IsInjective(s) /\ x \notin ToSet(s) => IsInjective(<<x>> \o s)
  <1> DEFINE t == <<x>> \o s
  <1>1. /\ t \in Seq(S) /\ Len(s) \in Nat /\ Len(t) = 1 + Len(s)
        /\ DOMAIN s = 1..Len(s) /\ DOMAIN t = 1..(1 + Len(s))
        /\ t[1] = x /\ \A i \in 1..Len(s) : t[i + 1] = s[i]
    <2>1. <<x>> \in Seq(S) /\ Len(<<x>>) = 1 /\ <<x>>[1] = x
      OBVIOUS
    <2>2. /\ t \in Seq(S) /\ Len(t) = 1 + Len(s)
          /\ \A i \in 1..(1 + Len(s)) : t[i] = IF i <= 1 THEN <<x>>[i] ELSE s[i - 1]
      BY <2>1, ConcatProperties
    <2>3. Len(s) \in Nat /\ DOMAIN s = 1..Len(s) /\ DOMAIN t = 1..Len(t)
      BY <2>2, LenProperties
    <2> HIDE DEF t
    <2>4. t[1] = x
      BY <2>1, <2>2, <2>3
    <2>5. ASSUME NEW i \in 1..Len(s) PROVE t[i + 1] = s[i]
      <3>1. i + 1 \in 1..(1 + Len(s)) /\ ~(i + 1 <= 1) /\ (i + 1) - 1 = i
        BY <2>3
      <3> QED  BY <2>2, <3>1
    <2> QED  BY <2>2, <2>3, <2>4, <2>5
  <1> HIDE DEF t
  <1>2. \A i \in 1..(1 + Len(s)) : i = 1 \/ \E j \in 1..Len(s) : i = j + 1
    <2>1. \A i \in 1..(1 + Len(s)) : i = 1 \/ (i - 1 \in 1..Len(s) /\ i = (i - 1) + 1)
      BY <1>1
    <2> QED  BY <2>1
  <1>3. \A j \in 1..Len(s) : j + 1 \in 1..(1 + Len(s)) /\ j + 1 # 1
    BY <1>1
  <1>4. 1 \in 1..(1 + Len(s))
    BY <1>1
  <1>5. ToSet(t) = {x} \union ToSet(s)
    <2>1. ASSUME NEW i \in 1..(1 + Len(s)) PROVE t[i] \in {x} \union ToSet(s)
      <3>1. ASSUME NEW j \in 1..Len(s), i = j + 1 PROVE t[i] \in ToSet(s)
        BY <1>1, <3>1 DEF ToSet
      <3> QED  BY <1>1, <1>2, <2>1, <3>1
    <2>2. x \in ToSet(t)
      BY <1>1, <1>4 DEF ToSet
    <2>3. \A j \in 1..Len(s) : s[j] \in ToSet(t)
      BY <1>1, <1>3 DEF ToSet
    <2> QED  BY <1>1, <2>1, <2>2, <2>3 DEF ToSet
  <1>6. ASSUME IsInjective(s), x \notin ToSet(s) PROVE IsInjective(t)
    <2>1. \A i \in 1..Len(s) : s[i] # x
      BY <1>1, <1>6 DEF ToSet
    <2>2. \A i, j \in 1..Len(s) : s[i] = s[j] => i = j
      BY <1>1, <1>6 DEF IsInjective
    <2>3. ASSUME NEW a \in 1..(1 + Len(s)), NEW b \in 1..(1 + Len(s)), t[a] = t[b] PROVE a = b
      <3>1. CASE a = 1 \/ b = 1
        BY <1>1, <1>2, <2>1, <2>3, <3>1
      <3>2. ASSUME NEW i \in 1..Len(s), NEW j \in 1..Len(s), a = i + 1, b = j + 1 PROVE a = b
        BY <1>1, <2>2, <2>3, <3>2
      <3> QED  BY <1>2, <3>1, <3>2
    <2> QED  BY <1>1, <2>3 DEF IsInjective
  <1> QED  BY <1>1, <1>5, <1>6 DEF t

-----------------------------------------------------------------------------
(* What is listed the greatest first                                       *)

LEMMA Least == ASSUME NEW T, T \subseteq Nat, T # {} PROVE \E m \in T : \A k \in T : m <= k
  <1>1. PICK m \in T : \A k \in T : ~(<<k, m>> \in OpToRel(<, Nat))
    BY NatLessThanWellFounded, WFMin
  <1>2. \A k \in T : ~(k < m)
    BY <1>1 DEF OpToRel
  <1> QED  BY <1>2

\* A smallest set without a greatest number would have one, by that of the rest.
LEMMA Greatest == ASSUME NEW S, S \subseteq Nat, IsFiniteSet(S), S # {}
  PROVE  \E m \in S : \A k \in S : k <= m
  <1> DEFINE U == {T \in SUBSET S : T # {} /\ ~\E m \in T : \A k \in T : k <= m}
             N == {Cardinality(T) : T \in U}
  <1>1. \A T \in U : IsFiniteSet(T) /\ Cardinality(T) \in Nat
    BY FS_Subset, FS_CardinalityType
  <1>2. SUFFICES ASSUME U # {} PROVE FALSE
    OBVIOUS
  <1>3. N \subseteq Nat /\ N # {}
    BY <1>1, <1>2
  <1>4. PICK n \in N : \A k \in N : n <= k
    BY <1>3, Least
  <1>5. PICK T \in U : n = Cardinality(T)
    BY <1>4
  <1>6. PICK x \in T : TRUE
    OBVIOUS
  <1>7. /\ IsFiniteSet(T) /\ T \subseteq Nat
        /\ Cardinality(T \ {x}) = Cardinality(T) - 1 /\ Cardinality(T) \in Nat
    BY <1>1, <1>6, FS_RemoveElement
  <1>8. T \ {x} \notin U
    <2> SUFFICES ASSUME T \ {x} \in U PROVE FALSE
      OBVIOUS
    <2>1. Cardinality(T \ {x}) \in N
      OBVIOUS
    <2>2. n <= Cardinality(T \ {x})
      BY <1>4, <2>1
    <2> QED  BY <1>5, <1>7, <2>2
  <1>9. T \ {x} # {}
    BY <1>6, <1>7
  <1>10. PICK m \in T \ {x} : \A k \in T \ {x} : k <= m
    BY <1>8, <1>9
  <1> QED  BY <1>6, <1>7, <1>10

\* A smallest set that cannot be listed so could be, by the list of all but its least.
LEMMA DescendingIs == ASSUME NEW S, S \subseteq Nat, IsFiniteSet(S)
  PROVE  /\ Descending(S) \in Seq(S)
         /\ ToSet(Descending(S)) = S /\ IsInjective(Descending(S))
         /\ \A i, j \in DOMAIN Descending(S) : i < j => Descending(S)[i] > Descending(S)[j]
  <1> DEFINE Listings(T) == {s \in [1..Cardinality(T) -> T] :
                             ToSet(s) = T /\ \A i, j \in DOMAIN s : i < j => s[i] > s[j]}
             U == {T \in SUBSET S : Listings(T) = {}}
             N == {Cardinality(T) : T \in U}
  <1>1. \A T \in SUBSET S : IsFiniteSet(T) /\ Cardinality(T) \in Nat
    BY FS_Subset, FS_CardinalityType
  <1>2. Listings(S) # {}
    <2> SUFFICES ASSUME U # {} PROVE FALSE
      OBVIOUS
    <2>1. N \subseteq Nat /\ N # {}
      BY <1>1
    <2>2. PICK n \in N : \A k \in N : n <= k
      BY <2>1, Least
    <2>3. PICK T \in U : n = Cardinality(T)
      BY <2>2
    <2>4. IsFiniteSet(T) /\ T \subseteq Nat /\ n \in Nat
      BY <1>1, <2>1, <2>3
    <2>5. T # {}
      <3> SUFFICES ASSUME T = {} PROVE FALSE
        OBVIOUS
      <3>1. n = 0
        BY <2>3, FS_EmptySet
      <3> DEFINE e == [i \in 1..0 |-> 0]
      <3>2. e \in [1..Cardinality(T) -> T] /\ DOMAIN e = {}
        BY <2>3, <3>1
      <3>3. ToSet(e) = T
        BY <3>2 DEF ToSet
      <3> HIDE DEF e
      <3>4. e \in Listings(T)
        BY <3>2, <3>3
      <3> QED  BY <3>4
    <2>6. PICK x \in T : \A k \in T : x <= k
      BY <2>4, <2>5, Least
    <2> DEFINE R == T \ {x}
    <2>7. Cardinality(R) = n - 1 /\ n - 1 \in Nat
      <3>1. Cardinality(R) = n - 1
        BY <2>3, <2>4, FS_RemoveElement
      <3>2. Cardinality(R) \in Nat
        BY <1>1
      <3> QED  BY <3>1, <3>2
    <2>8. Listings(R) # {}
      <3> SUFFICES ASSUME R \in U PROVE FALSE
        OBVIOUS
      <3>1. Cardinality(R) \in N
        OBVIOUS
      <3>2. n <= n - 1
        BY <2>2, <2>7, <3>1
      <3> QED  BY <2>4, <3>2
    <2>9. PICK s \in Listings(R) : TRUE
      BY <2>8
    <2>10. /\ s \in [1..(n - 1) -> T \ {x}] /\ DOMAIN s = 1..(n - 1) /\ ToSet(s) = T \ {x}
           /\ \A i, j \in 1..(n - 1) : i < j => s[i] > s[j]
      BY <2>7, <2>9
    <2> DEFINE t == [i \in 1..n |-> IF i = n THEN x ELSE s[i]]
    <2> HIDE DEF R
    <2>11. \A i \in 1..n : i = n \/ i \in 1..(n - 1)
      BY <2>4
    <2>12. /\ t \in [1..n -> T] /\ DOMAIN t = 1..n /\ t[n] = x
           /\ \A i \in 1..(n - 1) : t[i] = s[i] /\ i \in 1..n
      <3>1. n \in 1..n
        BY <2>4, <2>7
      <3>2. \A i \in 1..(n - 1) : i \in 1..n /\ i # n
        BY <2>4
      <3> QED  BY <2>6, <2>10, <2>11, <3>1, <3>2
    <2>13. n \in 1..n
      BY <2>4, <2>7
    <2> HIDE DEF t
    <2>14. ToSet(t) = T
      BY <2>6, <2>10, <2>11, <2>12, <2>13 DEF ToSet
    <2>15. ASSUME NEW i \in 1..n, NEW j \in 1..n, i < j PROVE t[i] > t[j]
      <3>1. i \in 1..(n - 1)
        BY <2>4, <2>15
      <3>2. s[i] \in T \ {x} /\ t[i] = s[i]
        BY <2>10, <2>12, <3>1
      <3>3. CASE j = n
        <4>1. s[i] \in Nat /\ x \in Nat /\ x <= s[i] /\ s[i] # x
          BY <2>4, <2>6, <3>2
        <4> QED  BY <2>12, <3>2, <3>3, <4>1
      <3>4. CASE j \in 1..(n - 1)
        BY <2>10, <2>12, <2>15, <3>1, <3>2, <3>4
      <3> QED  BY <2>11, <3>3, <3>4
    <2>16. t \in Listings(T)
      BY <2>3, <2>12, <2>14, <2>15
    <2> QED  BY <2>16
  <1> DEFINE d == Descending(S)
  <1>3. d \in Listings(S)
    BY <1>2 DEF Descending
  <1>4. /\ d \in [1..Cardinality(S) -> S] /\ DOMAIN d = 1..Cardinality(S) /\ ToSet(d) = S
        /\ \A i, j \in DOMAIN d : i < j => d[i] > d[j]
        /\ Cardinality(S) \in Nat
    BY <1>1, <1>3
  <1> HIDE DEF d
  <1>5. d \in Seq(S)
    BY <1>4, SeqDef
  <1>6. IsInjective(d)
    <2>1. ASSUME NEW i \in DOMAIN d, NEW j \in DOMAIN d, d[i] = d[j] PROVE i = j
      <3>1. i \in Nat /\ j \in Nat /\ d[i] \in S
        BY <1>4, <2>1
      <3>2. \A k \in Nat : ~(k > k)
        OBVIOUS
      <3>3. ~(i < j) /\ ~(j < i)
        BY <1>4, <2>1, <3>1, <3>2
      <3> QED  BY <3>1, <3>3
    <2> QED  BY <2>1 DEF IsInjective
  <1> QED  BY <1>4, <1>5, <1>6 DEF d

LEMMA ReverseIs == ASSUME NEW S, NEW s \in Seq(S)
  PROVE  /\ Reverse(s) \in Seq(S) /\ ToSet(Reverse(s)) \subseteq ToSet(s)
         /\ IsInjective(s) => IsInjective(Reverse(s))
  <1> DEFINE t == Reverse(s)
             n == Len(s)
  <1>1. n \in Nat /\ DOMAIN s = 1..n /\ \A i \in 1..n : s[i] \in S
    BY ListIs
  <1>2. t = [i \in 1..n |-> s[(n - i) + 1]]
    BY DEF Reverse
  <1> HIDE DEF t, n
  <1>3. \A i \in 1..n : (n - i) + 1 \in 1..n
    BY <1>1
  <1>4. t \in [1..n -> S] /\ DOMAIN t = 1..n /\ \A i \in 1..n : t[i] = s[(n - i) + 1]
    BY <1>1, <1>2, <1>3
  <1>5. t \in Seq(S)
    BY <1>1, <1>4, SeqDef
  <1>6. ToSet(t) \subseteq ToSet(s)
    BY <1>1, <1>3, <1>4 DEF ToSet
  <1>7. ASSUME IsInjective(s) PROVE IsInjective(t)
    <2>1. ASSUME NEW i \in 1..n, NEW j \in 1..n, t[i] = t[j] PROVE i = j
      <3>1. (n - i) + 1 = (n - j) + 1
        BY <1>1, <1>3, <1>4, <1>7, <2>1 DEF IsInjective
      <3> QED  BY <1>1, <3>1
    <2> QED  BY <1>4, <2>1 DEF IsInjective
  <1> QED  BY <1>5, <1>6, <1>7 DEF t

-----------------------------------------------------------------------------
(* What the caches are filled with                                         *)

\* What a fetch may read: rows that are told by their ids, of which n is the next.
Numbered(seen, n) ==
    /\ seen \subseteq Message /\ \A r \in seen : r.id < n
    /\ \A r, s \in seen : r.id = s.id => r = s

IdsOf(seen, m) == {r.id : r \in {s \in seen : s.match = m}}

LEMMA IdsAreFinite == ASSUME NEW n \in Nat, NEW seen, Numbered(seen, n), NEW T, T \subseteq seen
  PROVE  LET ids == {r.id : r \in T} IN ids \subseteq Nat /\ IsFiniteSet(ids)
  <1> DEFINE ids == {r.id : r \in T}
  <1>1. ids \subseteq Nat /\ \A i \in ids : i <= n
    BY DEF Numbered, Message
  <1> HIDE DEF ids
  <1>2. IsFiniteSet(ids)
    BY <1>1, FS_BoundedSetOfNaturals
  <1> QED  BY <1>1, <1>2 DEF ids

\* A history lists messages that were read of the match, once each, and has no gap.
LEMMA HistoryIs == ASSUME NEW n \in Nat, NEW seen, Numbered(seen, n), NEW m
  PROVE  /\ HistoryFrom(m, seen) \in Seq(Nat) /\ IsInjective(HistoryFrom(m, seen))
         /\ ToSet(HistoryFrom(m, seen)) \subseteq IdsOf(seen, m)
         /\ \A i \in IdsOf(seen, m) \ ToSet(HistoryFrom(m, seen)) :
               /\ Len(HistoryFrom(m, seen)) >= Limit
               /\ \A j \in ToSet(HistoryFrom(m, seen)) : i < j
  <1> DEFINE T == {s \in seen : s.match = m}
             ids == {r.id : r \in T}
  <1>1. T \subseteq seen
    OBVIOUS
  <1> HIDE DEF T
  <1>2. ids \subseteq Nat /\ IsFiniteSet(ids)
    BY <1>1, IdsAreFinite
  <1> DEFINE all == Descending(ids)
             list == HistoryFrom(m, seen)
  <1>3. list = (IF Len(all) <= Limit THEN all ELSE SubSeq(all, 1, Limit)) /\ ids = IdsOf(seen, m)
    BY DEF HistoryFrom, IdsOf, T
  <1> HIDE DEF ids
  <1>4. /\ all \in Seq(ids) /\ ToSet(all) = ids /\ IsInjective(all)
        /\ \A i, j \in DOMAIN all : i < j => all[i] > all[j]
    BY <1>2, DescendingIs
  <1>5. all \in Seq(Nat)
    BY <1>2, <1>4, SeqMonotonic
  <1> HIDE DEF all, list
  <1>6. Len(all) \in Nat /\ DOMAIN all = 1..Len(all) /\ \A i \in 1..Len(all) : all[i] \in ids
    BY <1>4, ListIs
  <1>7. CASE Len(all) <= Limit
    BY <1>3, <1>4, <1>5, <1>7 DEF list
  <1>8. CASE Len(all) > Limit
    <2>1. list = SubSeq(all, 1, Limit) /\ \A i \in 1..Limit : i \in 1..Len(all)
      BY <1>3, <1>6, <1>8, LimitAssumption
    <2>2. /\ list \in Seq(Nat) /\ Len(list) = Limit
          /\ \A i \in 1..Limit : list[i] = all[i]
      <3>1. 1 \in 1..(Len(all) + 1) /\ Limit \in 0..Len(all)
        BY <1>6, <1>8, LimitAssumption
      <3>2. /\ list \in Seq(Nat) /\ Len(list) = Limit - 1 + 1
            /\ \A i \in 1..(Limit - 1 + 1) : list[i] = all[1 + i - 1]
        BY <1>5, <2>1, <3>1, SubSeqProperties
      <3> QED  BY <3>2, LimitAssumption
    <2>3. DOMAIN list = 1..Limit
      BY <2>2, ListIs, LimitAssumption
    <2>4. IsInjective(list) /\ ToSet(list) \subseteq ids
      <3>1. ASSUME NEW k \in 1..Limit, NEW l \in 1..Limit, list[k] = list[l] PROVE k = l
        <4>1. all[k] = all[l] /\ k \in DOMAIN all /\ l \in DOMAIN all
          BY <1>6, <2>1, <2>2, <3>1
        <4> QED  BY <1>4, <4>1 DEF IsInjective
      <3>2. \A k \in 1..Limit : list[k] \in ids
        BY <1>6, <2>1, <2>2
      <3> QED  BY <2>3, <3>1, <3>2 DEF IsInjective, ToSet
    <2>5. ASSUME NEW i \in ids \ ToSet(list), NEW j \in ToSet(list) PROVE i < j
      <3>1. PICK k \in 1..Len(all) : all[k] = i
        BY <1>4, <1>6 DEF ToSet
      <3>2. PICK l \in 1..Limit : list[l] = j
        BY <2>3 DEF ToSet
      <3>3. k > Limit
        BY <1>6, <2>2, <2>3, <2>5, <3>1, LimitAssumption DEF ToSet
      <3>4. l \in 1..Len(all) /\ l < k /\ all[l] = j
        BY <1>6, <2>1, <2>2, <3>1, <3>2, <3>3, LimitAssumption
      <3>5. all[l] > all[k] /\ i \in Nat /\ j \in Nat
        BY <1>2, <1>4, <1>6, <2>4, <2>5, <3>1, <3>4
      <3> QED  BY <3>1, <3>4, <3>5
    <2>6. Len(list) >= Limit
      BY <2>2, LimitAssumption
    <2> QED  BY <1>3, <2>2, <2>4, <2>5, <2>6 DEF list
  <1> QED  BY <1>6, <1>7, <1>8, LimitAssumption

LEMMA NewestIs == ASSUME NEW n \in Nat, NEW seen, Numbered(seen, n), NEW m,
                         \E r \in seen : r.match = m
  PROVE  Newest(seen, m) \in seen /\ Newest(seen, m).match = m
  <1> DEFINE T == {s \in seen : s.match = m}
             ids == {r.id : r \in T}
  <1>1. T \subseteq seen /\ T # {} /\ \A r \in seen : r \in T <=> r.match = m
    OBVIOUS
  <1> HIDE DEF T
  <1>2. ids \subseteq Nat /\ IsFiniteSet(ids)
    BY <1>1, IdsAreFinite
  <1>3. ids # {} /\ \A r \in T : r.id \in ids
    BY <1>1
  <1>4. \A i \in ids : \E r \in T : r.id = i
    OBVIOUS
  <1> HIDE DEF ids
  <1>5. PICK i \in ids : \A k \in ids : k <= i
    BY <1>2, <1>3, Greatest
  <1>6. PICK r \in T : r.id = i
    BY <1>4
  <1>7. \A s \in T : s.id <= r.id
    BY <1>3, <1>5, <1>6
  <1>8. r \in seen /\ r.match = m /\ \A s \in seen : s.match = m => s.id <= r.id
    BY <1>1, <1>6, <1>7
  <1> QED  BY <1>8 DEF Newest

Conversation == [match : Matches, last : Nat]

\* No match has two entries.
Apart(list) == \A i, j \in DOMAIN list : list[i].match = list[j].match => i = j

\* The list of conversations has an entry for a match, its newest message.
LEMMA MessagedIs == ASSUME NEW n \in Nat, NEW seen, Numbered(seen, n)
  PROVE  /\ MessagedFrom(seen) \in Seq(Conversation) /\ Apart(MessagedFrom(seen))
         /\ \A c \in ToSet(MessagedFrom(seen)) : c.last \in IdsOf(seen, c.match)
  <1> DEFINE M == Matches \ UnmessagedFrom(seen)
             newest == {Newest(seen, m) : m \in M}
             ids == {r.id : r \in newest}
             last == Descending(ids)
             row(i) == CHOOSE r \in newest : r.id = i
             match(i) == row(i).match
             list == [k \in DOMAIN last |-> [match |-> match(last[k]), last |-> last[k]]]
  <1>1. \A m \in M : Newest(seen, m) \in seen /\ Newest(seen, m).match = m
    BY NewestIs DEF UnmessagedFrom
  <1>2. newest \subseteq seen /\ \A r \in newest : r.match \in Matches /\ r = Newest(seen, r.match)
    BY <1>1
  <1>3. MessagedFrom(seen) = list
    BY DEF MessagedFrom
  <1> HIDE DEF M, newest
  <1>4. ids \subseteq Nat /\ IsFiniteSet(ids)
    BY <1>2, IdsAreFinite
  <1>5. \A i \in ids : row(i) \in newest /\ row(i).id = i
    OBVIOUS
  <1> HIDE DEF row, ids
  <1>6. last \in Seq(ids) /\ ToSet(last) = ids /\ IsInjective(last)
    BY <1>4, DescendingIs
  <1> HIDE DEF last
  <1>7. Len(last) \in Nat /\ DOMAIN last = 1..Len(last) /\ \A k \in 1..Len(last) : last[k] \in ids
    BY <1>6, ListIs
  <1>8. ASSUME NEW k \in 1..Len(last)
        PROVE  /\ match(last[k]) \in Matches /\ last[k] \in Nat
               /\ last[k] = Newest(seen, match(last[k])).id
               /\ last[k] \in IdsOf(seen, match(last[k]))
    <2>1. /\ row(last[k]) \in newest /\ row(last[k]).id = last[k] /\ last[k] \in Nat
      BY <1>4, <1>5, <1>7
    <2> DEFINE r == row(last[k])
    <2>2. r \in seen /\ r.match \in Matches /\ r = Newest(seen, r.match)
      BY <1>2, <2>1
    <2> QED  BY <2>1, <2>2 DEF IdsOf
  <1> HIDE DEF match
  <1>9. /\ list \in [1..Len(last) -> Conversation] /\ DOMAIN list = 1..Len(last)
        /\ \A k \in 1..Len(last) : list[k].match = match(last[k]) /\ list[k].last = last[k]
    BY <1>7, <1>8 DEF Conversation
  <1> HIDE DEF list
  <1>10. list \in Seq(Conversation)
    BY <1>7, <1>9, SeqDef
  <1>11. Apart(list)
    <2>1. ASSUME NEW i \in 1..Len(last), NEW j \in 1..Len(last), list[i].match = list[j].match
          PROVE  i = j
      <3>1. match(last[i]) = match(last[j])
        BY <1>9, <2>1
      <3>2. last[i] = last[j]
        BY <1>8, <3>1
      <3> QED  BY <1>6, <1>7, <3>2 DEF IsInjective
    <2> QED  BY <1>9, <2>1 DEF Apart
  <1>12. \A c \in ToSet(list) : c.last \in IdsOf(seen, c.match)
    BY <1>8, <1>9 DEF ToSet
  <1> QED  BY <1>3, <1>10, <1>11, <1>12

\* filter leaves only entries that were there, none of them of the match.
LEMMA WithoutIs == ASSUME NEW list \in Seq(Conversation), NEW m
  PROVE  /\ Without(list, m) \in Seq(Conversation)
         /\ \A c \in ToSet(Without(list, m)) : c \in ToSet(list) /\ c.match # m
         /\ Apart(list) => Apart(Without(list, m))
  <1> DEFINE K == {i \in DOMAIN list : list[i].match # m}
             kept == Reverse(Descending(K))
             t == [k \in DOMAIN kept |-> list[kept[k]]]
  <1>1. /\ Len(list) \in Nat /\ DOMAIN list = 1..Len(list)
        /\ \A i \in DOMAIN list : list[i] \in Conversation /\ list[i] \in ToSet(list)
    BY ListIs
  <1>2. K \subseteq Nat /\ IsFiniteSet(K)
    <2>1. K \subseteq 1..Len(list) /\ IsFiniteSet(1..Len(list))
      BY <1>1, FS_Interval
    <2> QED  BY <2>1, FS_Subset
  <1>3. K \subseteq DOMAIN list /\ \A i \in K : list[i].match # m
    OBVIOUS
  <1>4. Without(list, m) = t
    BY DEF Without
  <1> HIDE DEF K
  <1>5. Descending(K) \in Seq(K) /\ IsInjective(Descending(K))
    BY <1>2, DescendingIs
  <1>6. kept \in Seq(K) /\ IsInjective(kept)
    BY <1>5, ReverseIs
  <1> HIDE DEF kept
  <1>7. Len(kept) \in Nat /\ DOMAIN kept = 1..Len(kept) /\ \A k \in 1..Len(kept) : kept[k] \in K
    BY <1>6, ListIs
  <1>8. /\ t \in [1..Len(kept) -> Conversation] /\ DOMAIN t = 1..Len(kept)
        /\ \A k \in 1..Len(kept) : t[k] = list[kept[k]]
    BY <1>1, <1>3, <1>7
  <1> HIDE DEF t
  <1>9. t \in Seq(Conversation)
    BY <1>7, <1>8, SeqDef
  <1>10. \A c \in ToSet(t) : c \in ToSet(list) /\ c.match # m
    BY <1>1, <1>3, <1>7, <1>8 DEF ToSet
  <1>11. Apart(list) => Apart(t)
    <2>1. ASSUME Apart(list), NEW i \in 1..Len(kept), NEW j \in 1..Len(kept), t[i].match = t[j].match
          PROVE  i = j
      <3>1. kept[i] = kept[j]
        BY <1>3, <1>7, <1>8, <2>1 DEF Apart
      <3> QED  BY <1>6, <1>7, <3>1 DEF IsInjective
    <2> QED  BY <1>8, <2>1 DEF Apart
  <1> QED  BY <1>4, <1>9, <1>10, <1>11

-----------------------------------------------------------------------------
(* The invariant                                                           *)

\* A request has an id of its own from the INSERT until its message is on its way to me,
\* or its answer is in my caches.
Carrying == {"inserting", "stored", "published"}

\* Ids are taken once; what is stored can be published and answered.
Progress == \A r \in Requests :
    /\ req[r].state \in UnderWay => req[r].match \in Matches /\ req[r].from \in Participants
    /\ req[r].state = "inserting" => req[r].id < nextId /\ \A s \in rows : s.id # req[r].id
    /\ req[r].state \in {"stored", "published", "refetching"} => Row(r) \in rows
    /\ \A s \in Requests :
          req[r].state \in Carrying /\ req[s].state \in Carrying /\ req[r].id = req[s].id => r = s

\* A message is pushed once.
Pushes ==
    /\ ToSet(wire) \subseteq rows /\ IsInjective(wire)
    /\ \A r \in Requests : req[r].state \in Carrying => \A p \in ToSet(wire) : req[r].id # p.id

Delivery == Numbered(rows, nextId) /\ Progress /\ Pushes

\* A fetch that a message overlaps with has spoiled the chat; of any other chat it read
\* what there is.
Overlaps ==
    /\ \A q \in Queries : fetch[q].seen \subseteq rows
    /\ \A m \in Matches \ spoiled :
          /\ Moving(m) => m \in loaded /\ ~InFlight(m)
          /\ fetch[m].state = "answered" =>
                {s \in fetch[m].seen : s.match = m} = {s \in rows : s.match = m}

Shown ==
    /\ \A m \in Matches : ToSet(history[m]) \subseteq Ids(m)
    /\ Apart(messaged) /\ \A c \in ToSet(messaged) : c.last \in Ids(c.match)

\* The messages of m that are on their way to its history.
Coming(m) ==
    {p.id : p \in {p \in ToSet(wire) : p.match = m}} \union
    {req[r].id : r \in {r \in Requests : req[r].match = m /\ req[r].state \in {"stored", "published"}}}

\* The messages of m that its history leaves out.
LeftOut(m) == Ids(m) \ (ToSet(history[m]) \union Coming(m))

\* Message i is older than what is shown of m, on its way, or going to be stored.
IsOlder(i, m) ==
    /\ \A j \in ToSet(history[m]) \union Coming(m) : i < j
    /\ \A r \in Requests : req[r].match = m /\ req[r].state = "inserting" => i < req[r].id

Complete(m) ==
    /\ IsInjective(history[m]) /\ ToSet(history[m]) \intersect Coming(m) = {}
    /\ LeftOut(m) # {} => Len(history[m]) >= Limit
    /\ \A i \in LeftOut(m) : IsOlder(i, m)

ChatsComplete == \A m \in Matches : m \in loaded /\ m \notin spoiled => Complete(m)

IInv == TypeOK /\ Delivery /\ Overlaps /\ Shown /\ ChatsComplete

-----------------------------------------------------------------------------
(* Requests and pushes                                                     *)

Fields == [state : States, match : Matches \union {NoMatch}, from : Users, id : Nat]

\* What a step of one request leaves alone.
Only(r) == \A s \in Requests \ {r} : req'[s] = req[s]

LEMMA SetStateIs == ASSUME TypeOK, NEW r \in Requests, NEW state \in States, SetState(r, state)
  PROVE  /\ req' \in [Requests -> Fields] /\ Only(r)
         /\ req'[r].state = state /\ req'[r].match = req[r].match
         /\ req'[r].from = req[r].from /\ req'[r].id = req[r].id
  BY DEF TypeOK, SetState, Fields, Only

LEMMA EndIs == ASSUME TypeOK, NEW r \in Requests, End(r)
  PROVE  req' \in [Requests -> Fields] /\ Only(r) /\ req'[r] = Ended
  <1>1. Ended \in Fields
    BY DEF Ended, Request, Fields, States, Users
  <1> QED  BY <1>1 DEF TypeOK, End, Fields, Only

LEMMA EndedIs == Ended.state = "ended"
  BY DEF Ended, Request

\* A step that takes no id and stores nothing: its request, if it has one, begins, goes
\* on with what it has, or is over, and pushes are only taken off the wire.
GoesOn(r) ==
    \/ req'[r].state \in {"new", "ended"}
    \/ req'[r].state = "begun" /\ req'[r].match \in Matches /\ req'[r].from \in Participants
    \/ /\ req[r].state \in {"stored", "published"} /\ req'[r].state \in {"published", "refetching"}
       /\ Row(r)' = Row(r)

Taken == ToSet(wire') \subseteq ToSet(wire) /\ IsInjective(wire')

LEMMA DeliveryGoesOn ==
  ASSUME Delivery, UNCHANGED server, Taken,
         \A r \in Requests : req'[r] = req[r] \/ GoesOn(r)
  PROVE  Delivery'
  <1>1. rows' = rows /\ nextId' = nextId /\ Numbered(rows', nextId')
    BY DEF server, Delivery
  <1>2. ASSUME NEW r \in Requests
        PROVE  /\ req'[r].state \in Carrying => req[r].state \in Carrying /\ req'[r].id = req[r].id
               /\ req'[r].state \in UnderWay => req'[r].match \in Matches /\ req'[r].from \in Participants
               /\ req'[r].state = "inserting" => req'[r].id < nextId /\ \A s \in rows : s.id # req'[r].id
               /\ req'[r].state \in {"stored", "published", "refetching"} => Row(r)' \in rows
    <2>1. CASE req'[r] = req[r]
      BY <2>1 DEF Delivery, Progress, Row
    <2>2. CASE req'[r].state \in {"new", "ended"}
      BY <2>2 DEF Carrying, UnderWay
    <2>3. CASE req'[r].state = "begun" /\ req'[r].match \in Matches /\ req'[r].from \in Participants
      BY <2>3 DEF Carrying, UnderWay
    <2>4. CASE /\ req[r].state \in {"stored", "published"}
               /\ req'[r].state \in {"published", "refetching"} /\ Row(r)' = Row(r)
      <3>1. req'[r].id = req[r].id /\ req'[r].match = req[r].match /\ req'[r].from = req[r].from
        BY <2>4 DEF Row
      <3> QED  BY <2>4, <3>1 DEF Delivery, Progress, Carrying, UnderWay
    <2> QED  BY <2>1, <2>2, <2>3, <2>4 DEF GoesOn
  <1>3. Progress'
    BY <1>1, <1>2 DEF Delivery, Progress
  <1>4. Pushes'
    BY <1>1, <1>2 DEF Delivery, Pushes, Taken
  <1> QED  BY <1>1, <1>3, <1>4 DEF Delivery

LEMMA InsertDelivers == ASSUME TypeOK, Delivery, NEW r \in Requests, Insert(r)
  PROVE  Delivery' /\ req' \in [Requests -> Fields] /\ nextId' \in Nat
  <1> DEFINE w == [req[r] EXCEPT !.state = "inserting", !.id = nextId]
  <1>1. req[r] \in Fields /\ nextId \in Nat /\ req \in [Requests -> Fields] /\ rows \subseteq Message
    BY DEF TypeOK, Fields
  <1>2. /\ w \in Fields /\ w.state = "inserting" /\ w.id = nextId
        /\ w.match = req[r].match /\ w.from = req[r].from
    BY <1>1 DEF Fields, States
  <1>3. req' = [req EXCEPT ![r] = w] /\ nextId' = nextId + 1 /\ rows' = rows /\ wire' = wire
    BY DEF Insert
  <1> HIDE DEF w
  <1>4. req' \in [Requests -> Fields] /\ req'[r] = w /\ Only(r)
    BY <1>1, <1>2, <1>3 DEF Only
  <1>5. \A s \in rows : s.id < nextId /\ s.id \in Nat
    BY <1>1 DEF Delivery, Numbered, Message
  <1>6. \A s \in Requests : req[s].state \in Carrying => req[s].id < nextId
    BY <1>5 DEF Delivery, Progress, Row, Carrying
  <1>7. \A s \in Requests : req[s].id \in Nat
    BY <1>1 DEF Fields
  <1>8. Numbered(rows', nextId')
    <2>1. \A s \in rows : s.id < nextId + 1
      BY <1>1, <1>5
    <2> QED  BY <1>3, <2>1 DEF Delivery, Numbered
  <1>9. Progress'
    <2>1. \A s \in Requests : req[s].state = "inserting" => req[s].id < nextId + 1
      BY <1>1, <1>6, <1>7 DEF Carrying
    <2>2. \A s \in rows : s.id # nextId
      BY <1>1, <1>5
    <2>3. \A s \in Requests : req[s].state \in Carrying => req[s].id # nextId
      BY <1>1, <1>6, <1>7
    <2>4. req[r].match \in Matches /\ req[r].from \in Participants
      BY DEF Insert, Delivery, Progress, UnderWay
    <2>5. w.id < nextId + 1
      BY <1>1, <1>2
    <2> SUFFICES ASSUME NEW s \in Requests
                 PROVE  /\ req'[s].state \in UnderWay => req'[s].match \in Matches /\ req'[s].from \in Participants
                        /\ req'[s].state = "inserting" => req'[s].id < nextId' /\ \A x \in rows' : x.id # req'[s].id
                        /\ req'[s].state \in {"stored", "published", "refetching"} => Row(s)' \in rows'
                        /\ \A q \in Requests :
                              req'[s].state \in Carrying /\ req'[q].state \in Carrying /\ req'[s].id = req'[q].id => s = q
      BY DEF Progress
    <2>6. CASE s = r
      BY <1>2, <1>3, <1>4, <2>2, <2>3, <2>4, <2>5, <2>6 DEF Only
    <2>7. CASE s # r
      BY <1>2, <1>3, <1>4, <2>1, <2>3, <2>7 DEF Only, Delivery, Progress, Row
    <2> QED  BY <2>6, <2>7
  <1>10. Pushes'
    <2>1. \A p \in ToSet(wire) : p.id # nextId
      BY <1>1, <1>5 DEF Delivery, Pushes
    <2> QED  BY <1>2, <1>3, <1>4, <2>1 DEF Delivery, Pushes, Only
  <1> QED  BY <1>1, <1>3, <1>4, <1>8, <1>9, <1>10 DEF Delivery

LEMMA CommitDelivers == ASSUME TypeOK, Delivery, NEW r \in Requests, Commit(r)
  PROVE  Delivery' /\ req' \in [Requests -> Fields] /\ Row(r) \in Message /\ rows' = rows \union {Row(r)}
  <1>1. /\ req' \in [Requests -> Fields] /\ Only(r) /\ req'[r].state = "stored"
        /\ req'[r].match = req[r].match /\ req'[r].from = req[r].from /\ req'[r].id = req[r].id
    BY SetStateIs DEF Commit, States
  <1>2. /\ rows' = rows \union {Row(r)} /\ nextId' = nextId /\ wire' = wire
        /\ req[r].state = "inserting"
    BY DEF Commit
  <1>3. Row(r)' = Row(r) /\ Row(r).id = req[r].id
    BY <1>1 DEF Row
  <1>4. Row(r) \in Message
    BY <1>2 DEF Delivery, Progress, UnderWay, Row, Message, TypeOK
  <1>5. Row(r).id < nextId /\ \A s \in rows : s.id # Row(r).id
    BY <1>2, <1>3 DEF Delivery, Progress
  <1>6. Numbered(rows', nextId')
    BY <1>2, <1>4, <1>5 DEF Delivery, Numbered
  <1>7. Progress'
    <2> SUFFICES ASSUME NEW s \in Requests
                 PROVE  /\ req'[s].state \in UnderWay => req'[s].match \in Matches /\ req'[s].from \in Participants
                        /\ req'[s].state = "inserting" => req'[s].id < nextId' /\ \A x \in rows' : x.id # req'[s].id
                        /\ req'[s].state \in {"stored", "published", "refetching"} => Row(s)' \in rows'
                        /\ \A q \in Requests :
                              req'[s].state \in Carrying /\ req'[q].state \in Carrying /\ req'[s].id = req'[q].id => s = q
      BY DEF Progress
    <2>1. \A q \in Requests : /\ req'[q].id = req[q].id
                              /\ req'[q].state \in Carrying => req[q].state \in Carrying
      BY <1>1, <1>2 DEF Only, Carrying
    <2>2. CASE s = r
      BY <1>1, <1>2, <1>3, <2>1, <2>2 DEF Delivery, Progress, UnderWay
    <2>3. CASE s # r
      <3>1. req[s].state = "inserting" => req[s].id # Row(r).id
        BY <1>2, <1>3, <2>3 DEF Delivery, Progress, Carrying
      <3> QED  BY <1>1, <1>2, <2>1, <2>3, <3>1 DEF Only, Delivery, Progress, Row
    <2> QED  BY <2>2, <2>3
  <1>8. Pushes'
    BY <1>1, <1>2 DEF Delivery, Pushes, Only, Carrying
  <1> QED  BY <1>1, <1>2, <1>4, <1>6, <1>7, <1>8 DEF Delivery

\* Which steps only go on, and how: those of the API's requests that are left, and the
\* browser's.
LEMMA PublishDelivers == ASSUME TypeOK, Delivery, NEW r \in Requests, Publish(r)
  PROVE  /\ Delivery' /\ req' \in [Requests -> Fields] /\ wire' \in Seq(Message)
         /\ Only(r) /\ req[r].state = "stored" /\ Row(r) \in rows
         /\ IF req[r].from = "me"
            THEN wire' = wire /\ req'[r].state = "published" /\ Row(r)' = Row(r)
            ELSE req'[r] = Ended /\ (wire' = Append(wire, Row(r)) \/ wire' = wire)
  <1>1. req[r].state = "stored" /\ UNCHANGED server /\ rows' = rows /\ nextId' = nextId
    BY DEF Publish, server
  <1>2. Row(r) \in rows /\ Row(r) \in Message /\ Row(r) \notin ToSet(wire)
    BY <1>1 DEF Delivery, Progress, Pushes, Carrying, Row, TypeOK
  <1>3. wire \in Seq(Message) /\ IsInjective(wire) /\ ToSet(wire) \subseteq rows
    BY DEF TypeOK, Delivery, Pushes
  <1>4. /\ Append(wire, Row(r)) \in Seq(Message) /\ IsInjective(Append(wire, Row(r)))
        /\ ToSet(Append(wire, Row(r))) = ToSet(wire) \union {Row(r)}
    BY <1>2, <1>3, AppendList
  <1>5. CASE req[r].from = "me"
    <2>1. SetState(r, "published") /\ wire' = wire
      BY <1>5 DEF Publish, Answered, Pushed, Recipient
    <2>2. /\ req' \in [Requests -> Fields] /\ Only(r) /\ req'[r].state = "published"
          /\ Row(r)' = Row(r)
      BY <2>1, SetStateIs DEF Row, States
    <2>3. Taken
      BY <1>3, <2>1 DEF Taken
    <2>4. \A s \in Requests : req'[s] = req[s] \/ GoesOn(s)
      BY <1>1, <2>2 DEF Only, GoesOn
    <2>5. Delivery'
      BY <1>1, <2>3, <2>4, DeliveryGoesOn
    <2> QED  BY <1>1, <1>2, <1>3, <1>5, <2>1, <2>2, <2>5
  <1>6. CASE req[r].from # "me"
    <2>1. End(r) /\ (wire' = Append(wire, Row(r)) \/ wire' = wire)
      BY <1>6 DEF Publish, Answered, Pushed, Recipient
    <2>2. req' \in [Requests -> Fields] /\ Only(r) /\ req'[r] = Ended /\ req'[r].state = "ended"
      BY <2>1, EndIs, EndedIs
    <2>3. CASE wire' = wire
      <3>1. Taken
        BY <1>3, <2>3 DEF Taken
      <3>2. \A s \in Requests : req'[s] = req[s] \/ GoesOn(s)
        BY <2>2 DEF Only, GoesOn
      <3>3. Delivery'
        BY <1>1, <3>1, <3>2, DeliveryGoesOn
      <3> QED  BY <1>1, <1>2, <1>3, <1>6, <2>1, <2>2, <3>3
    <2>4. CASE wire' = Append(wire, Row(r))
      <3>1. Numbered(rows', nextId')
        BY <1>1 DEF Delivery
      <3>2. \A s \in Requests : req'[s].state \in UnderWay \union Carrying => s # r /\ req'[s] = req[s]
        BY <2>2 DEF Only, UnderWay, Carrying
      <3>3. Progress'
        BY <1>1, <3>2 DEF Delivery, Progress, UnderWay, Carrying, Row
      <3>4. \A s \in Requests \ {r} : req[s].state \in Carrying => req[s].id # Row(r).id
        BY <1>1 DEF Delivery, Progress, Carrying, Row
      <3>5. ToSet(wire') \subseteq rows' /\ IsInjective(wire')
        BY <1>1, <1>2, <1>3, <1>4, <2>4
      <3>6. ASSUME NEW s \in Requests, req'[s].state \in Carrying, NEW p \in ToSet(wire')
            PROVE  req'[s].id # p.id
        <4>1. s # r /\ req'[s] = req[s] /\ req[s].state \in Carrying
          BY <3>2, <3>6
        <4>2. CASE p \in ToSet(wire)
          BY <4>1, <4>2 DEF Delivery, Pushes
        <4>3. CASE p = Row(r)
          BY <3>4, <4>1, <4>3
        <4> QED  BY <1>4, <2>4, <3>6, <4>2, <4>3
      <3> QED  BY <1>1, <1>2, <1>4, <1>6, <2>2, <2>4, <3>1, <3>3, <3>5, <3>6 DEF Delivery, Pushes
    <2> QED  BY <2>1, <2>3, <2>4
  <1> QED  BY <1>5, <1>6

\* A request of which nothing more comes, or that is begun.
LEMMA OthersDeliver == ASSUME TypeOK, Delivery, NEW r \in Requests,
                              \/ \E m \in Matches, u \in Users : Send(r, m, u)
                              \/ Fail(r) \/ Receive(r) \/ HandleSendGoesOn(r) \/ LoseAnswer(r)
  PROVE  /\ Delivery' /\ req' \in [Requests -> Fields] /\ Only(r)
         /\ rows' = rows /\ nextId' = nextId /\ wire' = wire
         /\ req'[r].state \notin {"inserting", "stored", "published"}
  <1>1. UNCHANGED server /\ rows' = rows /\ nextId' = nextId /\ wire' = wire
    BY DEF Send, Fail, Receive, HandleSendGoesOn, LoseAnswer, server
  <1>2. Taken
    BY <1>1 DEF Taken, Delivery, Pushes
  <1>3. req \in [Requests -> Fields]
    BY DEF TypeOK, Fields
  <1> DEFINE Goes == /\ req' \in [Requests -> Fields] /\ Only(r) /\ GoesOn(r)
                     /\ req'[r].state \notin {"inserting", "stored", "published"}
  <1>4. Goes => Delivery'
    <2> SUFFICES ASSUME Goes PROVE Delivery'
      OBVIOUS
    <2>1. \A s \in Requests : req'[s] = req[s] \/ GoesOn(s)
      BY DEF Only
    <2> QED  BY <1>1, <1>2, <2>1, DeliveryGoesOn
  <1>5. ASSUME End(r) PROVE Goes
    <2>1. req' \in [Requests -> Fields] /\ Only(r) /\ req'[r].state = "ended"
      BY <1>5, EndIs, EndedIs
    <2> QED  BY <2>1 DEF GoesOn
  <1>6. ASSUME NEW m \in Matches, NEW u \in Users, Send(r, m, u) PROVE Goes
    <2> DEFINE w == IF u \in Participants THEN Request("begun", m, u) ELSE Ended
    <2>1. /\ w \in Fields /\ w.state \in {"begun", "ended"}
          /\ w.state = "begun" => w.match \in Matches /\ w.from \in Participants
      BY <1>6 DEF Request, Ended, Fields, States, Users, Participants
    <2>2. req' = [req EXCEPT ![r] = w]
      BY <1>6 DEF Send
    <2> HIDE DEF w
    <2>3. req' \in [Requests -> Fields] /\ Only(r) /\ req'[r] = w
      BY <1>3, <2>1, <2>2 DEF Only
    <2> QED  BY <2>1, <2>3 DEF GoesOn
  <1>7. ASSUME Receive(r), SetState(r, "refetching") PROVE Goes
    <2>1. /\ req' \in [Requests -> Fields] /\ Only(r) /\ req'[r].state = "refetching"
          /\ Row(r)' = Row(r) /\ req[r].state = "published"
      BY <1>7, SetStateIs DEF Receive, States, Row
    <2> QED  BY <2>1 DEF GoesOn
  <1>8. Goes
    BY <1>5, <1>6, <1>7 DEF Fail, Receive, HandleSendGoesOn, LoseAnswer
  <1> QED  BY <1>1, <1>4, <1>8

-----------------------------------------------------------------------------
(* Fetches and caches                                                      *)

Fetches == [state : {"none", "asked", "answered"}, seen : SUBSET Message]

\* What a step does to a fetch: start it or start it anew, drop it, or read the table.
Reads == \A q \in Queries :
    \/ fetch'[q] \in {fetch[q], Idle, Asked}
    \/ fetch'[q] = [state |-> "answered", seen |-> rows] /\ rows' = rows

\* What a step does to the table.
RowsGrow ==
    \/ rows' = rows
    \/ \E r \in Requests : req[r].state = "inserting" /\ rows' = rows \union {Row(r)}

LEMMA IdleAsked == ASSUME TRUE
  PROVE  /\ Idle \in Fetches /\ Asked \in Fetches /\ Idle.seen = {} /\ Asked.seen = {}
         /\ Idle.state = "none" /\ Asked.state = "asked"
  BY DEF Idle, Asked, Fetches

\* Spoils is part of every action, so that an overlap is noticed at once.
LEMMA Observed == ASSUME NEW S, Spoils(S), S \subseteq Matches, TypeOK
  PROVE  /\ spoiled \union S \subseteq spoiled' /\ spoiled' \subseteq Matches
         /\ \A m \in Matches \ spoiled' : Moving(m)' => m \in loaded' /\ ~InFlight(m)'
  BY DEF Spoils, TypeOK

LEMMA OverlapsStep ==
  ASSUME TypeOK, Overlaps, Reads, RowsGrow, NEW S, S \subseteq Matches, Spoils(S)
  PROVE  Overlaps'
  <1>1. rows \subseteq rows'
    BY DEF RowsGrow
  <1>2. \A q \in Queries : fetch'[q].seen \subseteq rows'
    BY <1>1, IdleAsked DEF Reads, Overlaps
  <1>3. ASSUME NEW m \in Matches \ spoiled', fetch'[m].state = "answered"
        PROVE  {s \in fetch'[m].seen : s.match = m} = {s \in rows' : s.match = m}
    <2>1. m \notin spoiled /\ m \in Queries
      BY Observed DEF Queries
    <2>2. CASE fetch'[m] = fetch[m]
      <3>1. ~Moving(m)
        BY <1>3, <2>1, <2>2 DEF Overlaps, InFlight
      <3>2. \A r \in Requests : req[r].state = "inserting" => Row(r).match # m
        BY <3>1 DEF Moving, UnderWay, Row
      <3>3. {s \in rows' : s.match = m} = {s \in rows : s.match = m}
        BY <3>2 DEF RowsGrow
      <3> QED  BY <1>3, <2>1, <2>2, <3>3 DEF Overlaps
    <2>3. CASE fetch'[m] = [state |-> "answered", seen |-> rows] /\ rows' = rows
      BY <2>3
    <2> QED  BY <1>3, <2>1, <2>2, <2>3, IdleAsked DEF Reads
  <1> QED  BY <1>2, <1>3, Observed DEF Overlaps

LEMMA InvalidateIs == ASSUME TypeOK, NEW q \in Queries, Invalidate(q)
  PROVE  fetch' \in [Queries -> Fetches] /\ Reads
  <1>1. fetch \in [Queries -> Fetches]
    BY DEF TypeOK, Fetches
  <1>2. fetch' = fetch \/ fetch' = [fetch EXCEPT ![q] = Asked]
    BY DEF Invalidate
  <1> QED  BY <1>1, <1>2, IdleAsked DEF Reads

\* A list of conversations is in order if each entry and each match is there once.
LEMMA ApartIs == ASSUME NEW s \in Seq(Conversation)
  PROVE  Apart(s) <=> /\ IsInjective(s)
                      /\ \A c, d \in ToSet(s) : c.match = d.match => c = d
  <1>1. DOMAIN s = 1..Len(s) /\ \A i \in DOMAIN s : s[i] \in ToSet(s)
    BY ListIs
  <1>2. ASSUME Apart(s)
        PROVE  IsInjective(s) /\ \A c, d \in ToSet(s) : c.match = d.match => c = d
    BY <1>2 DEF Apart, IsInjective, ToSet
  <1>3. ASSUME IsInjective(s), \A c, d \in ToSet(s) : c.match = d.match => c = d
        PROVE  Apart(s)
    BY <1>1, <1>3 DEF Apart, IsInjective
  <1> QED  BY <1>2, <1>3

\* A stored message at the head of the list leaves it in order.
LEMMA ApplyIs == ASSUME TypeOK, Shown, NEW m \in Matches, NEW id \in Ids(m), ApplyNewMessage(m, id)
  PROVE  /\ unmessaged' \subseteq Matches /\ messaged' \in Seq(Conversation)
         /\ Apart(messaged') /\ \A c \in ToSet(messaged') : c.last \in Ids(c.match)
         /\ fetch' \in [Queries -> Fetches] /\ Reads
  <1>1. messaged \in Seq(Conversation) /\ fetch \in [Queries -> Fetches] /\ id \in Nat
        /\ unmessaged \subseteq Matches
    BY DEF TypeOK, Conversation, Fetches, Ids, Message
  <1>2. unmessaged' \subseteq Matches
    BY <1>1 DEF ApplyNewMessage
  <1> DEFINE others == Without(messaged, m)
             c == [match |-> m, last |-> id]
  <1>3. CASE messaged' = <<c>> \o others /\ fetch' = fetch
    <2>1. c \in Conversation /\ c.match = m /\ c.last = id
      BY <1>1 DEF Conversation
    <2>2. /\ others \in Seq(Conversation) /\ Apart(others)
          /\ \A d \in ToSet(others) : d \in ToSet(messaged) /\ d.match # m
      BY <1>1, WithoutIs DEF Shown
    <2> HIDE DEF c, others
    <2>3. IsInjective(others) /\ c \notin ToSet(others)
      BY <2>1, <2>2, ApartIs
    <2>4. /\ <<c>> \o others \in Seq(Conversation) /\ IsInjective(<<c>> \o others)
          /\ ToSet(<<c>> \o others) = {c} \union ToSet(others)
      BY <2>1, <2>2, <2>3, PrependList
    <2>5. \A d, e \in ToSet(others) : d.match = e.match => d = e
      BY <2>2, ApartIs
    <2>6. \A d, e \in {c} \union ToSet(others) : d.match = e.match => d = e
      BY <2>1, <2>2, <2>5
    <2>7. Apart(<<c>> \o others)
      BY <2>4, <2>6, ApartIs
    <2>8. \A d \in {c} \union ToSet(others) : d.last \in Ids(d.match)
      BY <2>1, <2>2 DEF Shown
    <2> QED  BY <1>1, <1>2, <1>3, <2>4, <2>7, <2>8 DEF Reads
  <1>4. CASE Invalidate("messaged") /\ messaged' = messaged
    <2>1. "messaged" \in Queries
      BY DEF Queries, Lists
    <2>2. fetch' \in [Queries -> Fetches] /\ Reads
      BY <1>4, <2>1, InvalidateIs
    <2> QED  BY <1>1, <1>2, <1>4, <2>2 DEF Shown
  <1> QED  BY <1>3, <1>4 DEF ApplyNewMessage

\* A history to which a stored message is prepended that it lacked.
LEMMA PrependIs == ASSUME TypeOK, Shown, NEW m \in Matches, NEW id \in Ids(m), Prepend(m, id)
  PROVE  /\ history' \in [Matches -> Seq(Nat)]
         /\ \A k \in Matches \ {m} : history'[k] = history[k]
         /\ m \notin loaded => history'[m] = history[m]
         /\ m \in loaded => /\ ToSet(history'[m]) = {id} \union ToSet(history[m])
                            /\ Len(history'[m]) = Len(history[m]) + 1
                            /\ IsInjective(history[m]) /\ id \notin ToSet(history[m])
                                 => IsInjective(history'[m])
         /\ \A k \in Matches : ToSet(history'[k]) \subseteq Ids(k)
  <1>1. history \in [Matches -> Seq(Nat)] /\ id \in Nat /\ history[m] \in Seq(Nat)
    BY DEF TypeOK, Ids, Message
  <1> DEFINE h == IF m \in loaded THEN <<id>> \o history[m] ELSE history[m]
  <1>2. /\ <<id>> \o history[m] \in Seq(Nat)
        /\ ToSet(<<id>> \o history[m]) = {id} \union ToSet(history[m])
        /\ Len(<<id>> \o history[m]) = Len(history[m]) + 1
        /\ IsInjective(history[m]) /\ id \notin ToSet(history[m]) => IsInjective(<<id>> \o history[m])
    BY <1>1, PrependList
  <1>3. history' = [history EXCEPT ![m] = h]
    BY <1>1 DEF Prepend
  <1>4. /\ h \in Seq(Nat)
        /\ m \notin loaded => h = history[m]
        /\ m \in loaded => /\ ToSet(h) = {id} \union ToSet(history[m])
                           /\ Len(h) = Len(history[m]) + 1
                           /\ IsInjective(history[m]) /\ id \notin ToSet(history[m]) => IsInjective(h)
    BY <1>1, <1>2
  <1> HIDE DEF h
  <1>5. history' \in [Matches -> Seq(Nat)] /\ history'[m] = h
        /\ \A k \in Matches \ {m} : history'[k] = history[k]
    BY <1>1, <1>3, <1>4
  <1>6. ToSet(h) \subseteq Ids(m)
    BY <1>4 DEF Shown
  <1> QED  BY <1>4, <1>5, <1>6 DEF Shown

-----------------------------------------------------------------------------
(* Chats                                                                   *)

LEMMA InComing == ASSUME NEW m, NEW i
  PROVE  /\ i \in Coming(m) <=>
              \/ \E p \in ToSet(wire) : p.match = m /\ p.id = i
              \/ \E r \in Requests : /\ req[r].match = m /\ req[r].id = i
                                     /\ req[r].state \in {"stored", "published"}
         /\ i \in Coming(m)' <=>
              \/ \E p \in ToSet(wire') : p.match = m /\ p.id = i
              \/ \E r \in Requests : /\ req'[r].match = m /\ req'[r].id = i
                                     /\ req'[r].state \in {"stored", "published"}
  BY DEF Coming

\* What is stored and what is on its way is there once.
LEMMA ComingIs == ASSUME TypeOK, Delivery, NEW m, NEW i \in Coming(m)
  PROVE  i \in Ids(m) /\ Moving(m)
  <1>1. CASE \E p \in ToSet(wire) : p.match = m /\ p.id = i
    BY <1>1 DEF Delivery, Pushes, Ids, Moving
  <1>2. ASSUME NEW r \in Requests, req[r].match = m, req[r].id = i,
               req[r].state \in {"stored", "published"}
        PROVE  i \in Ids(m) /\ Moving(m)
    <2>1. Row(r) \in rows /\ Row(r).match = m /\ Row(r).id = i
      BY <1>2 DEF Delivery, Progress, Row
    <2> QED  BY <1>2, <2>1 DEF Ids, Moving, UnderWay
  <1>3. \/ \E p \in ToSet(wire) : p.match = m /\ p.id = i
        \/ \E r \in Requests : /\ req[r].match = m /\ req[r].id = i
                             /\ req[r].state \in {"stored", "published"}
    <2>1. i \in Coming(m)
      OBVIOUS
    <2> QED  BY <2>1, InComing
  <1> QED  BY <1>1, <1>2, <1>3

\* A number that is taken is greater than those of all stored messages.
TakesGreater == \A r \in Requests :
    req'[r].state = "inserting" => req'[r] = req[r] \/ \A s \in rows : s.id < req'[r].id

LEMMA NoneTaken == ASSUME NEW r \in Requests, Only(r), req'[r].state # "inserting"
  PROVE  TakesGreater
  BY DEF Only, TakesGreater

LEMMA StaysComplete ==
  ASSUME NEW m, Complete(m), TakesGreater, history'[m] = history[m], Ids(m)' = Ids(m),
         Coming(m)' = Coming(m)
  PROVE  Complete(m)'
  <1>1. LeftOut(m)' = LeftOut(m)
    BY DEF LeftOut
  <1>2. ASSUME NEW i \in LeftOut(m) PROVE IsOlder(i, m)'
    <2>1. IsOlder(i, m) /\ \E s \in rows : s.id = i
      BY <1>2 DEF Complete, LeftOut, Ids
    <2> QED  BY <2>1 DEF IsOlder, TakesGreater
  <1> QED  BY <1>1, <1>2 DEF Complete

\* Steps that bring no message nearer to a chat, nor take one away.
LEMMA ChatsStay ==
  ASSUME ChatsComplete, history' = history, rows' = rows, loaded' \intersect Matches \subseteq loaded,
         spoiled \subseteq spoiled', TakesGreater,
         \A m \in Matches \ spoiled' : Coming(m)' = Coming(m)
  PROVE  ChatsComplete'
  <1> SUFFICES ASSUME NEW m \in Matches, m \in loaded', m \notin spoiled' PROVE Complete(m)'
    BY DEF ChatsComplete
  <1>1. Complete(m)
    BY DEF ChatsComplete
  <1>2. Ids(m)' = Ids(m) /\ Coming(m)' = Coming(m)
    BY DEF Ids
  <1> QED  BY <1>1, <1>2, StaysComplete

LEMMA ComingStays ==
  ASSUME NEW r \in Requests, Only(r), wire' = wire, NEW m,
         req[r].match = m => /\ req[r].state # "stored" /\ req[r].state # "published",
         req'[r].state # "stored" /\ req'[r].state # "published"
  PROVE  Coming(m)' = Coming(m)
  <1>1. \A s \in Requests :
          (req'[s].match = m /\ req'[s].state \in {"stored", "published"})
            <=> (s # r /\ req[s].match = m /\ req[s].state \in {"stored", "published"})
    BY DEF Only
  <1>2. \A s \in Requests : req[s].match = m /\ req[s].state \in {"stored", "published"} => s # r
    OBVIOUS
  <1>3. \A s \in Requests \ {r} : req'[s] = req[s]
    BY DEF Only
  <1>4. ASSUME NEW i PROVE i \in Coming(m)' <=> i \in Coming(m)
    BY <1>1, <1>2, <1>3, InComing
  <1> QED  BY <1>4

\* Everything but the parts that a step is about.
LEMMA Together ==
  ASSUME IInv, Delivery', RowsGrow, Reads, NEW S, S \subseteq Matches, Spoils(S),
         rows' \subseteq Message, nextId' \in Nat, req' \in [Requests -> Fields],
         wire' \in Seq(Message), page' \in OtherPages \union Matches, loaded' \subseteq Queries,
         history' \in [Matches -> Seq(Nat)], unmessaged' \subseteq Matches,
         messaged' \in Seq(Conversation), fetch' \in [Queries -> Fetches],
         Shown', ChatsComplete'
  PROVE  IInv'
  <1>1. spoiled' \subseteq Matches /\ Overlaps'
    BY Observed, OverlapsStep DEF IInv
  <1> QED  BY <1>1 DEF IInv, TypeOK, Fields, Conversation, Fetches

LEMMA Types == ASSUME TypeOK
  PROVE  /\ rows \subseteq Message /\ nextId \in Nat /\ req \in [Requests -> Fields]
         /\ wire \in Seq(Message) /\ page \in OtherPages \union Matches /\ loaded \subseteq Queries
         /\ history \in [Matches -> Seq(Nat)] /\ unmessaged \subseteq Matches
         /\ messaged \in Seq(Conversation) /\ fetch \in [Queries -> Fetches]
         /\ spoiled \subseteq Matches
  BY DEF TypeOK, Fields, Conversation, Fetches

\* What was shown is still stored.
LEMMA ShownStays == ASSUME Shown, rows \subseteq rows', UNCHANGED <<history, messaged>>
  PROVE  Shown'
  <1>1. \A m : Ids(m) \subseteq Ids(m)'
    BY DEF Ids
  <1> QED  BY <1>1 DEF Shown

\* Steps of requests that do not touch the caches, and store and publish nothing.
LEMMA RequestsKeep == ASSUME IInv, NEW r \in Requests,
                             \/ \E m \in Matches, u \in Users : Send(r, m, u)
                             \/ Insert(r) \/ Fail(r)
  PROVE  IInv'
  <1>1. TypeOK /\ Delivery
    BY DEF IInv
  <1>2. UNCHANGED <<wire, page, cache, fetch>> /\ rows' = rows /\ Spoils({})
    BY DEF Send, Insert, Fail, server, Observe
  <1>3. /\ Delivery' /\ req' \in [Requests -> Fields] /\ Only(r) /\ nextId' \in Nat
        /\ req'[r].state # "stored" /\ req'[r].state # "published" /\ TakesGreater
    <2>1. CASE Insert(r)
      <3>1. Only(r) /\ req'[r].state = "inserting" /\ req'[r].id = nextId
        BY <1>1, <2>1, Types DEF Insert, Only, Fields
      <3>2. TakesGreater
        BY <1>1, <3>1 DEF Only, TakesGreater, Delivery, Numbered
      <3> QED  BY <1>1, <2>1, <3>1, <3>2, InsertDelivers
    <2>2. CASE ~Insert(r)
      BY <1>1, <2>2, OthersDeliver, NoneTaken, Types
    <2> QED  BY <2>1, <2>2
  <1>4. req[r].state \in {"new", "begun", "inserting"}
    BY DEF Send, IsNext, Insert, Fail
  <1>5. \A m \in Matches : Coming(m)' = Coming(m)
    BY <1>2, <1>3, <1>4, ComingStays
  <1>6. spoiled \subseteq spoiled'
    BY <1>1, <1>2, Observed
  <1>7. ChatsComplete'
    BY <1>2, <1>3, <1>5, <1>6, ChatsStay DEF IInv, cache
  <1>8. Shown'
    BY <1>2, ShownStays DEF IInv, cache
  <1>9. Reads /\ RowsGrow
    BY <1>2 DEF Reads, RowsGrow
  <1> QED  BY <1>1, <1>2, <1>3, <1>7, <1>8, <1>9, Together, Types DEF cache

\* Steps of fetches and pages that fill no cache, and the inbox when it is mounted.
LEMMA PagesKeep ==
  ASSUME IInv, UNCHANGED <<server, req, wire, history>>, Spoils({}),
         page' \in OtherPages \union Matches, fetch' \in [Queries -> Fetches], Reads,
         loaded' \subseteq Queries, loaded' \intersect Matches \subseteq loaded,
         unmessaged' \subseteq Matches, messaged' \in Seq(Conversation), Apart(messaged'),
         \A c \in ToSet(messaged') : c.last \in Ids(c.match)
  PROVE  IInv'
  <1>1. TypeOK /\ Delivery /\ rows' = rows /\ nextId' = nextId
    BY DEF IInv, server
  <1>2. Delivery'
    BY <1>1 DEF Delivery, Progress, Pushes, Row
  <1>3. \A m \in Matches : Coming(m)' = Coming(m)
    BY DEF Coming
  <1>4. spoiled \subseteq spoiled'
    BY <1>1, Observed
  <1>5. ChatsComplete'
    BY <1>1, <1>3, <1>4, ChatsStay DEF IInv, TakesGreater
  <1>6. \A m : Ids(m)' = Ids(m)
    BY <1>1 DEF Ids
  <1>7. Shown'
    BY <1>6 DEF Shown, IInv
  <1>8. RowsGrow
    BY <1>1 DEF RowsGrow
  <1> QED  BY <1>1, <1>2, <1>5, <1>7, <1>8, Together, Types

LEMMA FetchesKeep == ASSUME IInv, NEW q \in Queries, Start(q) \/ ServerReads(q) \/ FetchFails(q)
  PROVE  IInv'
  <1>1. /\ UNCHANGED <<server, req, wire, page, cache>> /\ Spoils({}) /\ TypeOK /\ Shown
        /\ rows' = rows /\ rows \subseteq Message
    BY DEF Start, ServerReads, FetchFails, Observe, IInv, server, TypeOK
  <1>2. PICK f \in {Idle, Asked, [state |-> "answered", seen |-> rows]} : fetch' = [fetch EXCEPT ![q] = f]
    BY DEF Start, ServerReads, FetchFails
  <1>3. f \in Fetches
    BY <1>1, IdleAsked DEF Fetches
  <1>4. fetch' \in [Queries -> Fetches] /\ Reads
    BY <1>1, <1>2, <1>3, Types DEF Reads
  <1> QED  BY <1>1, <1>4, PagesKeep, Types DEF cache, Shown

LEMMA VisitsKeep == ASSUME IInv, OpenInbox \/ RenderFails \/ \E m \in Chats : OpenChat(m)
  PROVE  IInv'
  <1>1. UNCHANGED <<server, req, wire, cache>> /\ Spoils({}) /\ TypeOK /\ Shown
    BY DEF OpenInbox, RenderFails, OpenChat, Observe, IInv
  <1>2. page' \in OtherPages \union Matches
    BY ChatsAssumption DEF OpenInbox, RenderFails, OpenChat, OtherPages
  <1>3. fetch' \in [Queries -> Fetches] /\ Reads
    <2>1. fetch \in [Queries -> Fetches]
      BY <1>1, Types
    <2>2. CASE fetch' = fetch
      BY <2>1, <2>2 DEF Reads
    <2>3. CASE fetch' = [q \in Queries |-> IF q \in Lists THEN Asked ELSE fetch[q]]
      BY <2>1, <2>3, IdleAsked DEF Reads
    <2>4. CASE fetch' = [q \in Queries |-> IF q \in Lists THEN Idle ELSE fetch[q]]
      BY <2>1, <2>4, IdleAsked DEF Reads
    <2>5. ASSUME NEW m \in Chats, fetch' = [fetch EXCEPT ![m] = Asked]
          PROVE  fetch' \in [Queries -> Fetches] /\ Reads
      BY <2>1, <2>5, IdleAsked DEF Reads
    <2> QED  BY <2>2, <2>3, <2>4, <2>5 DEF OpenInbox, RenderFails, OpenChat
  <1> QED  BY <1>1, <1>2, <1>3, PagesKeep, Types DEF cache, Shown

LEMMA MountKeeps == ASSUME IInv, MountInbox
  PROVE  IInv'
  <1>1. /\ UNCHANGED <<server, req, wire, history>> /\ Spoils({}) /\ TypeOK /\ Delivery /\ Overlaps
        /\ page' \in OtherPages /\ loaded' = loaded \union Lists
        /\ unmessaged' = UnmessagedFrom(fetch["unmessaged"].seen)
        /\ messaged' = MessagedFrom(fetch["messaged"].seen)
        /\ fetch' = [q \in Queries |-> IF q \in Lists THEN Idle ELSE fetch[q]]
    BY DEF MountInbox, Observe, IInv, OtherPages
  <1>2. fetch' \in [Queries -> Fetches] /\ Reads
    BY <1>1, Types, IdleAsked DEF Reads
  <1>3. loaded' \subseteq Queries /\ loaded' \intersect Matches \subseteq loaded
    BY <1>1, Types, MatchesAssumption DEF Queries
  <1> DEFINE seen == fetch["messaged"].seen
  <1>4. seen \subseteq rows /\ nextId \in Nat
    BY <1>1, Types DEF Overlaps, Queries, Lists
  <1> HIDE DEF seen
  <1>5. Numbered(seen, nextId)
    BY <1>1, <1>4 DEF Delivery, Numbered
  <1>6. /\ MessagedFrom(seen) \in Seq(Conversation) /\ Apart(MessagedFrom(seen))
        /\ \A c \in ToSet(MessagedFrom(seen)) : c.last \in IdsOf(seen, c.match)
    BY <1>4, <1>5, MessagedIs
  <1>7. \A m : IdsOf(seen, m) \subseteq Ids(m)
    BY <1>4 DEF IdsOf, Ids
  <1>8. /\ messaged' \in Seq(Conversation) /\ Apart(messaged')
        /\ \A c \in ToSet(messaged') : c.last \in Ids(c.match)
    BY <1>1, <1>6, <1>7 DEF seen
  <1>9. unmessaged' \subseteq Matches
    BY <1>1 DEF UnmessagedFrom
  <1> QED  BY <1>1, <1>2, <1>3, <1>8, <1>9, PagesKeep

\* The INSERT commits: the message is on its way to the chat.
LEMMA CommitKeeps == ASSUME IInv, NEW r \in Requests, Commit(r)
  PROVE  IInv'
  <1>1. TypeOK /\ Delivery /\ Shown /\ ChatsComplete
    BY DEF IInv
  <1>2. /\ Delivery' /\ req' \in [Requests -> Fields] /\ Row(r) \in Message
        /\ rows' = rows \union {Row(r)}
    BY <1>1, CommitDelivers
  <1>3. UNCHANGED <<nextId, wire, page, cache, fetch>> /\ Spoils({}) /\ req[r].state = "inserting"
    BY DEF Commit, Observe
  <1>4. /\ Only(r) /\ req'[r].state = "stored" /\ req'[r].match = req[r].match
        /\ req'[r].id = req[r].id
    BY <1>1, SetStateIs DEF Commit, States
  <1>5. spoiled \subseteq spoiled' /\ TakesGreater
    BY <1>1, <1>3, <1>4, Observed, NoneTaken
  <1>6. RowsGrow /\ Reads
    BY <1>2, <1>3 DEF RowsGrow, Reads
  <1>7. Shown'
    BY <1>1, <1>2, <1>3, ShownStays DEF cache
  <1>8. ASSUME NEW m \in Matches, m \in loaded', m \notin spoiled' PROVE Complete(m)'
    <2>1. Complete(m) /\ history'[m] = history[m]
      BY <1>1, <1>3, <1>5, <1>8 DEF ChatsComplete, cache
    <2>2. CASE req[r].match # m
      <3>1. Coming(m)' = Coming(m)
        <4>1. \A s \in Requests : s # r => req'[s] = req[s]
          BY <1>4 DEF Only
        <4>2. req'[r].match # m
          BY <1>4, <2>2
        <4>3. ASSUME NEW i PROVE i \in Coming(m)' <=> i \in Coming(m)
          BY <1>3, <2>2, <4>1, <4>2, InComing
        <4> QED  BY <4>3
      <3>2. Ids(m)' = Ids(m)
        BY <1>2, <2>2 DEF Ids, Row
      <3> QED  BY <1>5, <2>1, <3>1, <3>2, StaysComplete
    <2>3. CASE req[r].match = m
      <3> DEFINE id == req[r].id
      <3>1. Ids(m)' = Ids(m) \union {id}
        BY <1>2, <2>3 DEF Ids, Row
      <3>2. id \notin Ids(m)
        BY <1>1, <1>3 DEF Delivery, Progress, Ids
      <3>3. Coming(m)' = Coming(m) \union {id}
        <4>1. \A s \in Requests : s # r => req'[s] = req[s]
          BY <1>4 DEF Only
        <4>2. wire' = wire /\ req[r].state \notin {"stored", "published"}
          BY <1>3
        <4>3. /\ req'[r].match = m /\ req'[r].id = id
              /\ req'[r].state \in {"stored", "published"}
          BY <1>4, <2>3
        <4> HIDE DEF id
        <4>4. ASSUME NEW i, i \in Coming(m) PROVE i \in Coming(m)'
          <5>1. CASE \E p \in ToSet(wire) : p.match = m /\ p.id = i
            BY <4>2, <5>1, InComing
          <5>2. ASSUME NEW s \in Requests, req[s].match = m, req[s].id = i,
                       req[s].state \in {"stored", "published"}
                PROVE  i \in Coming(m)'
            <6>1. req'[s] = req[s]
              BY <4>1, <4>2, <5>2
            <6> QED  BY <5>2, <6>1, InComing
          <5> QED  BY <4>4, <5>1, <5>2, InComing
        <4>5. id \in Coming(m)'
          BY <4>3, InComing
        <4>6. ASSUME NEW i, i \in Coming(m)', i # id PROVE i \in Coming(m)
          BY <4>1, <4>2, <4>3, <4>6, InComing
        <4> QED  BY <4>4, <4>5, <4>6
      <3>4. LeftOut(m)' = LeftOut(m) /\ id \notin LeftOut(m)
        BY <2>1, <3>1, <3>2, <3>3 DEF LeftOut
      <3>5. ASSUME NEW i \in LeftOut(m) PROVE IsOlder(i, m)'
        <4>1. IsOlder(i, m) /\ \E s \in rows : s.id = i
          BY <2>1, <3>5 DEF Complete, LeftOut, Ids
        <4>2. i < id
          BY <1>3, <2>3, <4>1 DEF IsOlder
        <4>3. \A j \in ToSet(history'[m]) \union Coming(m)' : i < j
          BY <2>1, <3>3, <4>1, <4>2 DEF IsOlder
        <4> QED  BY <1>5, <4>1, <4>3 DEF IsOlder, TakesGreater
      <3>6. ToSet(history'[m]) \intersect Coming(m)' = {}
        BY <1>1, <2>1, <3>2, <3>3 DEF Complete, Shown
      <3> QED  BY <2>1, <3>4, <3>5, <3>6 DEF Complete
    <2> QED  BY <2>2, <2>3
  <1>9. ChatsComplete'
    BY <1>8 DEF ChatsComplete
  <1>10. rows' \subseteq Message
    BY <1>1, <1>2, Types
  <1> QED  BY <1>1, <1>2, <1>3, <1>6, <1>7, <1>9, <1>10, Together, Types DEF cache

\* It is published, and stays on its way, or its push is lost and spoils the chat.
LEMMA PublishKeeps == ASSUME IInv, NEW r \in Requests, Publish(r)
  PROVE  IInv'
  <1>1. TypeOK /\ Delivery /\ Shown /\ ChatsComplete
    BY DEF IInv
  <1>2. /\ Delivery' /\ req' \in [Requests -> Fields] /\ wire' \in Seq(Message) /\ Only(r)
        /\ req[r].state = "stored" /\ Row(r) \in rows
        /\ IF req[r].from = "me"
           THEN wire' = wire /\ req'[r].state = "published" /\ Row(r)' = Row(r)
           ELSE req'[r] = Ended /\ (wire' = Append(wire, Row(r)) \/ wire' = wire)
    BY <1>1, PublishDelivers
  <1>3. UNCHANGED <<server, page, cache, fetch>> /\ rows' = rows /\ nextId' = nextId
    BY DEF Publish, server
  <1>4. req[r].match \in Matches /\ wire \in Seq(Message) /\ Row(r) \in Message
    BY <1>1, <1>2, Types DEF Delivery, Progress, UnderWay
  <1>5. PICK S \in {{}, {req[r].match}} :
          /\ Spoils(S)
          /\ req[r].from # "me" /\ S = {} => wire' = Append(wire, Row(r))
    BY DEF Publish, Pushed, Observe, Recipient
  <1>6. S \subseteq Matches /\ spoiled \union S \subseteq spoiled'
    <2>1. S \subseteq Matches
      BY <1>4
    <2> QED  BY <1>1, <1>5, <2>1, Observed
  <1>7. ASSUME NEW m \in Matches \ spoiled' PROVE Coming(m)' = Coming(m)
    <2>1. \A s \in Requests : s # r => req'[s] = req[s]
      BY <1>2 DEF Only
    <2>2. CASE req[r].from = "me"
      <3>1. req'[r].match = req[r].match /\ req'[r].id = req[r].id
        BY <1>2, <2>2 DEF Row
      <3>2. ASSUME NEW i PROVE i \in Coming(m)' <=> i \in Coming(m)
        BY <1>2, <2>1, <2>2, <3>1, InComing
      <3> QED  BY <3>2
    <2>3. CASE wire' = Append(wire, Row(r)) /\ req'[r] = Ended
      <3>1. ToSet(wire') = ToSet(wire) \union {Row(r)}
        BY <1>4, <2>3, AppendList
      <3>2. req'[r].state = "ended" /\ Row(r).match = req[r].match /\ Row(r).id = req[r].id
        BY <2>3, EndedIs DEF Row
      <3>3. ASSUME NEW i, i \in Coming(m) PROVE i \in Coming(m)'
        <4>1. CASE \E p \in ToSet(wire) : p.match = m /\ p.id = i
          BY <3>1, <4>1, InComing
        <4>2. ASSUME NEW s \in Requests, req[s].match = m, req[s].id = i,
                     req[s].state \in {"stored", "published"}
              PROVE  i \in Coming(m)'
          <5>1. CASE s = r
            <6>1. Row(r) \in ToSet(wire') /\ Row(r).match = m /\ Row(r).id = i
              BY <3>1, <3>2, <4>2, <5>1
            <6> QED  BY <6>1, InComing
          <5>2. CASE s # r
            BY <2>1, <4>2, <5>2, InComing
          <5> QED  BY <5>1, <5>2
        <4> QED  BY <3>3, <4>1, <4>2, InComing
      <3>4. ASSUME NEW i, i \in Coming(m)' PROVE i \in Coming(m)
        <4>1. ASSUME NEW p \in ToSet(wire'), p.match = m, p.id = i PROVE i \in Coming(m)
          <5>1. CASE p \in ToSet(wire)
            BY <4>1, <5>1, InComing
          <5>2. CASE p = Row(r)
            <6>1. req[r].match = m /\ req[r].id = i /\ req[r].state \in {"stored", "published"}
              BY <1>2, <3>2, <4>1, <5>2
            <6> QED  BY <6>1, InComing
          <5> QED  BY <3>1, <4>1, <5>1, <5>2
        <4>2. ASSUME NEW s \in Requests, req'[s].match = m, req'[s].id = i,
                     req'[s].state \in {"stored", "published"}
              PROVE  i \in Coming(m)
          <5>1. s # r
            BY <3>2, <4>2
          <5> QED  BY <2>1, <4>2, <5>1, InComing
        <4> QED  BY <3>4, <4>1, <4>2, InComing
      <3> QED  BY <3>3, <3>4
    <2>4. CASE wire' = wire /\ req'[r] = Ended /\ req[r].match # m
      <3>1. req'[r].state = "ended"
        BY <2>4, EndedIs
      <3> QED  BY <1>2, <2>4, <3>1, ComingStays
    <2> QED  BY <1>2, <1>5, <1>6, <1>7, <2>2, <2>3, <2>4
  <1>8. ChatsComplete'
    <2>1. TakesGreater
      BY <1>2, EndedIs, NoneTaken
    <2> QED  BY <1>1, <1>3, <1>6, <1>7, <2>1, ChatsStay DEF cache
  <1>9. RowsGrow /\ Reads /\ Shown'
    BY <1>1, <1>3, ShownStays DEF RowsGrow, Reads, cache
  <1> QED  BY <1>1, <1>2, <1>3, <1>5, <1>6, <1>8, <1>9, Together, Types DEF cache

\* An answer or all pushes are lost: the chats they are of are spoiled.
LEMMA LossesKeep == ASSUME IInv, LosePushes \/ \E r \in Requests : LoseAnswer(r)
  PROVE  IInv'
  <1>1. TypeOK /\ Delivery /\ Shown /\ ChatsComplete /\ UNCHANGED <<server, page, cache, fetch>>
        /\ rows' = rows /\ nextId' = nextId
    BY DEF IInv, LosePushes, LoseAnswer, server
  <1>2. RowsGrow /\ Reads /\ Shown'
    BY <1>1, ShownStays DEF RowsGrow, Reads, cache
  <1>3. CASE LosePushes
    <2> DEFINE S == {p.match : p \in ToSet(wire)}
    <2>1. Spoils(S) /\ wire' = <<>> /\ req' = req
      BY <1>3 DEF LosePushes
    <2>2. S \subseteq Matches /\ \A p \in ToSet(wire) : p.match \in S
      <3>1. ToSet(wire) \subseteq Message
        BY <1>1, Types, ListIs
      <3> QED  BY <3>1 DEF Message
    <2> HIDE DEF S
    <2>3. spoiled \union S \subseteq spoiled'
      BY <1>1, <2>1, <2>2, Observed
    <2>4. ToSet(wire') = {} /\ IsInjective(wire') /\ wire' \in Seq(Message)
      BY <2>1, EmptyList, EmptySeq
    <2>5. Delivery'
      BY <1>1, <2>1, <2>4, DeliveryGoesOn DEF Taken
    <2>6. ASSUME NEW m \in Matches \ spoiled' PROVE Coming(m)' = Coming(m)
      <3>1. \A p \in ToSet(wire) : p.match # m
        BY <2>2, <2>3, <2>6
      <3>2. ASSUME NEW i PROVE i \in Coming(m)' <=> i \in Coming(m)
        BY <2>1, <2>4, <3>1, InComing
      <3> QED  BY <3>2
    <2>7. ChatsComplete'
      BY <1>1, <2>1, <2>3, <2>6, ChatsStay DEF cache, TakesGreater
    <2> QED  BY <1>1, <1>2, <2>1, <2>2, <2>4, <2>5, <2>7, Together, Types DEF cache
  <1>4. ASSUME NEW r \in Requests, LoseAnswer(r) PROVE IInv'
    <2>1. /\ Delivery' /\ req' \in [Requests -> Fields] /\ Only(r) /\ wire' = wire
          /\ req'[r].state # "stored" /\ req'[r].state # "published" /\ TakesGreater
      BY <1>1, <1>4, OthersDeliver, NoneTaken
    <2>2. Spoils({req[r].match}) /\ req[r].match \in Matches
      BY <1>1, <1>4 DEF LoseAnswer, Delivery, Progress, UnderWay
    <2>3. spoiled \union {req[r].match} \subseteq spoiled'
      BY <1>1, <2>2, Observed
    <2>4. \A m \in Matches \ spoiled' : Coming(m)' = Coming(m)
      BY <2>1, <2>3, ComingStays
    <2>5. ChatsComplete'
      BY <1>1, <2>1, <2>3, <2>4, ChatsStay DEF cache
    <2> QED  BY <1>1, <1>2, <2>1, <2>2, <2>5, Together, Types DEF cache
  <1> QED  BY <1>3, <1>4

\* A message arrives in its chat: it was on its way to it, and is so no more.
LEMMA ArrivalCompletes ==
  ASSUME TypeOK, Shown, ChatsComplete, TakesGreater, rows' = rows, loaded' = loaded, spoiled \subseteq spoiled',
         NEW k \in Matches, NEW id \in Coming(k), id \in Ids(k), Prepend(k, id),
         \A m \in Matches \ {k} : Coming(m)' = Coming(m),
         k \in loaded => Coming(k)' = Coming(k) \ {id}
  PROVE  ChatsComplete'
  <1> SUFFICES ASSUME NEW m \in Matches, m \in loaded, m \notin spoiled' PROVE Complete(m)'
    BY DEF ChatsComplete
  <1>1. Complete(m) /\ Ids(m)' = Ids(m)
    BY DEF ChatsComplete, Ids
  <1>2. CASE m # k
    <2>1. history'[m] = history[m] /\ Coming(m)' = Coming(m)
      BY <1>2, PrependIs
    <2> QED  BY <1>1, <2>1, StaysComplete
  <1>3. CASE m = k
    <2>1. id \notin ToSet(history[m]) /\ IsInjective(history[m])
      BY <1>1, <1>3 DEF Complete
    <2>2. /\ ToSet(history'[m]) = {id} \union ToSet(history[m]) /\ IsInjective(history'[m])
          /\ Len(history'[m]) = Len(history[m]) + 1 /\ Len(history[m]) \in Nat
      BY <1>3, <2>1, PrependIs, Types, LenProperties
    <2>3. Coming(m)' = Coming(m) \ {id}
      BY <1>3
    <2>4. /\ ToSet(history'[m]) \union Coming(m)' = ToSet(history[m]) \union Coming(m)
          /\ ToSet(history'[m]) \intersect Coming(m)' = {}
      BY <1>1, <1>3, <2>2, <2>3 DEF Complete
    <2>5. LeftOut(m)' = LeftOut(m)
      BY <1>1, <2>4 DEF LeftOut
    <2>6. LeftOut(m)' # {} => Len(history'[m]) >= Limit
      BY <1>1, <2>2, <2>5, LimitAssumption DEF Complete
    <2>7. ASSUME NEW i \in LeftOut(m) PROVE IsOlder(i, m)'
      <3>1. IsOlder(i, m) /\ \E s \in rows : s.id = i
        BY <1>1, <2>7 DEF Complete, LeftOut, Ids
      <3> QED  BY <2>4, <3>1 DEF IsOlder, TakesGreater
    <2> QED  BY <2>2, <2>4, <2>5, <2>6, <2>7 DEF Complete
  <1> QED  BY <1>2, <1>3

LEMMA PushKeeps == ASSUME IInv, OnPush
  PROVE  IInv'
  <1> DEFINE p == Head(wire)
  <1>1. TypeOK /\ Delivery /\ Shown /\ ChatsComplete
    BY DEF IInv
  <1>2. /\ wire # <<>> /\ wire' = Tail(wire) /\ UNCHANGED <<server, req, page, loaded>>
        /\ rows' = rows /\ nextId' = nextId /\ Spoils({})
        /\ Prepend(p.match, p.id) /\ ApplyNewMessage(p.match, p.id)
    BY DEF OnPush, server, Observe
  <1>3. wire \in Seq(Message) /\ IsInjective(wire) /\ ToSet(wire) \subseteq rows /\ rows \subseteq Message
    BY <1>1, Types DEF Delivery, Pushes
  <1>4. /\ p \in Message /\ wire' \in Seq(Message) /\ IsInjective(wire')
        /\ ToSet(wire) = {p} \union ToSet(wire') /\ p \notin ToSet(wire')
    BY <1>2, <1>3, TailList
  <1> HIDE DEF p
  <1>0. PICK m, id : m = p.match /\ id = p.id
    OBVIOUS
  <1>5. p \in rows /\ m \in Matches /\ id \in Ids(m)
    BY <1>0, <1>3, <1>4 DEF Message, Ids
  <1>6. Delivery'
    BY <1>1, <1>2, <1>4, DeliveryGoesOn DEF Taken
  <1>7. \A q \in ToSet(wire') : q.id # id
    BY <1>0, <1>1, <1>3, <1>4, <1>5 DEF Delivery, Numbered
  <1>8. \A r \in Requests : req[r].state \in Carrying => req[r].id # id
    BY <1>0, <1>1, <1>4 DEF Delivery, Pushes
  <1>9. id \in Coming(m)
    BY <1>0, <1>4, InComing
  <1>10. Coming(m)' = Coming(m) \ {id}
    <2>1. req' = req
      BY <1>2
    <2>2. ASSUME NEW i, i \in Coming(m), i # id PROVE i \in Coming(m)'
      <3>1. CASE \E q \in ToSet(wire) : q.match = m /\ q.id = i
        <4>1. PICK q \in ToSet(wire) : q.match = m /\ q.id = i
          BY <3>1
        <4>2. q \in ToSet(wire')
          BY <1>0, <1>4, <2>2, <4>1
        <4> QED  BY <4>1, <4>2, InComing
      <3>2. CASE \E s \in Requests : /\ req[s].match = m /\ req[s].id = i
                                     /\ req[s].state \in {"stored", "published"}
        BY <2>1, <3>2, InComing
      <3> QED  BY <2>2, <3>1, <3>2, InComing
    <2>3. ASSUME NEW i, i \in Coming(m)' PROVE i \in Coming(m)
      BY <1>4, <2>1, <2>3, InComing
    <2>4. ASSUME id \in Coming(m)' PROVE FALSE
      <3>1. \/ \E q \in ToSet(wire') : q.match = m /\ q.id = id
            \/ \E s \in Requests : /\ req'[s].match = m /\ req'[s].id = id
                                 /\ req'[s].state \in {"stored", "published"}
        BY <2>4, InComing
      <3> QED  BY <1>7, <1>8, <2>1, <3>1 DEF Carrying
    <2> QED  BY <2>2, <2>3, <2>4
  <1>11. ASSUME NEW k \in Matches \ {m} PROVE Coming(k)' = Coming(k)
    <2>1. req' = req /\ p.match # k
      BY <1>0, <1>2, <1>11
    <2>2. ASSUME NEW i, i \in Coming(k) PROVE i \in Coming(k)'
      <3>1. CASE \E q \in ToSet(wire) : q.match = k /\ q.id = i
        <4>1. PICK q \in ToSet(wire) : q.match = k /\ q.id = i
          BY <3>1
        <4>2. q \in ToSet(wire')
          BY <1>4, <2>1, <4>1
        <4> QED  BY <4>1, <4>2, InComing
      <3>2. CASE \E s \in Requests : /\ req[s].match = k /\ req[s].id = i
                                     /\ req[s].state \in {"stored", "published"}
        BY <2>1, <3>2, InComing
      <3> QED  BY <2>2, <3>1, <3>2, InComing
    <2>3. ASSUME NEW i, i \in Coming(k)' PROVE i \in Coming(k)
      BY <1>4, <2>1, <2>3, InComing
    <2> QED  BY <2>2, <2>3
  <1>12. spoiled \subseteq spoiled'
    BY <1>1, <1>2, Observed
  <1>13. Prepend(m, id) /\ ApplyNewMessage(m, id) /\ loaded' = loaded /\ TakesGreater
    BY <1>0, <1>2 DEF TakesGreater
  <1>14. ChatsComplete'
    <2>1. /\ TypeOK /\ Shown /\ ChatsComplete /\ rows' = rows /\ loaded' = loaded
          /\ spoiled \subseteq spoiled' /\ m \in Matches /\ id \in Coming(m) /\ id \in Ids(m)
          /\ Prepend(m, id) /\ Coming(m)' = Coming(m) \ {id} /\ TakesGreater
      BY <1>1, <1>2, <1>5, <1>9, <1>10, <1>12, <1>13
    <2>2. \A k \in Matches \ {m} : Coming(k)' = Coming(k)
      BY <1>11
    <2> QED  BY <2>1, <2>2, ArrivalCompletes
  <1>15. /\ history' \in [Matches -> Seq(Nat)]
         /\ \A k \in Matches : ToSet(history'[k]) \subseteq Ids(k)
    BY <1>1, <1>5, <1>13, PrependIs
  <1>16. /\ unmessaged' \subseteq Matches /\ messaged' \in Seq(Conversation)
         /\ Apart(messaged') /\ \A c \in ToSet(messaged') : c.last \in Ids(c.match)
         /\ fetch' \in [Queries -> Fetches] /\ Reads
    BY <1>1, <1>5, <1>13, ApplyIs
  <1>17. \A k : Ids(k)' = Ids(k)
    BY <1>2 DEF Ids
  <1>18. Shown' /\ RowsGrow
    BY <1>2, <1>15, <1>16, <1>17 DEF Shown, RowsGrow
  <1> QED  BY <1>1, <1>2, <1>4, <1>6, <1>14, <1>15, <1>16, <1>18, Together, Types

\* The answer to my own message, into the caches or first a refetch, and what handleSend
\* does after that.
LEMMA AnswersKeep == ASSUME IInv, NEW r \in Requests, Receive(r) \/ HandleSendGoesOn(r)
  PROVE  IInv'
  <1>0. PICK m, id : m = req[r].match /\ id = req[r].id
    OBVIOUS
  <1>1. TypeOK /\ Delivery /\ Shown /\ ChatsComplete
    BY DEF IInv
  <1>2. /\ Delivery' /\ req' \in [Requests -> Fields] /\ Only(r)
        /\ rows' = rows /\ nextId' = nextId /\ wire' = wire
        /\ req'[r].state # "stored" /\ req'[r].state # "published" /\ TakesGreater
    BY <1>1, OthersDeliver, NoneTaken
  <1>3. /\ UNCHANGED <<page, loaded>> /\ Spoils({})
        /\ req[r].state \in {"published", "refetching"}
    BY DEF Receive, HandleSendGoesOn, Observe
  <1>4. Row(r) \in rows /\ m \in Matches /\ id \in Ids(m)
    <2>1. Row(r) \in rows /\ m \in Matches
      BY <1>0, <1>1, <1>3 DEF Delivery, Progress, UnderWay
    <2> QED  BY <1>0, <2>1 DEF Ids, Row
  <1>5. spoiled \subseteq spoiled' /\ \A k : Ids(k)' = Ids(k)
    BY <1>1, <1>2, <1>3, Observed DEF Ids
  <1>6. \A k \in Matches \ {m} : Coming(k)' = Coming(k)
    BY <1>0, <1>2, ComingStays
  <1>7. RowsGrow
    BY <1>2 DEF RowsGrow
  <1>8. CASE Receive(r) /\ m \in loaded
    <2>1. Prepend(m, id) /\ ApplyNewMessage(m, id) /\ req[r].state = "published"
      BY <1>0, <1>8 DEF Receive
    <2>2. id \in Coming(m)
      BY <1>0, <2>1, InComing
    <2>3. Coming(m)' = Coming(m) \ {id}
      <3>1. \A s \in Requests \ {r} : req'[s] = req[s]
        BY <1>2 DEF Only
      <3>2. \A s \in Requests \ {r} : req[s].state \in {"stored", "published"} => req[s].id # id
        BY <1>0, <1>1, <2>1 DEF Delivery, Progress, Carrying
      <3>3. \A p \in ToSet(wire) : p.id # id
        BY <1>0, <1>1, <2>1 DEF Delivery, Pushes, Carrying
      <3>4. ASSUME NEW i, i \in Coming(m), i # id PROVE i \in Coming(m)'
        <4>1. CASE \E p \in ToSet(wire) : p.match = m /\ p.id = i
          BY <1>2, <4>1, InComing
        <4>2. CASE \E s \in Requests : /\ req[s].match = m /\ req[s].id = i
                                       /\ req[s].state \in {"stored", "published"}
          <5>1. PICK s \in Requests : /\ req[s].match = m /\ req[s].id = i
                                      /\ req[s].state \in {"stored", "published"}
            BY <4>2
          <5>2. req'[s] = req[s]
            BY <1>0, <3>1, <3>4, <5>1
          <5> QED  BY <5>1, <5>2, InComing
        <4> QED  BY <3>4, <4>1, <4>2, InComing
      <3>5. ASSUME NEW i, i \in Coming(m)' PROVE i \in Coming(m)
        <4>1. CASE \E p \in ToSet(wire) : p.match = m /\ p.id = i
          BY <4>1, InComing
        <4>2. CASE \E s \in Requests : /\ req'[s].match = m /\ req'[s].id = i
                                       /\ req'[s].state \in {"stored", "published"}
          <5>1. PICK s \in Requests : /\ req'[s].match = m /\ req'[s].id = i
                                      /\ req'[s].state \in {"stored", "published"}
            BY <4>2
          <5>2. s # r /\ req'[s] = req[s]
            BY <1>2, <3>1, <5>1
          <5> QED  BY <5>1, <5>2, InComing
        <4> QED  BY <1>2, <3>5, <4>1, <4>2, InComing
      <3>6. id \notin Coming(m)'
        BY <1>0, <1>2, <3>1, <3>2, <3>3, InComing
      <3> QED  BY <3>4, <3>5, <3>6
    <2>4. ChatsComplete'
      <3>1. /\ TypeOK /\ Shown /\ ChatsComplete /\ rows' = rows /\ loaded' = loaded
            /\ spoiled \subseteq spoiled' /\ m \in Matches /\ id \in Coming(m) /\ id \in Ids(m)
            /\ Prepend(m, id) /\ Coming(m)' = Coming(m) \ {id} /\ TakesGreater
        BY <1>1, <1>2, <1>3, <1>4, <1>5, <2>1, <2>2, <2>3
      <3> QED  BY <1>6, <3>1, ArrivalCompletes
    <2>5. /\ history' \in [Matches -> Seq(Nat)]
          /\ \A k \in Matches : ToSet(history'[k]) \subseteq Ids(k)
      BY <1>1, <1>4, <2>1, PrependIs
    <2>6. /\ unmessaged' \subseteq Matches /\ messaged' \in Seq(Conversation)
          /\ Apart(messaged') /\ \A c \in ToSet(messaged') : c.last \in Ids(c.match)
          /\ fetch' \in [Queries -> Fetches] /\ Reads
      BY <1>1, <1>4, <2>1, ApplyIs
    <2>7. Shown'
      BY <1>5, <2>5, <2>6 DEF Shown
    <2> QED  BY <1>1, <1>2, <1>3, <1>7, <2>4, <2>5, <2>6, <2>7, Together, Types
  \* The history of m is not there, or is spoiled: this message was under way all along.
  <1>9. CASE Receive(r) /\ m \notin loaded
    <2>1. Invalidate(m) /\ UNCHANGED <<history, unmessaged, messaged>>
      BY <1>0, <1>9 DEF Receive
    <2>2. fetch' \in [Queries -> Fetches] /\ Reads
      BY <1>1, <1>4, <2>1, InvalidateIs DEF Queries
    <2>3. Shown'
      BY <1>1, <1>2, <2>1, ShownStays
    <2>4. ASSUME NEW k \in Matches, k \in loaded', k \notin spoiled' PROVE Complete(k)'
      <3>1. k # m /\ Complete(k) /\ Coming(k)' = Coming(k) /\ Ids(k)' = Ids(k)
        BY <1>1, <1>3, <1>5, <1>6, <1>9, <2>4 DEF ChatsComplete
      <3> QED  BY <1>2, <2>1, <3>1, StaysComplete
    <2>5. ChatsComplete'
      BY <2>4 DEF ChatsComplete
    <2> QED  BY <1>1, <1>2, <1>3, <1>7, <2>1, <2>2, <2>3, <2>5, Together, Types
  <1>10. CASE HandleSendGoesOn(r)
    <2>1. ApplyNewMessage(m, id) /\ history' = history /\ req[r].state = "refetching"
      BY <1>0, <1>10 DEF HandleSendGoesOn
    <2>2. /\ unmessaged' \subseteq Matches /\ messaged' \in Seq(Conversation)
          /\ Apart(messaged') /\ \A c \in ToSet(messaged') : c.last \in Ids(c.match)
          /\ fetch' \in [Queries -> Fetches] /\ Reads
      BY <1>1, <1>4, <2>1, ApplyIs
    <2>3. Shown'
      BY <1>1, <1>5, <2>1, <2>2 DEF Shown
    <2>4. \A k \in Matches : Coming(k)' = Coming(k)
      BY <1>2, <2>1, ComingStays
    <2>5. ChatsComplete'
      BY <1>1, <1>2, <1>3, <1>5, <2>1, <2>4, ChatsStay
    <2> QED  BY <1>1, <1>2, <1>3, <1>7, <2>1, <2>2, <2>3, <2>5, Together, Types
  <1> QED  BY <1>8, <1>9, <1>10

\* A fetch comes back: of an unspoiled chat it has read everything.
LEMMA ReturnKeeps == ASSUME IInv, NEW q \in Queries, FetchReturns(q)
  PROVE  IInv'
  <1> DEFINE seen == fetch[q].seen
  <1>1. TypeOK /\ Delivery /\ Shown /\ ChatsComplete /\ Overlaps
    BY DEF IInv
  <1>2. /\ UNCHANGED <<server, req, wire, page>> /\ Spoils({}) /\ fetch[q].state = "answered"
        /\ rows' = rows /\ nextId' = nextId /\ loaded' = loaded \union {q}
        /\ history' = IF q \in Matches THEN [history EXCEPT ![q] = HistoryFrom(q, seen)] ELSE history
        /\ unmessaged' = IF q = "unmessaged" THEN UnmessagedFrom(seen) ELSE unmessaged
        /\ messaged' = IF q = "messaged" THEN MessagedFrom(seen) ELSE messaged
        /\ fetch' = [fetch EXCEPT ![q] = Idle]
    BY DEF FetchReturns, server, Observe
  <1>3. seen \subseteq rows /\ nextId \in Nat
    BY <1>1, Types DEF Overlaps
  <1> HIDE DEF seen
  <1>4. Numbered(seen, nextId) /\ \A m : IdsOf(seen, m) \subseteq Ids(m)
    BY <1>1, <1>3 DEF Delivery, Numbered, IdsOf, Ids
  <1>5. /\ HistoryFrom(q, seen) \in Seq(Nat) /\ IsInjective(HistoryFrom(q, seen))
        /\ ToSet(HistoryFrom(q, seen)) \subseteq IdsOf(seen, q)
        /\ \A i \in IdsOf(seen, q) \ ToSet(HistoryFrom(q, seen)) :
              /\ Len(HistoryFrom(q, seen)) >= Limit
              /\ \A j \in ToSet(HistoryFrom(q, seen)) : i < j
    BY <1>3, <1>4, HistoryIs
  <1>6. /\ MessagedFrom(seen) \in Seq(Conversation) /\ Apart(MessagedFrom(seen))
        /\ \A c \in ToSet(MessagedFrom(seen)) : c.last \in IdsOf(seen, c.match)
    BY <1>3, <1>4, MessagedIs
  <1>7. fetch' \in [Queries -> Fetches] /\ Reads /\ RowsGrow
    BY <1>1, <1>2, Types, IdleAsked DEF Reads, RowsGrow
  <1>8. Delivery'
    BY <1>1, <1>2 DEF Delivery, Progress, Pushes, Row
  <1>9. spoiled \subseteq spoiled' /\ \A m : Ids(m)' = Ids(m) /\ Coming(m)' = Coming(m)
    BY <1>1, <1>2, Observed DEF Ids, Coming
  <1>10. /\ history' \in [Matches -> Seq(Nat)]
         /\ \A m \in Matches : /\ m # q => history'[m] = history[m]
                               /\ m = q => history'[m] = HistoryFrom(q, seen)
    BY <1>1, <1>2, <1>5, Types
  <1>11. /\ messaged' \in Seq(Conversation) /\ Apart(messaged')
         /\ \A c \in ToSet(messaged') : c.last \in Ids(c.match)
    BY <1>1, <1>2, <1>4, <1>6, Types DEF Shown
  <1>12. \A m \in Matches : ToSet(history'[m]) \subseteq Ids(m)
    BY <1>1, <1>4, <1>5, <1>10 DEF Shown
  <1>13. Shown'
    BY <1>9, <1>11, <1>12 DEF Shown
  <1>14. ASSUME NEW m \in Matches, m \in loaded', m \notin spoiled' PROVE Complete(m)'
    <2>1. CASE m # q
      <3>1. Complete(m) /\ history'[m] = history[m]
        BY <1>1, <1>2, <1>9, <1>10, <1>14, <2>1 DEF ChatsComplete
      <3>2. TakesGreater
        BY <1>2 DEF TakesGreater
      <3> QED  BY <1>9, <3>1, <3>2, StaysComplete
    <2>2. CASE m = q
      <3>1. ~Moving(q) /\ {s \in seen : s.match = q} = {s \in rows : s.match = q}
        BY <1>1, <1>2, <1>9, <1>14, <2>2 DEF Overlaps, InFlight, seen
      <3>2. IdsOf(seen, q) = Ids(q) /\ Coming(q) = {}
        BY <1>1, <3>1, ComingIs DEF IdsOf, Ids
      <3>3. history'[m] = HistoryFrom(q, seen)
        BY <1>10, <2>2
      <3>4. \A r \in Requests : req'[r].match = m => req'[r].state # "inserting"
        BY <1>2, <2>2, <3>1 DEF Moving, UnderWay
      <3>5. /\ Coming(m)' = {} /\ IsInjective(history'[m])
            /\ LeftOut(m)' = IdsOf(seen, q) \ ToSet(HistoryFrom(q, seen))
        BY <1>5, <1>9, <2>2, <3>2, <3>3 DEF LeftOut
      <3>6. \A i \in LeftOut(m)' : IsOlder(i, m)' /\ Len(history'[m]) >= Limit
        BY <1>5, <3>3, <3>4, <3>5 DEF IsOlder
      <3> QED  BY <3>5, <3>6 DEF Complete
    <2> QED  BY <2>1, <2>2
  <1>15. ChatsComplete'
    BY <1>14 DEF ChatsComplete
  <1>16. unmessaged' \subseteq Matches
    BY <1>1, <1>2, Types DEF UnmessagedFrom
  <1> QED  BY <1>1, <1>2, <1>7, <1>8, <1>10, <1>11, <1>13, <1>15, <1>16, Together, Types


-----------------------------------------------------------------------------
(* The theorems                                                            *)

LEMMA InitInv == Init => IInv
  <1> SUFFICES ASSUME Init PROVE IInv
    OBVIOUS
  <1> USE DEF Init
  <1>1. \A r \in Requests : req[r].state = "new" /\ req[r].id = 0
    BY DEF Request
  <1>2. wire \in Seq(Message) /\ ToSet(wire) = {} /\ IsInjective(wire)
    BY EmptyList, EmptySeq
  <1>3. messaged \in Seq(Conversation) /\ ToSet(messaged) = {} /\ Apart(messaged)
    <2>1. messaged \in Seq(Conversation) /\ ToSet(messaged) = {} /\ IsInjective(messaged)
      BY EmptyList, EmptySeq
    <2> QED  BY <2>1, ApartIs
  <1>4. \A m \in Matches : history[m] \in Seq(Nat) /\ ToSet(history[m]) = {}
    BY EmptyList, EmptySeq
  <1>5. TypeOK
    <2>1. req \in [Requests -> [state : States, match : Matches \union {NoMatch},
                                from : Users, id : Nat]]
      BY DEF Request, States, Users
    <2>2. fetch \in [Queries -> [state : {"none", "asked", "answered"}, seen : SUBSET Message]]
      BY DEF Idle
    <2>3. history \in [Matches -> Seq(Nat)] /\ messaged \in Seq([match : Matches, last : Nat])
      BY <1>3, <1>4 DEF Conversation
    <2> QED  BY <1>2, <2>1, <2>2, <2>3 DEF TypeOK, OtherPages
  <1>6. Delivery
    BY <1>1, <1>2 DEF Delivery, Numbered, Progress, Pushes, Carrying, UnderWay
  <1>7. Overlaps
    <2>1. \A q \in Queries : fetch[q].state = "none" /\ fetch[q].seen = {}
      BY DEF Idle
    <2>2. \A m \in Matches : ~Moving(m)
      BY <1>1, <1>2 DEF Moving, UnderWay
    <2> QED  BY <2>1, <2>2 DEF Overlaps, Queries
  <1>8. Shown /\ ChatsComplete
    BY <1>3, <1>4 DEF Shown, ChatsComplete
  <1> QED  BY <1>5, <1>6, <1>7, <1>8 DEF IInv

LEMMA StutteringKeeps == ASSUME IInv, UNCHANGED vars
  PROVE  IInv'
  <1> USE DEF vars, server, cache, IInv
  <1>1. TypeOK'
    BY DEF TypeOK
  <1>2. Delivery'
    BY DEF Delivery, Numbered, Progress, Row, Pushes
  <1>3. Overlaps'
    <2>1. \A m : Moving(m)' <=> Moving(m)
      BY DEF Moving
    <2>2. \A m : InFlight(m)' <=> InFlight(m)
      BY DEF InFlight
    <2> QED  BY <2>1, <2>2 DEF Overlaps
  <1>4. \A m : Ids(m)' = Ids(m) /\ Coming(m)' = Coming(m)
    BY DEF Ids, Coming
  <1>5. Shown'
    BY <1>4 DEF Shown, Apart
  <1>6. ChatsComplete'
    BY <1>4, StaysComplete DEF ChatsComplete, TakesGreater
  <1> QED  BY <1>1, <1>2, <1>3, <1>5, <1>6

LEMMA StepInv == IInv /\ [Next]_vars => IInv'
  <1> SUFFICES ASSUME IInv, [Next]_vars PROVE IInv'
    OBVIOUS
  <1>1. ASSUME NEW r \in Requests, NEW m \in Matches, NEW u \in Users, Send(r, m, u) PROVE IInv'
    BY <1>1, RequestsKeep
  <1>2. ASSUME NEW r \in Requests, Insert(r) \/ Fail(r) PROVE IInv'
    BY <1>2, RequestsKeep
  <1>3. ASSUME NEW r \in Requests, Commit(r) PROVE IInv'
    BY <1>3, CommitKeeps
  <1>4. ASSUME NEW r \in Requests, Publish(r) PROVE IInv'
    BY <1>4, PublishKeeps
  <1>5. ASSUME NEW r \in Requests, Receive(r) \/ HandleSendGoesOn(r) PROVE IInv'
    BY <1>5, AnswersKeep
  <1>6. ASSUME LosePushes \/ \E r \in Requests : LoseAnswer(r) PROVE IInv'
    BY <1>6, LossesKeep
  <1>7. CASE OnPush
    BY <1>7, PushKeeps
  <1>8. ASSUME NEW q \in Queries, Start(q) \/ ServerReads(q) \/ FetchFails(q) PROVE IInv'
    BY <1>8, FetchesKeep
  <1>9. ASSUME NEW q \in Queries, FetchReturns(q) PROVE IInv'
    BY <1>9, ReturnKeeps
  <1>10. ASSUME OpenInbox \/ RenderFails \/ \E m \in Chats : OpenChat(m) PROVE IInv'
    BY <1>10, VisitsKeep
  <1>11. CASE MountInbox
    BY <1>11, MountKeeps
  <1>12. CASE UNCHANGED vars
    BY <1>12, StutteringKeeps
  <1> QED  BY <1>1, <1>2, <1>3, <1>4, <1>5, <1>6, <1>7, <1>8, <1>9, <1>10, <1>11, <1>12 DEF Next

\* The invariant of a browser's message caches: what is in the table, on its way and in
\* the caches, through every order of sends, pushes, fetches and losses.
THEOREM InvHolds == Spec => []IInv
  <1> QED  BY InitInv, StepInv, PTL DEF Spec

\* The types of the state.
THEOREM MessagingTypes == Spec => []TypeOK
  <1>1. IInv => TypeOK
    BY DEF IInv
  <1> QED  BY <1>1, InvHolds, PTL

\* Nothing is pushed or shown that is not a stored message of that match: SendMessage
\* publishes and answers after CreateMessage, and every list is read from the table.
THEOREM NothingIsPhantom == Spec => []NoPhantom
  <1>1. IInv => NoPhantom
    BY DEF IInv, Delivery, Pushes, Shown, NoPhantom
  <1> QED  BY <1>1, InvHolds, PTL

\* applyNewMessageToMatchesCache takes the match out of its old place, and the endpoint
\* lists each match once: the inbox never has a conversation twice.
THEOREM ConversationsListedOnce == Spec => []ConversationListedOnce
  <1>1. IInv => ConversationListedOnce
    BY DEF IInv, Shown, Apart, ConversationListedOnce, IsInjective
  <1> QED  BY <1>1, InvHolds, PTL

\* A chat no fetch of which overlaps with a message, and which loses none, has every message
\* once as soon as nothing is under way, whatever order pushes (onMessage) and answers
\* (handleSend) came in, but for messages older than those useMessages was last answered.
THEOREM ChatsAreComplete == Spec => []ChatCompleteWithoutOverlap
  <1>1. ASSUME IInv PROVE ChatCompleteWithoutOverlap
    <2> SUFFICES ASSUME Quiet, NEW m \in loaded \ (spoiled \union Lists)
                 PROVE  IsInjective(history[m]) /\ HasNoGap(m, history[m])
      BY DEF ChatCompleteWithoutOverlap
    <2>1. m \in Matches /\ Complete(m)
      BY <1>1 DEF IInv, TypeOK, Queries, ChatsComplete
    <2>2. Coming(m) = {}
      <3>1. ToSet(wire) = {} /\ \A r \in Requests : req[r].state \notin {"stored", "published"}
        BY EmptyList DEF Quiet, UnderWay
      <3> QED  BY <3>1, InComing
    <2> QED  BY <2>1, <2>2 DEF Complete, LeftOut, IsOlder, HasNoGap
  <1> QED  BY <1>1, InvHolds, PTL
=============================================================================
