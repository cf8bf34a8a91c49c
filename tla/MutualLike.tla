----------------------------- MODULE MutualLike -----------------------------
(***************************************************************************)
(* What matching promises, without saying how: users like one another, and *)
(* two users who like each other are matched, once, and for good.  The     *)
(* module Matching, which models the statements SendLike executes, is      *)
(* shown to implement this specification.                                  *)
(***************************************************************************)
CONSTANT Users

VARIABLES liked,    \* pairs <<a, b>>: a has sent b a like
          matched   \* sets {a, b}: a and b are matched

vars == <<liked, matched>>

Init == liked = {} /\ matched = {}

Mutual(a, b) == <<a, b>> \in liked /\ <<b, a>> \in liked

Like(a, b) ==
    /\ a # b
    /\ liked' = liked \union {<<a, b>>}
    /\ UNCHANGED matched

\* Only a mutual like makes a match; nothing ever undoes one.
Match(a, b) ==
    /\ Mutual(a, b)
    /\ {a, b} \notin matched
    /\ matched' = matched \union {{a, b}}
    /\ UNCHANGED liked

Next == \E a, b \in Users : Like(a, b) \/ Match(a, b)

Spec == Init /\ [][Next]_vars

\* A mutual like is turned into a match sooner or later.
Liveness(a, b) == WF_vars(Match(a, b))
=============================================================================
