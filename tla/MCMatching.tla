---------------------------- MODULE MCMatching ----------------------------
(***************************************************************************)
(* Instances of Matching for TLC.  The requests are interchangeable, the   *)
(* users are not: their ids are compared.                                  *)
(***************************************************************************)
EXTENDS Matching, TLC

CONSTANTS r1, r2, r3

TwoUsers == {1, 2}
TwoUsersAndAStranger == {1, 2, 7}
TwoRequests == {r1, r2}
ThreeRequests == {r1, r2, r3}

RequestSymmetry == Permutations(Requests)
=============================================================================
