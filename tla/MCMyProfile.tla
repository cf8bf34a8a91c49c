---------------------------- MODULE MCMyProfile ----------------------------
(* Small instances of MyProfile for TLC. *)
EXTENDS MyProfile, TLC

Symmetry == Permutations(Tabs) \union Permutations(Images) \union Permutations(Updates)
=============================================================================
