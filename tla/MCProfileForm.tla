---------------------------- MODULE MCProfileForm ---------------------------
(* Instances of ProfileForm for TLC: all tags in one category.             *)
EXTENDS ProfileForm, TLC

OneCategory == [g \in Tags |-> "category"]

Symmetry == Permutations(EditTabs) \union Permutations(Attributes) \union Permutations(Tags)
=============================================================================
