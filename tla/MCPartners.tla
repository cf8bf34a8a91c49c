----------------------------- MODULE MCPartners -----------------------------
(* Small instances of Partners for TLC; ids are compared, so no symmetry.  *)
EXTENDS Partners

ThreeIds == {1, 2, 3}

\* One part in a behaviour: they share nothing but the rows, which other
\* devices change too, and the queue of server actions.  Of the two feeds one is
\* enough: with the ids read backwards the other one is the same.
OneByOne == {{"recs"}, {"newest"}, {"likes"}}
=============================================================================
