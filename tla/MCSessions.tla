----------------------------- MODULE MCSessions -----------------------------
(* Small instances of Sessions for TLC. *)
EXTENDS Sessions, TLC

\* The requests of a browser are interchangeable.
Symmetry == Permutations(Requests)
=============================================================================
