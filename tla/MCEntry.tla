------------------------------ MODULE MCEntry ------------------------------
(* Instances of Entry for TLC.                                             *)
EXTENDS Entry, TLC
=============================================================================
