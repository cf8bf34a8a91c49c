---------------------------- MODULE MCAccounts ----------------------------
(* Instances of Accounts for TLC.                                          *)
EXTENDS Accounts, TLC

CONSTANTS e1, e2, g1, g2

\* Two Google accounts with one email after the other, and one that changed
\* its email.
ThreeClaims == {[sub |-> g1, email |-> e1], [sub |-> g1, email |-> e2],
                [sub |-> g2, email |-> e1]}

RequestSymmetry == Permutations(Requests)
=============================================================================
