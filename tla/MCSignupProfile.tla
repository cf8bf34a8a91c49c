-------------------------- MODULE MCSignupProfile --------------------------
(* A small instance of SignupProfile for TLC.                              *)
EXTENDS SignupProfile, TLC

\* The end of February of a year that is no leap year.
EndOfFebruary == <<<<2026, 2, 28>>, <<2026, 3, 1>>>>

\* Dates on whose anniversary one turns 30 (without a 29 February), 36 or 18 between
\* the two days, and one that does not exist.
Boundaries == {{<<1996, 2, 29>>}, {<<1990, 3, 1>>}, {<<2008, 3, 1>>}, {<<1997, 2, 29>>}}

SignupSymmetry == Permutations(Tabs) \union Permutations(Calls)
=============================================================================
