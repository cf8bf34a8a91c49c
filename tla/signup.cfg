\* Two tabs and two calls over the end of a February; one date of birth in a behaviour.
SPECIFICATION Spec
CONSTANTS
    Tabs = {t1, t2}
    Calls = {c1, c2}
    Entries <- Boundaries
    Days <- EndOfFebruary
SYMMETRY SignupSymmetry
INVARIANTS
    TypeOK
    RefusedOnlyAcrossABirthday
    OneProfileAsAnswered
