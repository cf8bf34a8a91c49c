\* Three requests of any kind, two emails and two Google accounts.
SPECIFICATION Spec
CONSTANTS
    e1 = e1
    e2 = e2
    g1 = g1
    g2 = g2
    Emails = {e1, e2}
    Claims <- ThreeClaims
    Requests = {r1, r2, r3}
SYMMETRY RequestSymmetry
CHECK_DEADLOCK FALSE
INVARIANTS
    OneAccountPerEmail
    SignUpIsWhole
    SameGoogleSameUser
    AnsweredSignUpOwnsAccount
