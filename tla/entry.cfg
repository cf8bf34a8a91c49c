\* Two tabs of a browser that two people use.
SPECIFICATION FairSpec
CONSTANTS
    Tabs = {t1, t2}
    Users = {u1, u2}
INVARIANTS
    HasIsOfThisAccount
PROPERTIES
    ProfileCookieCatchesUp
