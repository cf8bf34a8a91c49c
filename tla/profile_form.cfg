\* Two tabs and two saves; more tags than the limit.
SPECIFICATION FormSpec
CONSTANTS
    EditTabs = {t1, t2}
    Attributes = {a1, a2}
    Tags = {g1, g2}
    CategoryOf <- OneCategory
    Limit = 1
    MaxSaves = 2
SYMMETRY Symmetry
INVARIANTS
    FormTypeOK
    FormShowsTheProfile
    TagsAreAsChosen
