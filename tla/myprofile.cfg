\* Two tabs; two files and one save, or one file and two saves; the grid holds two photos.
\* A user who has sent all the requests of the bound stops.
SPECIFICATION Spec
SYMMETRY Symmetry
CONSTANTS
    Tabs = {t1, t2}
    Images = {i1, i2}
    Updates = {u1, u2}
    Slots = 2
    MaxRequests = 3
INVARIANTS
    BrokenPhotoWasToGo
    DeletedPhotoLeavesNoObject
    GridFollowsAnswers
PROPERTIES
    LoneUpdateSetsTags
CHECK_DEADLOCK FALSE
