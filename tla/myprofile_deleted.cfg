\* One tab saves while another deletes a photo.
SPECIFICATION Spec
SYMMETRY Symmetry
CONSTANTS
    Tabs = {t1, t2}
    Images = {i1}
    Updates = {u1}
    Slots = 2
    MaxRequests = 3
INVARIANTS
    DeletedStaysDeleted
CHECK_DEADLOCK FALSE
