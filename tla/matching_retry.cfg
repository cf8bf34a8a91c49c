\* A request fails after its like has committed and the client retries.
SPECIFICATION Spec
CONSTANTS
    r1 = r1
    r2 = r2
    r3 = r3
    Users <- TwoUsers
    UserIds <- TwoUsers
    Requests <- TwoRequests
SYMMETRY RequestSymmetry
PROPERTIES
    SendLikeEstablishesMatch
