\* Three requests of two users, and of an id nobody has: every interleaving
\* of their statements, with a failure after any of them.
SPECIFICATION FairSpec
CONSTANTS
    r1 = r1
    r2 = r2
    r3 = r3
    Users <- TwoUsers
    UserIds <- TwoUsersAndAStranger
    Requests <- ThreeRequests
INVARIANTS
    NoLostMatch
    SomeoneIsTold
    MatchedAnswerNamesTheRow
PROPERTIES
    ImplementsLivePromise
