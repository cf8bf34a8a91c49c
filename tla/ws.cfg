\* Two tabs of one user and two payloads: connections come and go, and peers stall or
\* leave at any moment, while the subscriber is pushing.
SPECIFICATION FairSpec
CONSTANTS
    Users = {u1}
    Conns = {c1, c2}
    Tickets = {t1, t2}
    MaxPublished = 2
CHECK_DEADLOCK FALSE
INVARIANTS
    TypeOK
    HubListsOpenConnections
    InOrderAndOnce
    NobodyIsSkipped
    OneWriterAtATime
PROPERTIES
    SubscriberReturns
    LostPeerIsCleanedUp
