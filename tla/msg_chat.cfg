\* One match and two messages, from either side, and histories of one message; the inbox is
\* polled while it is open.
SPECIFICATION FairSpec
CONSTANTS
    Matches = {m1}
    Chats = {m1}
    Requests = {1, 2}
    Limit = 1
CHECK_DEADLOCK FALSE
INVARIANTS
    TypeOK
    NoPhantom
    ConversationListedOnce
    ChatCompleteWithoutOverlap
PROPERTIES
    UnmessagedConverges
