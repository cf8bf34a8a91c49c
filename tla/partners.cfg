\* Three others and pages of two; the deck, one feed or
\* the likes received, with two server actions waiting.
SPECIFICATION Spec
CONSTANTS
    Ids <- ThreeIds
    Limit = 2
    Feeds = {"newest"}
    Visits <- OneByOne
    MaxActions = 2
INVARIANTS
    NoProfileTwice
    FeedComplete
    LikedLeavesTheLists
    TotalCountsTheList
    OneDecisionPerCard
\* Everybody decided on and nothing fetched: the session may end.
CHECK_DEADLOCK FALSE
