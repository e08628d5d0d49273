CONSTANTS
    Scalars = {"x", "y"}
    Keys = {ka, kb}
    MaxDepth = 2
    MaxArrayLen = 2
    InvalidJSON = InvalidJSON
    Patterns <- MCPatterns
    BadPattern = BadPattern
INIT MCInit
NEXT MCMatch
INVARIANT MatchFollowsSpec
INVARIANT ReportedRequestRebuilds
CHECK_DEADLOCK FALSE
