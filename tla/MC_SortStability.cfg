CONSTANTS
    Exchanges = {"X"}
    RoutingKeys = {"rk1"}
    Bodies <- MCBodies
    ObjectBodies <- MCBodies
    Comparators <- MCComparators
    Priorities = {0}
    MaxTimes = 1
    TTLs = {}
    NoTTL = NoTTL
    NoMatch = NoMatch
    MaxExpectations = 13
    MaxMatches = 1
    MaxTime = 0
    MaxInsertion = 12

INIT Init
NEXT RegNext
CONSTRAINT UnlimitedOnly

PROPERTY ImplementsExpectationsSpec
