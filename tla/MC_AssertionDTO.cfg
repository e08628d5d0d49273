CONSTANTS
    Exchanges = {"X"}
    RoutingKeys = {"rk1"}
    Bodies <- MCTextBodies
    Comparators <- MCTextComparators
    ObjectBodies <- MCTextObjects
    Priorities = {0}
    MaxTimes = 1
    TTLs = {}
    NoTTL = NoTTL
    NoMatch = NoMatch
    MaxExpectations = 1
    MaxMatches = 1
    MaxTime = 0
    MaxInsertion = 12

INIT Init
NEXT RegNext

INVARIANT AssertionsReportOutcomes
