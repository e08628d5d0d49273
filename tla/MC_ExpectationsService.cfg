CONSTANTS
    Exchanges = {"X"}
    RoutingKeys = {"rk1"}
    Bodies <- MCBodies
    Comparators <- MCComparators
    ObjectBodies <- MCObjects
    Priorities = {0, 1}
    MaxTimes = 2
    TTLs = {1}
    NoTTL = NoTTL
    NoMatch = NoMatch
    MaxExpectations = 2
    MaxMatches = 3
    MaxTime = 2
    MaxInsertion = 12

INIT Init
NEXT RegNext

INVARIANT TypeOK
INVARIANT UsageAccounting
INVARIANT SnapshotReflectsUse
PROPERTY ImplementsExpectationsSpec
