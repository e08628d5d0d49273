CONSTANTS
    Exchanges = {"X"}
    RoutingKeys = {"rk"}
    Bodies <- MCBodies
    ObjectBodies <- MCBodies
    Comparators <- MCComparators
    Priorities = {0}
    MaxTimes = 1
    TTLs = {}
    NoTTL = NoTTL
    NoMatch = NoMatch
    MaxExpectations = 1
    MaxMatches = 3
    MaxTime = 0
    MaxInsertion = 12
    Queues = {"q1"}
    Binding <- OneQueueBinding
    DefaultExchange = DefaultExchange
    PublishVia = {"default"}
    Idempotence = {FALSE, TRUE}
    Ctl = {c1}
    None = None
    MaxSubs = 2
    MaxRequests = 1
    StartupQueues <- NoStartupQueues
    ConnectionLoss = FALSE

SPECIFICATION Spec
CHECK_DEADLOCK FALSE

PROPERTY EveryDeliveryResolved
