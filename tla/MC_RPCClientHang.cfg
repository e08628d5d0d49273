CONSTANTS
    ReplyBodies = {"r1", "r2", "nomatch"}
    RouteExists = {TRUE, FALSE}
    MaxReplies = 4
    ConnectionLoss = TRUE
    Nil = Nil
SPECIFICATION Spec


CHECK_DEADLOCK FALSE
PROPERTY CallReturns
