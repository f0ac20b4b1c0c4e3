SPECIFICATION FairSpec
CONSTANTS
    h1 = h1  h2 = h2  h3 = h3  h4 = h4  p1 = p1  p2 = p2
    Handler = {h1, h2, h3, h4}
    PaymentId = {p1, p2}
    PoolSize = 2
    MaxMessages = 5
INVARIANTS TypeOK PoolMoves
PROPERTIES EveryHandlerEnds
CHECK_DEADLOCK FALSE
