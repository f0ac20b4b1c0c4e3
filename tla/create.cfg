SPECIFICATION FairSpec
CONSTANTS
    q1 = q1
    q2 = q2
    q3 = q3
    k1 = k1
    k2 = k2
    f1 = f1
    f2 = f2
    Request = {q1, q2, q3}
    Key = {k1, k2}
    Fingerprint = {f1, f2}
INVARIANTS
    OutboxMatchesPayments
    OneAnswerPerKey
    ConflictIsReal
    RaceHasWinner
PROPERTIES
    StoreImplemented
    EveryRequestEnds
CHECK_DEADLOCK FALSE
