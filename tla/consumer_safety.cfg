SPECIFICATION Spec
CONSTANTS
    p1 = p1
    p2 = p2
    h1 = h1
    h2 = h2
    PaymentId = {p1}
    Handler = {h1, h2}
    Malformed = Malformed
    StatusCode <- MCStatusCode
    MaxAttempts = 2
    MaxSends <- MCOneSend
    MaxRedrives = 1
    MaxFaults = 1
SYMMETRY Symmetry
INVARIANTS
    TypeOK
    NoLostWebhook
    SettlementExclusive
    WebhookTruthful
    DeliveryRecordTrue
    StaleCopyHarmless
    RetriesBounded
PROPERTIES
    FinalStatusStable
    SettlementImplemented
CHECK_DEADLOCK FALSE
