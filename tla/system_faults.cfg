SPECIFICATION Spec
CONSTANTS
    q1 = q1
    q2 = q2
    k1 = k1
    f1 = f1
    r1 = r1
    h1 = h1
    Request = {q1}
    Key = {k1}
    Fingerprint = {f1}
    Relay = {r1}
    Limit = 1
    Created <- MCCreated
    Poison = {}
    MaxRefusals = 0
    MaxRelayFaults = 1
    Handler = {h1}
    Malformed = Malformed
    StatusCode <- MCStatusCode
    MaxAttempts = 2
    MaxSends <- MCMaxSends
    MaxRedrives = 1
    MaxFaults = 1
INVARIANTS
    PaymentNotLost
    EventFindsPayment
    WorkIsPaid
PROPERTY
    RecordedDeliveryNotResent
CHECK_DEADLOCK FALSE
