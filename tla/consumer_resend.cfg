SPECIFICATION Spec
CONSTANTS
    p1 = p1
    p2 = p2
    h1 = h1
    h2 = h2
    PaymentId = {p1}
    Handler = {h1, h2}
    Malformed = Malformed
    StatusCode <- MCStatusCode
    MaxAttempts = 2
    MaxSends <- MCMaxSends
    MaxRedrives = 0
    MaxFaults = 0
PROPERTY
    RecordedDeliveryNotResent
CHECK_DEADLOCK FALSE
