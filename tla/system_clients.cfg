SPECIFICATION FairSpec
CONSTANTS
    q1 = q1
    q2 = q2
    k1 = k1
    f1 = f1
    r1 = r1
    h1 = h1
    Request = {q1, q2}
    Key = {k1}
    Fingerprint = {f1}
    Relay = {r1}
    Limit = 1
    Created <- MCCreated
    Poison = {}
    MaxRefusals = 1
    MaxRelayFaults = 0
    Handler = {h1}
    Malformed = Malformed
    StatusCode <- MCStatusCode
    MaxAttempts = 2
    MaxSends <- MCMaxSendsMalformed
    MaxRedrives = 0
    MaxFaults = 0
INVARIANT
    ObservationsAgree
PROPERTIES
    ReadsMonotone
    EveryPaymentConcluded
CHECK_DEADLOCK FALSE
