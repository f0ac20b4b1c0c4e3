SPECIFICATION FairSpec
CONSTANTS
    e1 = e1
    e2 = e2
    e3 = e3
    e4 = e4
    r1 = r1
    r2 = r2
    Event = {e1, e2, e3, e4}
    Relay = {r1, r2}
    Limit = 2
    Created <- MCCreated
    Poison = {e1}
    MaxRefusals = 1
    MaxFaults = 2
INVARIANTS
    PublishedWasSent
    LocksDisjoint
    DuplicatesArePaid
PROPERTIES
    PublicationImplemented
    EventuallyPublished
CHECK_DEADLOCK FALSE
