SPECIFICATION FairSpec
CONSTANTS
    r1 = r1  c1 = c1  m1 = m1
    Relay = {r1}
    Consumer = {c1}
    Message = {m1}
    Settings <- MCSettings
    Millisecond = 2
    MaxTtl = 2
    MaxCrashes = 2
    MaxChanges = 1
INVARIANTS TypeOK SameEnvDropsNothing
PROPERTIES DroppedOnlyWhileStarting DelayAsDecided StartsWhenDeclarable EveryEventConcluded
CHECK_DEADLOCK FALSE
