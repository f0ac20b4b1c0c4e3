\* The limit is raised from 1 to 2 or 3, or the delay changed with it.
SPECIFICATION Spec
CONSTANTS
    r1 = r1  c1 = c1  m1 = m1
    Relay = {r1}
    Consumer = {c1}
    Message = {m1}
    Settings <- MCSettings
    Millisecond = 2
    MaxTtl = 2
    MaxCrashes = 1
    MaxChanges = 1
INVARIANTS NothingDropped
CHECK_DEADLOCK FALSE
