\* Two applications with two threads each; three connections.
SPECIFICATION FairSpec
CONSTANTS
    Clients = {c1, c2}
    Threads = {t1, t2}
    MaxHandles = 2
    MaxConnects = 3
INVARIANT UsageIsSound
INVARIANT ReleasedAtRest
PROPERTY DepartedUsesEnd
CHECK_DEADLOCK FALSE
