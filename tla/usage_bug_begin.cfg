\* Two applications with one thread each: no call of one overtakes another.
SPECIFICATION Spec
CONSTANTS
    Clients = {c1, c2}
    Threads = {t1}
    MaxHandles = 1
    MaxConnects = 3
INVARIANT UsedIsBegun
CHECK_DEADLOCK FALSE
