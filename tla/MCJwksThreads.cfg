CONSTANTS
    Threads = {t1, t2}
    Kids = {k1, k2}
    TTL = 2
    MaxFetch = 1
    Uptimes = {2}
    MaxClock = 6
SPECIFICATION Spec
INVARIANTS TypeOK RetiredKeyLapses
SYMMETRY Symmetry
CHECK_DEADLOCK FALSE
