SPECIFICATION FairSpec
CONSTANTS
    Workers = {w1, w2}
    Producers = {p1, p2}
    Items = {i1, i2, i3, i4}
    Capacity = 2
    NoItem = none
INVARIANTS
    EveryItemHasItsPlace
    NobodyIsLeftAsleep
PROPERTIES
    AllWorkIsDone
CHECK_DEADLOCK FALSE
