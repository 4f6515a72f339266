SPECIFICATION BucketSpec
CONSTANTS
    Threads = {t1, t2, t3}
    NoThread = NoThread
    Rate = 2
    Cost = 3
    Capacity = 6
    MaxTime = 6
SYMMETRY Symmetry
INVARIANTS
    BucketOK
    RateBound
    DenialsJustified
