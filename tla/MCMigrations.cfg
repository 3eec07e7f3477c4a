SPECIFICATION FairSpec
CONSTANTS
    Replicas = {r1, r2, r3}
    Files = 4
    First = 2
    Once = {3}
    MaxCrashes = 2
INVARIANT TypeOK
PROPERTY ImplementsHistory
PROPERTY EventuallyServing
CHECK_DEADLOCK FALSE
