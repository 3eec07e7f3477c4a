SPECIFICATION FairSpec
CONSTANTS
    d1 = d1
    d2 = d2
    Doc <- Docs
    Chunks = 1
    MaxConns = 2
PROPERTY PoolNotStarved
