SPECIFICATION FairSpec
CONSTANTS
    d1 = d1
    d2 = d2
    Doc <- Docs
    Chunks = 2
    MaxConns = 3
INVARIANT TypeOK
INVARIANT NoPartialDocument
PROPERTY ImplementsStore
PROPERTY UploadEnds
