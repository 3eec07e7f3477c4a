SPECIFICATION FairSpec
CONSTANTS
    Keys = {k1}
    Peers = {p1}
    Clerks = {c1, c2}
    NoCred = nocred
    MaxSecrets = 3
    MaxRequests = 4
    llama = llama
    other = other
    peer = peer
    svc = svc
    pod1 = pod1
    Deployments <- MCDeployments
    PeerDeployments = {peer}
    AllowedDeployments <- MCAllowed
    Upstreams <- MCUpstreams
    Garbled = garbled
    NoUpstream = noupstream
    Versions <- MCVersions
    NoVersion = noversion
    MaxPods = 1
    MaxEdits = 2
    Hashes = {1}
    Bodies <- MCBodies
    Callers = {r1, r2}
    MaxCalls = 2
    MaxInputs = 4
INVARIANT TypeOK
INVARIANT RevokedNotServed
INVARIANT InvitesHaveRows
INVARIANT StaleIsAnnounced
INVARIANT ChargedAsServed
PROPERTY RevokedForGood
PROPERTY RoutesFollowFile
CHECK_DEADLOCK FALSE
