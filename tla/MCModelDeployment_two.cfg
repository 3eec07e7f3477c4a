SPECIFICATION Spec
CONSTANTS
    MD = {m1, m2}
    Digest = {d1}
    NoDigest = none
    Absent = absent
    NoName = noname
    NoConfigMap = noconfigmap
    ConfigMapAtInstall = TRUE
    KedaRegistered = FALSE
    MaxReplicas = 2
    Limit <- MCLimit
    Specs <- OneSpec
    Users = 3
    Faulty = 0
    Budgets = 0
    Scalings = 0
    Crashes = 1
INVARIANT TypeOK
INVARIANT RouteHasObject
PROPERTY OthersRoutesKept
PROPERTY ImplementsRegistry
SYMMETRY DeploymentSymmetry
CHECK_DEADLOCK FALSE
