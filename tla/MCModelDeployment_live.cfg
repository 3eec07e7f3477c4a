SPECIFICATION FairSpec
CONSTANTS
    MD = {m1}
    Digest = {d1}
    NoDigest = none
    Absent = absent
    NoName = noname
    NoConfigMap = noconfigmap
    ConfigMapAtInstall = TRUE
    KedaRegistered = FALSE
    MaxReplicas = 1
    Limit <- MCLimit
    Specs <- Edited
    Users = 3
    Faulty = 1
    Budgets = 0
    Scalings = 0
    Crashes = 1
PROPERTY EventuallyRouted
PROPERTY EventuallyDeployed
PROPERTY EventuallyGone
CHECK_DEADLOCK FALSE
