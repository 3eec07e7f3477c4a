SPECIFICATION Spec
CONSTANTS
    MD = {m1}
    Digest = {d1, d2}
    NoDigest = none
    Absent = absent
    NoName = noname
    NoConfigMap = noconfigmap
    ConfigMapAtInstall = TRUE
    KedaRegistered = TRUE
    MaxReplicas = 1
    Limit <- MCLimit
    Specs <- KedaSpec
    Users = 3
    Faulty = 0
    Budgets = 1
    Scalings = 1
    Crashes = 0
INVARIANT ScheduledWeightsVerified
PROPERTY PauseSurvives
PROPERTY ReplicasKept
CHECK_DEADLOCK FALSE
