\* The operator restarts with another recommended version, or none, and the
\* OLS operator may fail.
SPECIFICATION Spec
CONSTANTS
    Text <- MCText
    a = a
    b = b
    Instances = {a}
    NoInstance = none
    User = user
    FirstOwner = a
    Specs <- OneSpec
    OCPHistory <- OneOCP
    Catalog <- ThreeVersions
    ProperSuffixes = {}
    Recommendations = {"1.0.1", "1.0.2", ""}
    Deletable = {a}
    CSVMayFail = TRUE
    MaxPlans = 2
    MaxUserActs = 0
    MaxRestarts = 1
    MaxFaults = 0
    MaxDisturbances = 1
INVARIANTS
    RunsRecommendedVersion
CHECK_DEADLOCK FALSE
