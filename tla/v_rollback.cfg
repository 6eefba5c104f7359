\* The recommended version is raised and lowered again.
SPECIFICATION Spec
CONSTANTS
    Text <- MCText
    a = a
    b = b
    Instances = {a}
    NoInstance = none
    User = user
    FirstOwner = a
    Specs <- OneSpec
    OCPHistory <- OneOCP
    Catalog <- ThreeVersions
    ProperSuffixes = {}
    Recommendations = {"1.0.1", "1.0.2"}
    Deletable = {}
    CSVMayFail = FALSE
    MaxPlans = 2
    MaxUserActs = 0
    MaxRestarts = 2
    MaxFaults = 0
    MaxDisturbances = 2
INVARIANTS
    ExistingVersionChecked
CHECK_DEADLOCK FALSE
