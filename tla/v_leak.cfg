\* An instance is deleted while the OLS operator is being installed for it.
SPECIFICATION Spec
CONSTANTS
    Text <- MCText
    a = a
    b = b
    Instances = {a}
    NoInstance = none
    User = user
    FirstOwner = none
    Specs <- OneSpec
    OCPHistory <- OneOCP
    Catalog <- OneVersion
    ProperSuffixes = {}
    Recommendations = {"v1"}
    Deletable = {a}
    CSVMayFail = FALSE
    MaxPlans = 1
    MaxUserActs = 0
    MaxRestarts = 0
    MaxFaults = 0
    MaxDisturbances = 1
INVARIANTS
    NoOperatorLeftBehind
CHECK_DEADLOCK FALSE
