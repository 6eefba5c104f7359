\* A user installs an OLS operator while the instance installs one.
SPECIFICATION Spec
CONSTANTS
    Text <- MCText
    a = a
    b = b
    Instances = {a}
    NoInstance = none
    User = user
    FirstOwner = none
    Specs <- OneSpec
    OCPHistory <- OneOCP
    Catalog <- OneVersion
    ProperSuffixes = {}
    Recommendations = {"v1"}
    Deletable = {a}
    CSVMayFail = FALSE
    MaxPlans = 1
    MaxUserActs = 1
    MaxRestarts = 0
    MaxFaults = 0
    MaxDisturbances = 1
PROPERTIES
    UserOperatorKept
CHECK_DEADLOCK FALSE
