\* The instance that does not own the OLSConfig is deleted.
SPECIFICATION Spec
CONSTANTS
    Text <- MCText
    a = a
    b = b
    Instances = {a, b}
    NoInstance = none
    User = user
    FirstOwner = a
    Specs <- OneSpec
    OCPHistory <- OneOCP
    Catalog <- OneVersion
    ProperSuffixes = {}
    Recommendations = {"v1"}
    Deletable = {b}
    CSVMayFail = FALSE
    MaxPlans = 2
    MaxUserActs = 0
    MaxRestarts = 0
    MaxFaults = 0
    MaxDisturbances = 1
PROPERTIES
    OnlyOwnerDeletesConfig
CHECK_DEADLOCK FALSE
