\* One instance is created and deleted, with one disturbance: a crash, a failed
\* call, a lost response, or a user who installs an OLS operator or creates or
\* deletes the OLSConfig.
SPECIFICATION Spec
CONSTANTS
    Text <- MCText
    a = a
    b = b
    Instances = {a}
    NoInstance = none
    User = user
    FirstOwner = none
    Specs <- OneOCPSpec
    OCPHistory <- OneOCP
    Catalog <- OneVersion
    ProperSuffixes = {}
    Recommendations = {"v1"}
    Deletable = {a}
    CSVMayFail = FALSE
    MaxPlans = 1
    MaxUserActs = 1
    MaxRestarts = 1
    MaxFaults = 1
    MaxDisturbances = 1
INVARIANTS
    TypeOK
    OwnedResourcesHaveFinalizedOwner
    ReadyOwnsConfig
PROPERTIES
    OperatorOutlivesConfig
CHECK_DEADLOCK FALSE
