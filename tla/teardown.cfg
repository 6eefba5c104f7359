\* One instance is Ready, another one takes over from it, leaves with it or
\* competes with it.
SPECIFICATION RivalsSpec
CONSTANTS
    Text <- MCText
    a = a
    b = b
    Instances = {a, b}
    NoInstance = none
    User = user
    FirstOwner = none
    Specs <- OneSpec
    OCPHistory <- OneOCP
    Catalog <- OneVersion
    ProperSuffixes = {}
    Recommendations = {"v1"}
    Deletable = {a}
    CSVMayFail = FALSE
    MaxPlans = 2
    MaxUserActs = 0
    MaxRestarts = 0
    MaxFaults = 0
    MaxDisturbances = 1
INVARIANTS
    OwnedResourcesHaveFinalizedOwner
    ReadyOwnsConfig
PROPERTIES
    OperatorOutlivesConfig
    ImplementsOwnership
CHECK_DEADLOCK FALSE
