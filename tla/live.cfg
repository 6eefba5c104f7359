\* Every instance ends up Ready, or removed when it is deleted.
SPECIFICATION FairSpec
CONSTANTS
    Text <- MCText
    a = a
    b = b
    Instances = {a}
    NoInstance = none
    User = user
    FirstOwner = none
    Specs <- OverrideSpec
    OCPHistory <- OneOCP
    Catalog <- OneVersion
    ProperSuffixes = {}
    Recommendations = {"v1"}
    Deletable = {a}
    CSVMayFail = FALSE
    MaxPlans = 1
    MaxUserActs = 0
    MaxRestarts = 0
    MaxFaults = 0
    MaxDisturbances = 1
PROPERTIES
    EventuallyReady
    EventuallyGone
CHECK_DEADLOCK FALSE
