\* The owner is deleted, with a crash anywhere on the way.
SPECIFICATION FairSpec
CONSTANTS
    Text <- MCText
    a = a
    b = b
    Instances = {a}
    NoInstance = none
    User = user
    FirstOwner = a
    Specs <- OneSpec
    OCPHistory <- OneOCP
    Catalog <- OneVersion
    ProperSuffixes = {}
    Recommendations = {"v1"}
    Deletable = {a}
    CSVMayFail = FALSE
    MaxPlans = 1
    MaxUserActs = 0
    MaxRestarts = 1
    MaxFaults = 0
    MaxDisturbances = 1
PROPERTIES
    OwnedConfigRemoved
CHECK_DEADLOCK FALSE
