\* OLM offers a version that ends in the recommended one.
SPECIFICATION Spec
CONSTANTS
    Text <- MCText
    a = a
    b = b
    Instances = {a}
    NoInstance = none
    User = user
    FirstOwner = a
    Specs <- OneSpec
    OCPHistory <- OneOCP
    Catalog <- CollidingVersions
    ProperSuffixes <- OneCollision
    Recommendations = {"1.0.1"}
    Deletable = {a}
    CSVMayFail = FALSE
    MaxPlans = 2
    MaxUserActs = 0
    MaxRestarts = 0
    MaxFaults = 0
    MaxDisturbances = 1
INVARIANTS
    TestedVersionOnly
CHECK_DEADLOCK FALSE
