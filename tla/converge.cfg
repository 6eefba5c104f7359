\* One instance from an empty cluster: its spec changes, the cluster version
\* cannot be detected at first and is upgraded later.
SPECIFICATION Spec
CONSTANTS
    Text <- MCText
    a = a
    b = b
    Instances = {a}
    NoInstance = none
    User = user
    FirstOwner = none
    Specs <- TwoSpecs
    OCPHistory <- OCPDetection
    Catalog <- OneVersion
    ProperSuffixes = {}
    Recommendations = {"v1"}
    Deletable = {}
    CSVMayFail = FALSE
    MaxPlans = 1
    MaxUserActs = 0
    MaxRestarts = 0
    MaxFaults = 0
    MaxDisturbances = 1
INVARIANTS
    NoLostWakeup
    SettledWhenReady
CHECK_DEADLOCK FALSE
