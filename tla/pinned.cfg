\* Versions published and the routes without a decision while two decisions run.
SPECIFICATION Spec
CONSTANTS
    NoVersion = NoVersion
    NoThreshold = NoThreshold
    NoDoc = NoDoc
    NoAssertion = NoAssertion
    d1 = d1
    d2 = d2
    a1 = a1
    a2 = a2
    checker = checker
    admin = admin
    maker = maker
    Versions = {"v1", "v2"}
    Bpmn <- TwoVersions
    Requests = {r1, r2}
    Inputs <- W1Approval
    Workflows = {"w1"}
    Existing = {}
    Docs = {d1}
    DocOf <- MCDocOf
    Dated = {d1}
    Users = {checker}
    RoleOf <- MCRoleOf
    Assertions = {}
    AssertionOwner <- MCOwner
    Configs <- NeverAsks
    MaxBulk = 3
    MaxSteps = 2
    Faults = FALSE
    SideDoors = TRUE
INVARIANTS PinsFrozen MirrorsJournal
CHECK_DEADLOCK FALSE
