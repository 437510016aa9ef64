\* Two concurrent requests, single or bulk, under every fault; Python may stay silent for ever.
SPECIFICATION FairSpec
CONSTANTS
    NoVersion = NoVersion
    NoThreshold = NoThreshold
    NoDoc = NoDoc
    NoAssertion = NoAssertion
    d1 = d1
    d2 = d2
    a1 = a1
    a2 = a2
    checker = checker
    admin = admin
    maker = maker
    Versions = {}
    Bpmn <- NoBpmn
    Requests = {r1, r2}
    Inputs <- MixedInputs
    Workflows = {"w1", "w2", "w3"}
    Existing = {"w1", "w2", "w3"}
    Docs = {d1, d2}
    DocOf <- MCDocOf
    Dated = {d1}
    Users = {checker, admin, maker}
    RoleOf <- MCRoleOf
    Assertions = {a1}
    AssertionOwner <- MCOwner
    Configs <- MCConfigs
    MaxBulk = 3
    MaxSteps = 6
    Faults = TRUE
    SideDoors = FALSE
INVARIANTS LinkedStep WholeDecision StepUpBeforeEffect OneAssertionOneRequest MirrorsJournal
PROPERTIES AnswerIsFinal ImplementsDecisionLog EveryRequestAnswered
