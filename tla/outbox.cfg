\* One upload, two users of one browser, two overlapping drains, three days.
SPECIFICATION FairSpec
CONSTANTS
    Users = {u1, u2}
    NoUser = NoUser
    Capturers = {u1}
    Keys = {1}
    LastDay = 2
    MaxDocs = 2
    Drains = {d1, d2}
    MaxRetries = 2
    MaxBatchSize = 1
INVARIANTS SavedAccounted GivenUpAfterRetries OncePerDay
PROPERTIES EventuallyDrained
