\* Three users, two documents, a lock of one to three seconds.
SPECIFICATION FairSpec
CONSTANTS
    Users = {u1, u2, u3}
    Docs = {d1, d2}
    NoUser = NoUser
    MaxTTL = 3
INVARIANTS PromiseKept
PROPERTIES NoForeignSave EveryLockEnds
