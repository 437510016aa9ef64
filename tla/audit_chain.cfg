\* Rows of two tenants, hashed and not, and four starts.
SPECIFICATION AuditSpec
CONSTANTS
    Tenants = {t1, t2}
    MaxRows = 5
    MaxStarts = 4
INVARIANTS LiveRowsChain BackfillVerifies
PROPERTIES HashedFrozen
CHECK_DEADLOCK FALSE
