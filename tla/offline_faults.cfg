\* One upload, two overlapping ticks, every fault.
SPECIFICATION Spec
CONSTANTS
    u1 = u1
    u2 = u2
    t1 = t1
    t2 = t2
    p1 = p1
    p2 = p2
    NoUpload = NoUpload
    Uploads = {u1}
    Tenants = {t1}
    TenantOf <- OneTenant
    Served <- ServeFirst
    Paths = {p1, p2}
    PathOf <- OwnPaths
    Malformed = {}
    Ticks = {w1, w2}
    MaxRetries = 2
    Durable = TRUE
    Faults = {"crash", "redis", "resend", "db", "fs"}
INVARIANTS Accounted AuditedAreDead AtMostOneDocument
