\* Two tenants, two ticks; replays fail in every way, Redis and the process stay up.
SPECIFICATION FairSpec
CONSTANTS
    u1 = u1
    u2 = u2
    t1 = t1
    t2 = t2
    p1 = p1
    p2 = p2
    NoUpload = NoUpload
    Uploads = {u1, u2}
    Tenants = {t1, t2}
    TenantOf <- TwoTenants
    Served <- ServeBoth
    Paths = {p1, p2}
    PathOf <- OwnPaths
    Malformed = {u2}
    Ticks = {w1, w2}
    MaxRetries = 2
    Durable = TRUE
    Faults = {"db", "fs"}
PROPERTIES EventuallySettled ImplementsDelivery
