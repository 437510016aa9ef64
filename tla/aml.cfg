\* Two lists reloaded and switched while two workers screen one customer.
SPECIFICATION ScreeningSpec
CONSTANTS
    Customers = {c1}
    Lists = {l1, l2}
    Workers = {w1, w2}
    Window = 0
    MaxTicks = 1
    MaxRows = 3
    MaxChanges = 2
    MaxRestarts = 1
SYMMETRY Symmetry
INVARIANTS ListedIsFlagged RunningBounded
CHECK_DEADLOCK FALSE
