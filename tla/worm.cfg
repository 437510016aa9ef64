\* Two requests that overlap, of any kind, on one document, contents that
\* change, and a restart.
SPECIFICATION WormSpec
CONSTANTS
    Docs = {1}
    Copies = {}
    Admins = {a1, a2}
    Periods = {1, 2}
    MaxTime = 1
    MaxUntil = 3
    MaxContent = 2
    MaxCrashes = 1
INVARIANTS FlagsFollowRows
PROPERTIES OnlyRacesShorten DriftAlerted
CHECK_DEADLOCK FALSE
