\* Two documents to purge and one to archive, the scheduler, whose pass sees two
\* of the three rows, and one administrator who starts a run of one document,
\* holds placed by hand, one restart.
SPECIFICATION FairSpec
CONSTANTS
    Docs = {1, 2, 3}
    ToArchive = {2}
    Court = Court
    Requests = {}
    Threads = {w1, Scheduler}
    NoInfo = NoInfo
    Workers = {w1}
    Scheduler = Scheduler
    CycleLimit = 2
    ApplyLimit = 1
    Copies = {{1, 2}}
    MaxHolds = 1
    MaxRuns = 1
    MaxCrashes = 1
INVARIANTS PurgeIsAudited
PROPERTIES HeldThroughoutIsSpared EventuallyRetired
