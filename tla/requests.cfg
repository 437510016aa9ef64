\* Two documents, one request of any kind that two workers fulfil, holds placed
\* by hand, one restart, one rotation of the key.
SPECIFICATION Spec
CONSTANTS
    Docs = {1, 2}
    Court = Court
    Requests = {r1}
    Threads = {w1, w2}
    NoInfo = NoInfo
    MaxHolds = 1
    MaxJobs = 2
    MaxKeys = 2
    MaxCrashes = 1
INVARIANTS ShredIsAudited ReceiptIsTrue
PROPERTIES HeldThroughoutIsSpared HoldCoversDocuments
SYMMETRY Symmetry
