\* Two regions that each handle two requests at once; snapshots lost, repeated
\* and reordered.
SPECIFICATION ReplicaSpec
CONSTANTS
    Regions = {1, 2}
    Home = 1
    Fields = {f1}
    MaxOverlap = 2
    MaxEdits = 1
    MaxSteps = 1
    MaxSent = 2
INVARIANTS CountsOwned ValuesKnown FollowsClock
CHECK_DEADLOCK FALSE
