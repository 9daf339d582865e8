CONSTANTS
    Runs = {r1, r2}
    Detached = {}
    BatchSize = 2
    MaxFaults = 1
    Edits = {"listing.price_changed"}
    Requests = {q1, q2}
    MaxEvents = 3
SPECIFICATION FairListingsSpec
INVARIANTS
    MapIsExact
PROPERTY
    ArchivedLeavesMap
CHECK_DEADLOCK FALSE
