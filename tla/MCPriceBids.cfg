CONSTANTS
    Bidders = {u1}
    Askers = {a1, a2}
    MaxBids = 2
    MaxTakeDowns = 1
    MaxFaults = 1
SPECIFICATION FairSpec
INVARIANTS
    OneOpenBid
    TakeDownClosesBids
PROPERTY
    BidsSettle
CHECK_DEADLOCK FALSE
