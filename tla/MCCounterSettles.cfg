CONSTANTS
    Bidders = {u1}
    Askers = {a1, a2}
    MaxBids = 2
    MaxTakeDowns = 1
    MaxFaults = 0
SPECIFICATION FairSpec
PROPERTY CounterSettles
CHECK_DEADLOCK FALSE
