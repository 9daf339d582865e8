CONSTANTS
    Deliveries = {d1}
    Calls = {c1, c2}
    MaxCharges = 2
    MaxFaults = 1
SPECIFICATION FairSpec
INVARIANTS
    PublicIsPaidOnce

    
CHECK_DEADLOCK FALSE
