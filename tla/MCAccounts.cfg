CONSTANTS
    Users = {u1, u2}
    Phones = {ph}
    Googles = {g}
    Telegrams = {tg}
    None = None
    Calls = {s1, s2}
    MaxPerHour = 2
    MaxAttempts = 1
    MaxProofs = 1
SPECIFICATION AccountsSpec
SYMMETRY MCSymmetry
INVARIANTS
    EachProofWorksOnce
    SameAccount
    
