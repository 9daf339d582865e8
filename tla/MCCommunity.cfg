CONSTANTS
    u1 = u1
    u2 = u2
    r1 = r1
    r2 = r2
    l1 = l1
    l2 = l2
    a1 = a1
    a2 = a2
    d1 = d1
    v1 = v1
    c1 = c1
    h1 = h1
    None = None
    Users = {u1, u2}
    Requests = {r1, r2}
    Listings = {l1, l2}
    OwnerOf <- OwnerIsU1
    Moderators = {}
    Likers = {u2}
    MaxComments = 2
    Phones = {d1}
    MaxOpens = 4
    Adverts = {a1, a2}
    Seller = u1
    Stars = {1}
    Talks = {u2}
    MaxRecounts = 3
    MaxFollows = 4
    Shots = {v1}
    Notes = {c1}
    WroteIt <- ReelByU1
    MaxFlags = 2
    MaxOutages = 1
    Handsets = {h1}
    MaxTold = 2
    MaxHands = 3
SPECIFICATION CommunitySpec
SYMMETRY AlikeEachOther
INVARIANTS
    CardMatchesThread
    
    
    VerdictsStayOnTarget
    
CHECK_DEADLOCK FALSE
