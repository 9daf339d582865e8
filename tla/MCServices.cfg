CONSTANTS
    u1 = u1
    u2 = u2
    r1 = r1
    r2 = r2
    l1 = l1
    l2 = l2
    l3 = l3
    c1 = c1
    c2 = c2
    a1 = a1
    v1 = v1
    d1 = d1
    None = None
    Users = {u1}
    Requests = {r1, r2}
    Ads = {l1, l2, l3}
    SellerOf <- SellersU1AndU2
    Staff = {}
    PostPrice = 2
    Keys = {c1}
    Gift = 2
    MaxBills = 3
    MaxResets = 1
    TopAds = {l1}
    Durations = {3}
    MaxBought = 6
    EndOfTime = 5
    Flats = {l1}
    Quotes = {12005, 12010}
    Fallback = 12800
    MaxQuotes = 2
    MaxSaves = 1
    MaxReboots = 1
    Homes = {l1}
    Slugs = {c1, c2}
    Questions = {"floor"}
    Amenities = {a1}
    MaxEdits = 2
    Villas = {l1}
    MaxFiles = 2
    MaxVerdicts = 3
    MaxStops = 1
    MaxPictures = 3
    MaxChanges = 3
    MaxCuts = 1
    Clips = {v1}
    AuthorOf <- AuthorU1
    Admins = {}
    Devices = {d1}
    MaxReplies = 2
    MaxMessages = 2
    MaxApplications = 2
    MaxRestarts = 1
    Entries = {1, 2, 3, 4}
    PageSize = 2
    Top = 4
    MaxStirs = 2
SPECIFICATION ServicesSpec
INVARIANTS
    EachPostPaidOnce
    PaidTimeIsKept
    StoredPricesFollowTheRate
    CategoriesResolve
    TourPlays
    
    ReelNumbersAreRows
    
    
PROPERTIES
    CountersConverge
CHECK_DEADLOCK FALSE
