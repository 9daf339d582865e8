CONSTANTS
    MaxBalance = 5
    NoRef = NoRef
    NoKey = NoKey
    NoTxn = NoTxn
    NoUser = NoUser
    NoCall = NoCall
    Users = {u1}
    PaymentIds = {p1}
    Txns = {t1,t2}
    ClientIds = {k1}
    Amounts = {2}
    Prices = {3}
    MaxRows = 4
    Calls = {c1,c2,c3}
    TierTable <- MCTierTable
SPECIFICATION FairCallSpec
INVARIANTS
    PaymentsBooked
    WalletsReconcile
    AnswersHold
PROPERTIES
    ActsOnTheRow
    OpenOrdersClose
