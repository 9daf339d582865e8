CONSTANTS
    Runs = {r1, r2, r3}
    Detached = {"billing.topup-notify", "billing.click-fiscal"}
    BatchSize = 2
    MaxFaults = 2
    PaymentIds = {p1}
    ClickPayments = {p1}
    MaxAttempts = 2
SPECIFICATION FairSpec
INVARIANTS
    OneSubmitter
    
    RetryDoesNotRenotify
PROPERTIES
    ReceiptsSettle
CHECK_DEADLOCK FALSE
