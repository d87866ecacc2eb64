SPECIFICATION Spec
CONSTANTS
    o1 = o1
    o2 = o2
    Orders = {o1, o2}
    Rail <- TwoRails
    RefundTo = {o2}
    Notes = {n1}
    Secrets = {s1, s2}
    Hashes = {h1, h2}
    RefundInvoices = {r1, r2}
    QuoteSeconds = 3
    Transit = 1
    MaxOrders = 2
    Capacity = 2
    MaxNow = 4
    MaxCrashes = 2
    None = None
SYMMETRY Interchangeable
INVARIANTS
    OneInvoice
    AssetJournalled
    SettledByOwnPayment
    DeliveredXorRefunded
    SolicitedUnderHold
PROPERTIES
    ImplementsSale
CHECK_DEADLOCK FALSE
