SPECIFICATION FairSpec
CONSTANTS
    o1 = o1
    o2 = o2
    Orders = {o1, o2}
    Rail <- LnurlcashOnly
    RefundTo = {o1}
    Notes = {n1, n2}
    Secrets = {s1, s2}
    Hashes = {h1}
    RefundInvoices = {r1}
    QuoteSeconds = 2
    Transit = 0
    MaxOrders = 2
    Capacity = 1
    MaxNow = 2
    MaxCrashes = 1
    None = None

    
PROPERTIES
    PaymentResolved
CHECK_DEADLOCK FALSE
