SPECIFICATION OneSpec
CONSTANTS
    None = None
    Nodes = {1, 2, 3, 4}
    Receipts <- Pooled
    Payload <- TwoBytes
    Budget = 7
    MaxChanges = 2
    r1 = r1
INVARIANTS
    ReportedIsKept
    

    
    
CHECK_DEADLOCK FALSE
