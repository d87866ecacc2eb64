SPECIFICATION OneSpec
CONSTANTS
    None = None
    f1 = f1
    f2 = f2
    foreign = foreign

    
    
PROPERTIES
    PromisesKept
    
CHECK_DEADLOCK FALSE
