SPECIFICATION Spec
CONSTANTS
    Computers = {"a", "b"}
    Ids = {"f1", "f2"}
    None = None
    Bad = Bad
    Owner <- AddedOn
    MaxSeq = 6
    Kept = {"f1"}
    MaxChanges = 2
INVARIANT StaysPublished
PROPERTIES NotBack Agree
CHECK_DEADLOCK FALSE
