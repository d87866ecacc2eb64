SPECIFICATION Spec
CONSTANTS
    Names = {"x", "y"}
    Contents = {"a", "b", "c"}
    None = None
    Kept <- KeptFiles
    MaxId = 5
    MaxConflict = 2
    BrakeAny = 3
    BrakeFloor = 2
    MaxLosses = 1
    MaxChanges = 2
PROPERTIES   Converges
