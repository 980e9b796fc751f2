CONSTANTS
    Invocations = {p1, p2}
    Sources = {1}
    Ids = {1}
    Bodies <- MCBodies
    Published <- MCOverlapPublished
    CutShort <- MCCutShort
    Size <- MCSize
    MaxBytes = 2
    Requests <- MCOverlapRequests
    MaxStarts = 2
    Absent = Absent
SYMMETRY MCSymmetry
SPECIFICATION Spec
INVARIANTS
    ReceiptBacked
    MismatchMeansRace
    AgreeingLengthsMeanComplete
CHECK_DEADLOCK FALSE
