CONSTANTS
    Invocations = {p1, p2}
    Sources = {1}
    Ids = {1}
    Bodies <- MCBodies
    Published <- MCOverlapPublished
    CutShort <- MCCutShort
    Size <- MCSize
    MaxBytes = 2
    Requests <- MCOverlapRequests
    MaxStarts = 1
    Absent = Absent
SPECIFICATION Spec
PROPERTIES
    OverwriteProhibited
CHECK_DEADLOCK FALSE
