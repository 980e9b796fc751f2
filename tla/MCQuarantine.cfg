CONSTANTS
    Invocations = {p1}
    Sources = {1, 2}
    Ids = {1, 2, 3}
    Bodies <- MCBodies
    Published <- MCPublished
    CutShort <- MCCutShort
    Size <- MCSize
    MaxBytes = 2
    Requests <- MCRequests
    MaxStarts = 2
    Absent = Absent
SPECIFICATION Spec
INVARIANTS
    TypeOK
    NoPartLeaks
    ExitZeroIsComplete
PROPERTIES
    ImplementsStore
    InvocationsEnd
CHECK_DEADLOCK FALSE
