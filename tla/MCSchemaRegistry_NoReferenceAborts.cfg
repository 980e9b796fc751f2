SPECIFICATION Spec
CONSTANTS
    n1 = n1
    n2 = n2
    i1 = i1
    i2 = i2
    p = p
    Empty = Empty
    NotJSON = NotJSON
    NotObject = NotObject
    Unreadable = Unreadable
    Overwhelming = Overwhelming
    Absent = Absent
    Files = {1, 2, 3}
    Names = {n1, n2}
    NameOf <- MCNameOf
    Ids = {i1, i2, n2}
    SiblingOf <- MCSiblingOf
    Parts = {p}
    Documents <- MCDocuments
    Directories <- MCDirectories
    MaxEdits = 1
CHECK_DEADLOCK FALSE
INVARIANT NoReferenceAborts
