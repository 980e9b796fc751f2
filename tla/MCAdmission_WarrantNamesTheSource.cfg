CONSTANTS
    Null = Null
    Unnormalized = Unnormalized
    Sources = {"s1", "s2"}
    Versions = {"v1", "v2"}
    Digests = {"d1", "d2"}
    Jurisdictions = {"j1", "j2"}
    Applicabilities = {"a1", "a2"}
    Bases = {"b1", "b2"}
    Documents <- MCDocuments
SPECIFICATION Spec
INVARIANTS
    WarrantNamesTheSource
CHECK_DEADLOCK FALSE
