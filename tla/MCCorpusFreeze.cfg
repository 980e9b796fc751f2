SPECIFICATION Spec
CONSTANTS
    Sources = {1, 2}
    Canonical = {1}
    xml1 = xml1
    xml2 = xml2
    pdf1 = pdf1
    artifact = artifact
    notice = notice
    URLs = {artifact, notice}
    Bodies = {xml1, xml2, pdf1}
    Suffixes = {1, 2}
    SuffixOf <- MCSuffixOf
    Matrices <- MCMatrices
    MaxStarts = 2
    Absent = Absent
CHECK_DEADLOCK FALSE
INVARIANTS TypeOK StoredAsCleared VerifiedWasAcquired ExitZeroVerifies
PROPERTIES RequestsFollowSnapshot FreezesEnd
