SPECIFICATION SpecBeside
CONSTANTS
    Sources = {1}
    Canonical = {1}
    body1 = body1
    body2 = body2
    artifact = artifact
    notice = notice
    URLs = {artifact, notice}
    Bodies = {body1, body2}
    Suffixes = {1}
    SuffixOf <- MCSuffixOf
    Matrices <- MCMatrices
    MaxStarts = 3
    Absent = Absent
CHECK_DEADLOCK FALSE
INVARIANTS TypesBeside PassedWasAcquired OneWriteNeverTears RecordMisleadsAfterTwoStops
PROPERTY QuietVerdict
SYMMETRY MCSymmetry
