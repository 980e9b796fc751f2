SPECIFICATION Spec
CONSTANTS
    ca3 = ca3
    syn1 = syn1
    syn2 = syn2
    other = other
    f1 = f1
    f2 = f2
    act = act
    text1 = text1
    text2 = text2
    core = core
    extra = extra
    cache = cache
    Files = {f1, f2}
    Bodies = {act, text1, text2}
    Warned = {text1, text2}
    Ids = {ca3, syn1, syn2, other}
    Canada = ca3
    Synthetic = {syn1, syn2}
    SourceCount = 2
    SourceSets <- MCSourceSets
    ReceiptLists <- MCReceiptLists
    Paths = {core, extra, cache}
    Admitted = {core}
    Caches = {cache}
    Trees <- MCTrees
    MaxEdits = 1
    MaxMoves = 6
    Absent = Absent
CHECK_DEADLOCK FALSE
INVARIANTS QuietVerdict OneEditTearsOnlyDoubleReads StandingIntruderIsFound
