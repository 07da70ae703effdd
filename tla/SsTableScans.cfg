SPECIFICATION LiveSpec
CONSTANTS
    f1 = f1
    f2 = f2
    q1 = q1
    q2 = q2
    Paths = {f1, f2}
    Readers = {q1, q2}
    Addresses = {a1, a2, a3}
    Runs <- MCRuns
    Target = 178
    MaxBytes = 300
    Hash1 <- MCHash1
    Hash2 <- MCHash2
    Word = 32
    FilterBits = 8
    HashCount = 2
    Asks <- MCAsks
INVARIANTS
    TypeOK
    FileSound
    ScanExact
    SearchKeeps
    CacheSound
PROPERTIES
    NewBlockStays
    ScanReturns
CHECK_DEADLOCK FALSE
