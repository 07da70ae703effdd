\* Two queries beside a writer, flush, compaction and close().
SPECIFICATION QuerySpec
CONSTANTS
    Symbols = {aapl}
    Writers = {w1}
    Flushers = {flush_thread}
    Compactors = {compact_thread}
    Background = {flush_thread, compact_thread}
    Closer = closer
    NoEvent = NoEvent
    Readers = {r1, r2}
    WalEnabled = FALSE
    DiskFaults = FALSE
    QuiescentClose = TRUE
    BlindRemove = FALSE
    FlushAt = 1
    Trigger = 1
    MaxOutputs = 1
    MaxSeq = 2
    MaxWrites = 2
    MaxSst = 3
SYMMETRY ReaderSymmetry
INVARIANTS
    QueryTypeOK
    StableRowsOnce
\* The instance stops when it is closed or has died.
CHECK_DEADLOCK FALSE
