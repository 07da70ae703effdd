\* A remove() of an event that was flushed already, then a query.
SPECIFICATION QuerySpec
CONSTANTS
    Symbols = {aapl}
    Writers = {w1}
    Flushers = {flush_thread}
    Compactors = {compact_thread}
    Background = {flush_thread, compact_thread}
    Closer = closer
    NoEvent = NoEvent
    Readers = {r1}
    WalEnabled = FALSE
    DiskFaults = FALSE
    QuiescentClose = TRUE
    BlindRemove = FALSE
    FlushAt = 1
    Trigger = 1
    MaxOutputs = 1
    MaxSeq = 2
    MaxWrites = 3
    MaxSst = 9
SYMMETRY ReaderSymmetry
INVARIANTS
    RemovedStaysGone
\* The instance stops when it is closed or has died.
CHECK_DEADLOCK FALSE
