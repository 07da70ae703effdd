\* flush_now() and compact_now() callers beside the background threads, writes
\* that fail, and a close() that may race a call.
SPECIFICATION Spec
CONSTANTS
    Symbols = {aapl}
    Writers = {w1}
    Flushers = {flush_thread, flush_caller}
    Compactors = {compact_thread, compact_caller}
    Background = {flush_thread, compact_thread}
    Closer = closer
    NoEvent = NoEvent
    WalEnabled = TRUE
    DiskFaults = TRUE
    QuiescentClose = FALSE
    BlindRemove = TRUE
    FlushAt = 1
    Trigger = 2
    MaxOutputs = 1
    MaxSeq = 1
    MaxWrites = 2
    MaxSst = 4
SYMMETRY WriterSymmetry
INVARIANTS
    Recoverable
    LevelsMatchDisk
PROPERTIES
    ListedNeverRewritten
\* The instance stops when it is closed or has died.
CHECK_DEADLOCK FALSE
