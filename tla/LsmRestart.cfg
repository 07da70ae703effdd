\* The instance is opened again twice, after close() or from any state it died in.
SPECIFICATION RestartSpec
CONSTANTS
    Symbols = {aapl}
    Writers = {w1, w2}
    Flushers = {flush_thread}
    Compactors = {compact_thread}
    Background = {flush_thread, compact_thread}
    Closer = closer
    NoEvent = NoEvent
    WalEnabled = TRUE
    DiskFaults = FALSE
    QuiescentClose = FALSE
    BlindRemove = FALSE
    FlushAt = 1
    Trigger = 2
    MaxOutputs = 1
    MaxSeq = 2
    MaxWrites = 12
    MaxSst = 3
    MaxRestarts = 2
    MaxLog = 3
INVARIANTS
    LostOnlyByMixing
    IdsFresh
PROPERTIES
    RestartRestores
\* The instance stops when it is closed or has died.
CHECK_DEADLOCK FALSE
