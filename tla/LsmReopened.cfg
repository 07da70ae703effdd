\* The instance is opened again beside the files of its first run: numbers no longer tell age.
SPECIFICATION RestartSpec
CONSTANTS
    Symbols = {aapl}
    Writers = {w1}
    Flushers = {flush_thread}
    Compactors = {compact_thread}
    Background = {flush_thread, compact_thread}
    Closer = closer
    NoEvent = NoEvent
    WalEnabled = TRUE
    DiskFaults = FALSE
    QuiescentClose = FALSE
    BlindRemove = FALSE
    FlushAt = 1
    Trigger = 1
    MaxOutputs = 1
    MaxSeq = 2
    MaxWrites = 9
    MaxSst = 3
    MaxRestarts = 1
    MaxLog = 3
INVARIANTS
    NewestWins
\* The instance stops when it is closed or has died.
CHECK_DEADLOCK FALSE
