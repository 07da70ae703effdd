\* The two background threads, no call of flush_now() or compact_now().
\* remove() names events already inserted, as the event store has it.
\* FlushAt = 2: a memtable holds both records of a key, or one of them.
SPECIFICATION FairSpec
CONSTANTS
    Symbols = {aapl}
    Writers = {w1, w2}
    Flushers = {flush_thread}
    Compactors = {compact_thread}
    Background = {flush_thread, compact_thread}
    Closer = closer
    NoEvent = NoEvent
    WalEnabled = TRUE
    DiskFaults = FALSE
    QuiescentClose = TRUE
    BlindRemove = FALSE
    FlushAt = 2
    Trigger = 1
    MaxOutputs = 1
    MaxSeq = 2
    MaxWrites = 4
    MaxSst = 9
INVARIANTS
    TypeOK
    NoLostWrite
    DurabilityInv
    OutputsCover
    ClosedMeansFlushed
    LogAgrees
PROPERTIES
    ImplementsEventStore
    FlushedEventually
    FullL0Merged
    CloseReturns
\* The instance stops when it is closed or has died.
CHECK_DEADLOCK FALSE
