\* Two handlers, a job of up to two events, signals at any time.
SPECIFICATION Spec
CONSTANTS
    Handlers = {h1, h2}
    Nobody = nobody
    MaxEvents = 2
    MaxCalls = 5
INVARIANTS
    WorkerGuarded
    CloseIsQuiet
    UnjoinedOnlyExpired
PROPERTIES
    StopReturns
    SignalEnds
\* The process ends.
CHECK_DEADLOCK FALSE
