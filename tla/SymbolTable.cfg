\* Three names, one of them overlong, over two more openings, entries torn, not written or
\* not read, flush() cut short.
SPECIFICATION Spec
CONSTANTS
    Names = {aapl, msft, nvda}
    Overlong = {nvda}
    Torn = torn
    DiskFaults = TRUE
    MaxId = 2
    MaxOpens = 2
INVARIANTS
    NamesKept
\* The table stays closed once it was opened as often as the bound allows.
CHECK_DEADLOCK FALSE
