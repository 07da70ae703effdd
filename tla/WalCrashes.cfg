\* Crashes of the process and of the machine, and failing writes, at every step.
SPECIFICATION Spec
CONSTANTS
    Nowhere = Nowhere
    SegmentSize = 2
    DiskFaults = TRUE
    MaxRecords = 3
    MaxSegments = 4
INVARIANTS
    TypeOK
    AckedSurvive
    Ordered
    PlacedAsReported
\* A log that has no segment or record left to use may stop.
CHECK_DEADLOCK FALSE
