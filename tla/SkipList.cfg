\* One thread inserts, one scans; the levels are the least that two heights need.
SPECIFICATION FairSpec
CONSTANTS
    MaxKey = 3
    MaxHeight = 2
    MaxVersion = 2
    Readers = {r1}
INVARIANTS
    TypeOK
    LinksOrdered
    InsideNode
    ScanSound
PROPERTIES
    Returns
