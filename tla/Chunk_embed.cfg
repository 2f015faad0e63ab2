SPECIFICATION Spec
CONSTANTS
    h1 = h1
    h2 = h2
    none = none
    NoSection = none
    Headings <- MCHeadings
    Lines <- MCLines
    ChunkSize = 8
    ChunkOverlap = 1
    ParentSize = 16
    Pages = 2
    MaxLines = 4
    BatchSize = 2
    Retries = 2
CHECK_DEADLOCK FALSE
INVARIANTS NothingLost CitesItsSection RepeatsOneUnit SizeBound ParentsPartition VectorsAligned
