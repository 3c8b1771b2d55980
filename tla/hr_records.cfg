CONSTANTS
    PC = {pc1, pc2}
    Name = {n1, n2}
    Address <- OwnAddress
    MaxRecords = 3
    MaxTokens = 3
    MaxReinstalls = 2
    MaxEntries = 1
    MaxDeletes = 1
SPECIFICATION RecordsSpec
CHECK_DEADLOCK FALSE
PROPERTY ReportingPcIsKept HistoryStays
SYMMETRY Symmetry
