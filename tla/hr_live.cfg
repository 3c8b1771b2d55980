CONSTANTS
    PC = {pc1, pc2}
    Name = {n1}
    Address <- OwnAddress
    MaxRecords = 3
    MaxTokens = 3
    MaxReinstalls = 2
    MaxEntries = 0
    MaxDeletes = 0
SPECIFICATION LiveSpec
CHECK_DEADLOCK FALSE
PROPERTY OneRecordInTheEnd
