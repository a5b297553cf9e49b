\* Four blocks, the first before the deployment; batches of two, so that the
\* last batch may be a partial one; one fault.
CONSTANTS
    Positions = {1}
    Orders = {1}
    MaxSize = 2
    StartBlock = 2
    MaxBlock = 4
    BatchSize = 2
    MaxFaults = 1
SPECIFICATION FairSpec
INVARIANTS
    TypeOK
    
    HistoryOnce
PROPERTIES
    ImplementsDelivery
    RowsOnlyAdvance
    CatchesUp
