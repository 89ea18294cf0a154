\* The terminal events of a batch.
SPECIFICATION Execution
CONSTANTS
    MaxCalls <- Bounds
    MaxRows = 4
    MaxFaults = 2
    MaxBufferedRows = 2
    MaxBulk = 2
    Lineups <- MCLineups
    MaxItems = 3
    MaxRead = 2
    MaxAsks = 2
    MaxTransactions = 3
    MaxFailures = 2
INVARIANTS
    OneTerminal
CHECK_DEADLOCK FALSE
