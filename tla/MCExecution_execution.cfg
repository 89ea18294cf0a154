\* Every executor, operation, value, description and transaction.
SPECIFICATION Execution
CONSTANTS
    MaxCalls <- Bounds
    MaxRows = 4
    MaxFaults = 2
    MaxBufferedRows = 2
    MaxBulk = 2
    Lineups <- MCLineups
    MaxItems = 3
    MaxRead = 2
    MaxAsks = 2
    MaxTransactions = 3
    MaxFailures = 2
INVARIANTS
    StreamComplete
    TransactionHolds
    NameMeansText
    Accounted
    SentAsGiven
    ReadAsPromised
    LiteralAsAsked
    RunsAsAsked
PROPERTIES
    Implements
    CommitMeansCommitted
    Settles
CHECK_DEADLOCK FALSE
