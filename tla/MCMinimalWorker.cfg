CONSTANTS
    LabelLimit = 2
    NameLimit = 5
    BufferSize = 22
    ResponseSize = 22
    Requests <- MCRequests
    Stale <- MCStale
    Capacities <- MCCapacities
SPECIFICATION CallSpec
INVARIANTS
    ScanExact
    ResponseExact
\* A call returns.
CHECK_DEADLOCK FALSE
