SPECIFICATION Spec
CONSTANTS
    None = None
    Relations <- MCRelations
    Simple = {"a", "d"}
    MaxAlters = 2
    MaxRuns = 2
INVARIANTS
    DeliveredAsTold
    ToldOfOneResult
\* A query that cannot be planned leaves nothing to do.
CHECK_DEADLOCK FALSE
