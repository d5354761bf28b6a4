CONSTANTS
    None = None
    Null = Null
    Facts <- MCFacts
    Requests <- MCRequests
    Values <- MCColumn
    Unknown = Unknown
    Listings <- MCListings
    GroupRequests <- MCGroupRequests
    Tables <- MCTables
    NumRows <- MCNumRows
    SliceBytes <- MCSliceBytes
    MaxRows = 5
    MaxBytes = 3
SPECIFICATION MCSpec
INVARIANTS
    ReadOnce
    MatchesClosedForm
    ExactGroups
    NearOptimal
    ExactSlices
