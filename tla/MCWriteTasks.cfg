CONSTANTS
    t1 = t1
    t2 = t2
    A = A
    B = B
    C = C
    Tasks = {t1, t2}
    Schemas = {A, B, C}
    Accepted = {A, B}
    NoSchema = NoSchema
    Absent = Absent
    Datasets <- MCDatasets
    UserArgs <- MCUserArgs
SPECIFICATION FairSpec
INVARIANTS
    ReceiptExact
    NoReplay
    DefiniteFailure
    ConfirmedPrefix
PROPERTIES
    ImplementsPromise
    CallReturns
