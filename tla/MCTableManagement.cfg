CONSTANTS
    w1 = w1
    w2 = w2
    Writers = {w1, w2}
    Old = Old
    NoTable = NoTable
    Schemas = {"plain", "large", "binary"}
    Creatable = {"plain", "large"}
    Insertable = {"plain"}
    OldSchema = "plain"
    OldGoverned = TRUE
    Jobs <- MCJobs
SPECIFICATION FairSpec
INVARIANTS
    DropsAdmitted
    ConfirmedMeansMade
    NoSelfDestruct
    PlansNewTable
PROPERTIES
    EveryWriterSettles
