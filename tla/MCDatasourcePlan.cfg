SPECIFICATION Spec
CONSTANTS
    None = None
    A = A
    B = B
    C = C
    Root = Root
    S1 = S1
    S2 = S2
    Columns <- MCColumns
    Predicates <- MCPredicates
    ColumnOf <- MCColumnOf
    Schemas <- MCSchemas
    Names <- MCNames
    Filterable <- MCFilterable
    Configs <- MCConfigs
    Sources <- MCSources
    MaxAlters = 1
SYMMETRY Clones
INVARIANTS
    AnswersAsAsked
    BoundsOfOwnRows
    FitsDeclaredSchema
PROPERTIES
    BranchesIndependent
\* The optimizer and the callers may be done at any time.
CHECK_DEADLOCK FALSE
