SPECIFICATION MCSpec
CONSTANTS
    Unset = Unset
    ParameterNames <- MCNames
    Filters <- MCFilters
    Queries <- MCQueries
    Null = Null
    Error = Error
    Columns <- MCColumns
    Literals <- MCLiterals
    Rows <- MCRows
    Partners <- MCPartners
    LongBits = 3
    MaxNodes = 9
    MaxDepth = 3
    Growth = 2
INVARIANTS
    EveryPlaceholderBound
    LiteralsUntouched
    RefusedEarly
    SameRows
\* A read ends when it has sent its queries; an expression may be refused, and
\* stays with Ray.
CHECK_DEADLOCK FALSE
