CONSTANTS
    None = None
    Null = Null
    Layouts <- MCLayouts
    Configs <- MCConfigs
    Changes = 2
    Reruns = 1
SPECIFICATION Spec
INVARIANTS
    NoRowTwice
    StableRowsRead
    WithinTaskLimit
