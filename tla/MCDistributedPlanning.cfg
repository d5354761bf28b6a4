CONSTANTS
    Topologies <- MCTopologies
    Configs <- MCConfigs
    Unplanned = Unplanned
    Logical = Logical
    Calls = 2
SPECIFICATION Spec
INVARIANTS
    ClientsClosed
    ErrorsRemainErrors
PROPERTIES
    ImplementsPlan
