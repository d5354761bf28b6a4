SPECIFICATION Spec
CONSTANTS
    None = None
    Stray = Stray
    c1 = c1
    c2 = c2
    failing = failing
    w = w
    s1 = s1
    s2 = s2
    m1 = m1
    m2 = m2
    Candidates = {c1, c2, failing}
    Runs = {1, 2, 3, 4, 5, 6}
    Digests = {w, s1, s2, m1, m2}
    files <- MCFiles
    downloaded <- MCFiles
    evidence <- MCEvidence
    MaxStrays = 1
    MaxFailures = 1
    MaxRepeats = 1
INVARIANTS
    PublishedAsTested
    ReceiptsTrue
    ReceiptsChained
    Continues
\* The runs are used up.
CHECK_DEADLOCK FALSE
