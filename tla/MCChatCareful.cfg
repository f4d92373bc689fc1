SPECIFICATION CarefulSpec
CONSTANTS
    k1 = k1
    j1 = j1
    j2 = j2
    Theirs = Theirs
    Keys <- MCOneDraft
    Jobs <- MCTwoJobs
    PageSize = 2
    MaxSeq = 4
SYMMETRY Slots
INVARIANTS TypeOK    
CHECK_DEADLOCK FALSE
