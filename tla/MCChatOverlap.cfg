SPECIFICATION Spec
CONSTANTS
    k1 = k1
    j1 = j1
    j2 = j2
    Theirs = Theirs
    Keys <- MCOneDraft
    Jobs <- MCTwoJobs
    PageSize = 1
    MaxSeq = 2
SYMMETRY Slots
INVARIANTS NothingInvented ShownOnce
 
