SPECIFICATION Spec
CONSTANTS
    w1 = w1
    w2 = w2
    f1 = f1
    f2 = f2
    r1 = r1
    l1 = l1
    l2 = l2
    Words <- MCWords
    Files <- MCFiles
    Replies <- MCReplies
    Loops <- MCLoops
INVARIANTS  EveryRowSent HandedOnce NoStuckRow
