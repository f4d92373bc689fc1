SPECIFICATION LiveSpec
CONSTANTS
    u1 = u1
    t1 = t1
    t2 = t2
    k1 = k1
    k2 = k2
    NoTerm = NoTerm
    Users <- MCUsers
    Terms <- MCTerms
    Found <- MCFound
    Calls <- MCCalls
INVARIANTS ResultsMatch ContactsRight OneGroup
PROPERTY SearchEnds
