SPECIFICATION Spec
CONSTANTS
    alice = alice
    bob = bob
    carol = carol
    k1 = k1
    k2 = k2
    r1 = r1
    r2 = r2
    Users <- MCTwoUsers
    Keys <- MCOneKey
    Requests <- MCRequests
    Senders <- MCTwoUsers
    Readers <- MCBob
    Deleters <- MCAlice
    Leavers <- MCBob
    MaxSeq = 2
    NoMessage = NoMessage
SYMMETRY Slots
INVARIANTS
    ReadTicksHonest
    SeqGapless
    OneRowPerKey
PROPERTIES
    ImplementsLog
    
    OnlyOverlapHidesUnread
