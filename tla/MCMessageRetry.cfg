SPECIFICATION MCQuietSpec
CONSTANTS
    alice = alice
    bob = bob
    carol = carol
    k1 = k1
    k2 = k2
    r1 = r1
    r2 = r2
    Users <- MCTwoUsers
    Keys <- MCOneKey
    Requests <- MCRequests
    Senders <- MCAlice
    Readers <- MCNobody
    Deleters <- MCNobody
    Leavers <- MCNobody
    MaxSeq = 2
    NoMessage = NoMessage
INVARIANTS
    RetryIsAnswered
