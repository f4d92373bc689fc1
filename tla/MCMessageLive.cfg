SPECIFICATION FairSpec
CONSTANTS
    alice = alice
    bob = bob
    carol = carol
    k1 = k1
    k2 = k2
    r1 = r1
    r2 = r2
    Users <- MCTwoUsers
    Keys <- MCKeys
    Requests <- MCRequests
    Senders <- MCTwoUsers
    Readers <- MCNobody
    Deleters <- MCAlice
    Leavers <- MCNobody
    MaxSeq = 2
    NoMessage = NoMessage
PROPERTIES
    CommittedIsAnnounced
    DeletionIsAnnounced
