SPECIFICATION Spec
CONSTANTS
    alice = alice
    bob = bob
    carol = carol
    r1 = r1
    r2 = r2
    Users <- MCUsers
    Creator = alice
    Requests <- MCRequests
SYMMETRY Peers
PROPERTIES
    OnlyOverlapLosesAdmins
    OnlyOverlapReturnsRoles
    
\* When everybody has left nobody can act on the group any more.
CHECK_DEADLOCK FALSE
