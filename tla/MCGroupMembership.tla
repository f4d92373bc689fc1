-------------------------- MODULE MCGroupMembership --------------------------
(* Small instances of GroupMembership for TLC. *)
EXTENDS GroupMembership, TLC

CONSTANTS alice, bob, carol, r1, r2

MCUsers == {alice, bob, carol}
MCRequests == {r1, r2}

\* Only the creator is named; the other users and the slots are interchangeable.
Peers == Permutations(MCUsers \ {Creator}) \cup Permutations(Requests)
===============================================================================
