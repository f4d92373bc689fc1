--------------------------- MODULE MCMessageService ---------------------------
(* Small instances of MessageService for TLC. *)
EXTENDS MessageService, TLC

CONSTANTS alice, bob, carol, k1, k2, r1, r2

MCTwoUsers == {alice, bob}
MCKeys == {k1, k2}
MCOneKey == {k1}
MCRequests == {r1, r2}
MCAlice == {alice}
MCBob == {bob}
MCNobody == {}

\* The slots are interchangeable: nothing else names one.
Slots == Permutations(Requests)

\* One process that is not restarted, without fairness.
MCQuietSpec == Init /\ [][Step]_vars
===============================================================================
