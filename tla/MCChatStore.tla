------------------------------ MODULE MCChatStore ------------------------------
(* Small instances of ChatStore for TLC. *)
EXTENDS ChatStore, TLC

CONSTANTS k1, j1, j2

MCOneDraft == {k1}
MCTwoJobs == {j1, j2}

Slots == Permutations(Jobs)
===============================================================================
