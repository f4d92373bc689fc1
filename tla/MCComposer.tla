------------------------------ MODULE MCComposer ------------------------------
(* A small instance of Composer for TLC. *)
EXTENDS Composer

CONSTANTS w1, w2, f1, f2, r1, l1, l2

MCWords == {w1, w2}
MCFiles == {f1, f2}
MCReplies == {r1}
MCLoops == {l1, l2}
===============================================================================
