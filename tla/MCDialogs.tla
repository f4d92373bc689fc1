------------------------------- MODULE MCDialogs -------------------------------
(* A small instance of Dialogs for TLC. *)
EXTENDS Dialogs

CONSTANTS u1, t1, t2, k1, k2

MCUsers == {u1}
MCTerms == {t1, t2}
MCFound == [x \in MCTerms |-> IF x = t1 THEN {} ELSE {u1}]
MCCalls == {k1, k2}
===============================================================================
