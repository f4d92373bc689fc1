------------------------------- MODULE MCOutbox -------------------------------
(* A small instance of Outbox for TLC. *)
EXTENDS Outbox

CONSTANTS k1, k2, t1, s1, s2

MCKeys == {k1, k2}
MCTabs == {t1}
MCSenders == {s1, s2}
===============================================================================
