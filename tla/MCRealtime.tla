------------------------------ MODULE MCRealtime ------------------------------
(* A small instance of Realtime for TLC. *)
EXTENDS Realtime

CONSTANTS a, b, c

MCSockets == {a, b, c}
===============================================================================
