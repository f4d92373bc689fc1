--------------------------- MODULE MCConversations ---------------------------
(* A small instance of Conversations for TLC. *)
EXTENDS Conversations

CONSTANTS c1, p1, k1, k2

MCConvs == {c1}
MCPeers == {p1}
MCCalls == {k1, k2}
===============================================================================
