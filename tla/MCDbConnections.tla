--------------------------- MODULE MCDbConnections ---------------------------
(* TLC instances of DbConnections. *)
EXTENDS DbConnections

CONSTANTS n1, n2
=============================================================================
