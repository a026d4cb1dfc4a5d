--------------------------- MODULE MCPulsReceiver ---------------------------
(* TLC instances of PulsReceiver. *)
EXTENDS PulsReceiver, TLC

CONSTANTS a, b, c, r, x, y

(* The nodes are interchangeable, and so are their addresses. *)
Symmetry == Permutations(Node) \cup Permutations(Address)
=============================================================================
