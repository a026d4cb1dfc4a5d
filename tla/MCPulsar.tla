------------------------------ MODULE MCPulsar ------------------------------
(* TLC instances of Pulsar: real time constants, a few nodes. *)
EXTENDS Pulsar, TLC

CONSTANTS a, b, c

(* The nodes are interchangeable. *)
Symmetry == Permutations(Node)
=============================================================================
