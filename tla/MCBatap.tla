------------------------------ MODULE MCBatap ------------------------------
(* TLC instances of Batap: a few messages, one of which looks like an IMA. *)
EXTENDS Batap, TLC

CONSTANTS m1, m2, m3, ima

(* The ordinary messages are interchangeable. *)
Symmetry == Permutations(Message \ (ImaLike \cup EmptyText))
=============================================================================
