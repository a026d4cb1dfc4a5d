------------------------ MODULE MCBatapMessageProducer ------------------------
(* TLC instances of BatapMessageProducer. *)
EXTENDS BatapMessageProducer

CONSTANTS m1, m2, m3, ima, empty

(* The ordinary messages are interchangeable. *)
Symmetry == Permutations(Message \ (ImaLike \cup EmptyText))
=============================================================================
