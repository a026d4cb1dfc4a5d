------------------------------- MODULE MCMatip -------------------------------
(* TLC instances of Matip. *)
EXTENDS Matip
=============================================================================
