---------------------------- MODULE MCAftnClient ----------------------------
(* TLC instances of AftnClient. *)
EXTENDS AftnClient
=============================================================================
