---------------------------- MODULE MCLargeSocket ----------------------------
(* TLC instances of LargeSocket. *)
EXTENDS LargeSocket
NoIdentifier == -1
=============================================================================
