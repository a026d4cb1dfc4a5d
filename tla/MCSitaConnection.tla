--------------------------- MODULE MCSitaConnection ---------------------------
(* TLC instances of SitaConnection. *)
EXTENDS SitaConnection
=============================================================================
