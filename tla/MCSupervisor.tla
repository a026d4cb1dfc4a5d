---------------------------- MODULE MCSupervisor ----------------------------
(* TLC instances of Supervisor. *)
EXTENDS Supervisor

CONSTANTS c1, c2, d1, g1, g2

(* c1 waits for the database d1, c2 for none. *)
OneDatabase == [c \in {c1} |-> d1]
Services    == [g \in Group |-> IF g = g1 THEN <<c1, c2>> ELSE <<c2>>]
Databases   == <<d1>>
NoRequest   == {}
Requests    == {Call("stop", Nobody), Call("restart", c1)}
=============================================================================
