-------------------------- MODULE StoreAndForward --------------------------
(***************************************************************************)
(* What the BATAP sender with its Redis queue promises an application that *)
(* puts a message in the queue: the message is kept until the peer has it. *)
(* It says nothing of serials, windows, timers, sessions or Redis.         *)
(***************************************************************************)
CONSTANT Message

VARIABLES
  stored,      (* messages the queue holds                                 *)
  got,         (* messages the peer's application was given                *)
  writtenOff   (* messages the promise does not cover any more             *)

abstractVars == <<stored, got, writtenOff>>

AbstractInit ==
  /\ stored = {}
  /\ got = {}
  /\ writtenOff = {}

(* A new message. *)
Accept(m) ==
  /\ m \notin stored \cup got \cup writtenOff
  /\ stored' = stored \cup {m}
  /\ UNCHANGED <<got, writtenOff>>

(* Only messages of the queue ever reach the peer. *)
Forward(m) ==
  /\ m \in stored \cup writtenOff
  /\ got' = got \cup {m}
  /\ UNCHANGED <<stored, writtenOff>>

(* The text is lost in the store, or an ambiguous ack is taken for these.  *)
WriteOff(ms) ==
  /\ ms \subseteq stored \cup got
  /\ writtenOff' = writtenOff \cup ms
  /\ UNCHANGED <<stored, got>>

Forget(ms) ==
  /\ ms \subseteq stored \cap (got \cup writtenOff)
  /\ stored' = stored \ ms
  /\ UNCHANGED <<got, writtenOff>>

AbstractNext ==
  \/ \E m \in Message : Accept(m) \/ Forward(m)
  \/ \E ms \in SUBSET Message : WriteOff(ms) \/ Forget(ms)

AbstractSpec == AbstractInit /\ [][AbstractNext]_abstractVars
=============================================================================
