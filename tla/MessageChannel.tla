--------------------------- MODULE MessageChannel ---------------------------
(***************************************************************************)
(* What one direction of a MATIP session promises its user: messages       *)
(* arrive whole, in the order they were written, once each, and a suffix   *)
(* may be missing when the session ends.  It says nothing of packets,      *)
(* segments, states or commands.                                           *)
(***************************************************************************)
EXTENDS Naturals, Sequences

VARIABLES
  written,   (* the messages written so far                                *)
  emitted    (* the messages emitted by newMessage() so far                *)

channelVars == <<written, emitted>>

ChannelInit ==
  /\ written = <<>>
  /\ emitted = <<>>

Write ==
  /\ Len(written') = Len(written) + 1
  /\ SubSeq(written', 1, Len(written)) = written
  /\ UNCHANGED emitted

Emit ==
  /\ Len(emitted) < Len(written)
  /\ emitted' = Append(emitted, written[Len(emitted) + 1])
  /\ UNCHANGED written

ChannelSpec == ChannelInit /\ [][Write \/ Emit]_channelVars
=============================================================================
