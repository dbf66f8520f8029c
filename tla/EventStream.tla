----------------------------- MODULE EventStream -----------------------------
(***************************************************************************)
(* What the wire promises a client of a session, with no process, crash or *)
(* fsync in it: there is one stream of events, it only grows, and whatever *)
(* a client holds is an event of the stream under that event's number.     *)
(***************************************************************************)
EXTENDS Integers, Sequences

CONSTANT Event

VARIABLES stream, copy

Numbered(s) == {<<i, s[i]>> : i \in DOMAIN s}

Init == stream = <<>> /\ copy = {}

(* The stream is extended, and the client is sent some of it. *)
Publish ==
  /\ stream' \in Seq(Event)
  /\ Len(stream) <= Len(stream')
  /\ \A i \in DOMAIN stream : stream'[i] = stream[i]
  /\ copy \subseteq copy'
  /\ copy' \subseteq Numbered(stream')

Spec == Init /\ [][Publish]_<<stream, copy>>
=============================================================================
