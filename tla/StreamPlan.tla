----------------------------- MODULE StreamPlan -----------------------------
(***************************************************************************)
(* How many data streams a test opens and which end of each stream sends.  *)
(* Both ends compute this alone, from the parameters the client sent and   *)
(* from the order in which they number their streams; nothing on the wire  *)
(* says which way a stream flows.                                          *)
(***************************************************************************)
EXTENDS Naturals

U16 == 65536        \* num_send_streams and num_receive_streams are u16

Roles      == {"client", "server"}
Directions == {"ClientToServer", "ServerToClient", "Bidirectional"}

\* The side that sends in the named one-way direction opens `parallel'
\* sending streams; the server reads the table with its columns swapped.
NumSend(role, dir, parallel) ==
  IF \/ dir = "Bidirectional"
     \/ role = "client" /\ dir = "ClientToServer"
     \/ role = "server" /\ dir = "ServerToClient"
  THEN parallel ELSE 0

NumReceive(role, dir, parallel) ==
  IF \/ dir = "Bidirectional"
     \/ role = "client" /\ dir = "ServerToClient"
     \/ role = "server" /\ dir = "ClientToServer"
  THEN parallel ELSE 0

\* total_needed_streams: a u16 sum (a release build wraps, a debug build panics).
TotalNeeded(role, dir, parallel) ==
  (NumSend(role, dir, parallel) + NumReceive(role, dir, parallel)) % U16

\* Mutant: the server of a bidirectional test forgets to flip.
IsSendingNoFlip(role, dir, parallel, index) ==
  index < NumSend(role, dir, parallel)

\* The first num_send_streams streams send; a bidirectional server flips the
\* answer, because the client's sending streams come first.
IsSending(role, dir, parallel, index) ==
  LET first == index < NumSend(role, dir, parallel)
  IN  IF role = "server" /\ dir = "Bidirectional" THEN ~first ELSE first
=============================================================================
