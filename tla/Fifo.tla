-------------------------------- MODULE Fifo --------------------------------
(***************************************************************************)
(* What the control socket promises in each direction: the messages that   *)
(* were written are read one by one, whole and in the order of the writes. *)
(***************************************************************************)
EXTENDS Naturals, Sequences

VARIABLES sent, received

Init == sent = <<>> /\ received = <<>>

Send == /\ Len(sent') = Len(sent) + 1
        /\ \A k \in DOMAIN sent : sent'[k] = sent[k]
        /\ UNCHANGED received

Receive == /\ Len(received) < Len(sent)
           /\ received' = Append(received, sent[Len(received) + 1])
           /\ UNCHANGED sent

Next == Send \/ Receive

Spec == Init /\ [][Next]_<<sent, received>>
=============================================================================
