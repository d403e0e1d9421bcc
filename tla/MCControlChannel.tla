-------------------------- MODULE MCControlChannel --------------------------
(***************************************************************************)
(* A small instance of ControlChannel: a header of two bytes is the least  *)
(* that can arrive in part; payloads of one byte, of several and of the    *)
(* largest size; three messages, so that one follows a read that went wrong*)
(***************************************************************************)
EXTENDS ControlChannel

Sizes == {1, 3}
=============================================================================
