----------------------------- MODULE MCSessions -----------------------------
(***************************************************************************)
(* A small instance of Sessions: two clients are the least for a test that *)
(* is refused, follows another, or has a handshake failed by another.      *)
(***************************************************************************)
EXTENDS SessionsInv, TLC

CONSTANTS c1, c2
=============================================================================
