---------------------------- MODULE MCDataStream ----------------------------
(***************************************************************************)
(* A small instance of DataStream: blocks of two bytes, so that reads and  *)
(* writes may be short, a limit that is no multiple of it, and a channel   *)
(* of one report, which is full as soon as the user interface pauses.      *)
(***************************************************************************)
EXTENDS DataStream
=============================================================================
