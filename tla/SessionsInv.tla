----------------------------- MODULE SessionsInv -----------------------------
(***************************************************************************)
(* The inductive invariant behind the theorems of SessionsProofs: the      *)
(* connection that became a test is never served again, no test begins     *)
(* while another one runs, and every test is with the user interface, on   *)
(* its way there, or through.                                              *)
(***************************************************************************)
EXTENDS Sessions

\* While the listener makes a test, none is alive.
FlightInv ==
  /\ OneTest
  /\ lpc \in {"cookie", "params", "announce"} => \A c \in Clients : ~Alive(c)
  /\ lpc = "hello" => inflight # NoTest
  /\ inflight # NoTest => tpc[inflight] # "none"

\* A client's control connection is in the listener's hands once, before its test.
ControlInv ==
  \A c \in Clients :
    /\ client[c] = "idle" => tpc[c] = "none"
    /\ client[c] = "idle" \/ tpc[c] # "none" =>
         lconn # Control(c) /\ \A i \in DOMAIN backlog : backlog[i] # Control(c)
    /\ lconn = Control(c) => \A i \in DOMAIN backlog : backlog[i] # Control(c)
    /\ \A i, j \in DOMAIN backlog :
         backlog[i] = Control(c) /\ backlog[j] = Control(c) => i = j

\* What the user interface has to print, and what it has printed.
ShownInv ==
  /\ \A c \in Clients :
       /\ tpc[c] = "none" => worker[c] = "none" /\ unread[c] = 0
       /\ tpc[c] # "none" <=>
            (c \in shown \/ ui = c \/ \E i \in DOMAIN port : port[i] = c)
       /\ c \in shown => tpc[c] = "over" /\ ~Working(c) /\ unread[c] = 0
  /\ exited => lpc = "stopped" /\ port = <<>> /\ ui = NoTest

\* The inductive invariant of a server's tests (start_server, run_server).
ServerInv ==
  TypeOK /\ FlightInv /\ ControlInv /\ StreamsOfTheirTest /\ ShownInv
=============================================================================
