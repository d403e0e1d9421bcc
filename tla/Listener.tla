------------------------------ MODULE Listener ------------------------------
(***************************************************************************)
(* The accept loop of start_server (src/server.rs), from the moment a test *)
(* is in flight, with handle_create_stream and, for a connection that      *)
(* arrives after the test's controller is gone, create_perf. The loop      *)
(* serves one connection at a time and awaits each of them inline.         *)
(* Strangers are connections of other processes; they hold no test's       *)
(* cookie and send no parameters (a second test is outside this module).   *)
(***************************************************************************)
EXTENDS PerfVars

Answer(c, a) == reply' = [reply EXCEPT ![c] = a]

\* Reading the Hello: one arrived, or the peer closed without sending one.
HelloArrived(c) == hello[c] = "sent"
HelloFailed(c)  == hello[c] = "closed"

\* client_cookie == *cookie: only the test's own client knows its cookie.
CookieMatches(c) == c \in Ids

\* handle_create_stream, up to its first await under the lock.
AcceptInFlight ==
  /\ lpc = "accept" /\ backlog # <<>> /\ Alive("server")
  /\ backlog' = Tail(backlog)
  /\ IF state["server"] = "CreateStreams"
     THEN lpc' = "hello" /\ lconn' = Head(backlog) /\ UNCHANGED reply
     ELSE Answer(Head(backlog), "busy") /\ UNCHANGED <<lpc, lconn>>
  /\ UNCHANGED <<ctrlVars, chanVars, workVars, hello, exited>>

BackToAccept == lpc' = "accept" /\ lconn' = NoStream

\* Our own client: Welcome first, then the stream is handed over if there is room.
WelcomeStream ==
  /\ lpc = "hello" /\ HelloArrived(lconn) /\ CookieMatches(lconn)
  /\ Answer(lconn, "welcome")
  /\ TrySend("server", CreateStream(lconn))
  /\ BackToAccept
  /\ UNCHANGED <<ctrlVars, ctl, published, workVars, backlog, hello, exited>>

RejectStranger ==
  /\ lpc = "hello" /\ HelloArrived(lconn) /\ ~CookieMatches(lconn)
  /\ Answer(lconn, "busy")
  /\ BackToAccept
  /\ UNCHANGED <<ctrlVars, chanVars, workVars, backlog, hello, exited>>

\* Reading the Hello failed, or writing Welcome to a client that has gone did.
HandshakeFailed ==
  /\ lpc = "hello"
  /\ \/ HelloFailed(lconn)
     \/ HelloArrived(lconn) /\ CookieMatches(lconn) /\ exited["client"]
  /\ Answer(lconn, "closed")
  /\ TrySend("server", TerminateMsg)
  /\ BackToAccept
  /\ UNCHANGED <<ctrlVars, ctl, published, workVars, backlog, hello, exited>>

\* No test in flight: whatever connects is taken for a control connection.
AcceptFresh ==
  /\ lpc = "accept" /\ backlog # <<>> /\ Ended("server")
  /\ backlog' = Tail(backlog) /\ lconn' = Head(backlog) /\ lpc' = "cookie"
  /\ UNCHANGED <<ctrlVars, chanVars, workVars, hello, reply, exited>>

FreshHello ==
  /\ lpc = "cookie"
  /\ \/ /\ HelloArrived(lconn)
        /\ Answer(lconn, "welcome") /\ lpc' = "params" /\ UNCHANGED lconn
     \/ /\ HelloFailed(lconn)
        /\ Answer(lconn, "closed") /\ BackToAccept
  /\ UNCHANGED <<ctrlVars, chanVars, workVars, backlog, hello, exited>>

\* No parameters come: PROTOCOL_TIMEOUT, or the end of the stream.
FreshGiveUp ==
  /\ lpc = "params"
  /\ BackToAccept
  /\ UNCHANGED <<ctrlVars, chanVars, workVars, backlog, hello, reply, exited>>

\* The listening socket and the connections still in its queue close.
CloseListener ==
  /\ lpc' = "stopped" /\ lconn' = NoStream /\ backlog' = <<>>
  /\ reply' = [c \in Conns |->
                 IF /\ reply[c] = "none"
                    /\ c = lconn \/ \E k \in DOMAIN backlog : backlog[k] = c
                 THEN "closed" ELSE reply[c]]

ListenerShutdown ==
  /\ lpc = "accept" /\ shutdown["server"] # "none"
  /\ CloseListener
  /\ UNCHANGED <<ctrlVars, chanVars, workVars, hello, exited>>

ListenerStep ==
  \/ AcceptInFlight \/ WelcomeStream \/ RejectStranger \/ HandshakeFailed
  \/ AcceptFresh \/ FreshHello \/ FreshGiveUp \/ ListenerShutdown

-----------------------------------------------------------------------------
(* Other processes that connect to the port while the test is in flight.   *)

StrangerConnect(s) ==
  /\ hello[s] = "idle" /\ lpc # "stopped"
  /\ hello' = [hello EXCEPT ![s] = "open"]
  /\ backlog' = Append(backlog, s)
  /\ UNCHANGED <<ctrlVars, chanVars, workVars, lpc, lconn, reply, exited>>

StrangerSpeaks(s) ==
  /\ hello[s] = "open"
  /\ \E h \in {"sent", "closed"} : hello' = [hello EXCEPT ![s] = h]
  /\ UNCHANGED <<ctrlVars, chanVars, workVars, lpc, lconn, backlog, reply, exited>>
=============================================================================
