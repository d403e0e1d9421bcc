------------------------------ MODULE PerfTest ------------------------------
(***************************************************************************)
(* One throughput test from SendParameters to the end of both controllers: *)
(* the composition of the two controllers, their stream workers, the       *)
(* server's listener and the environment.                                  *)
(***************************************************************************)
EXTENDS Controller, WorkerTasks, Listener

\* Ctrl-C in one of the two processes.
CtrlC(r) ==
  /\ <<"ctrlc", r>> \in Faults /\ ~exited[r] /\ shutdown[r] = "none"
  /\ shutdown' = [shutdown EXCEPT ![r] = "pending"]
  /\ UNCHANGED <<pc, state, old, target, results, peerResults,
                 chanVars, workVars, lstVars, exited>>

\* Connections of the client on which no Hello was sent end without one.
CloseClientConns ==
  hello' = [c \in Conns |-> IF c \in Ids /\ hello[c] = "open" THEN "closed" ELSE hello[c]]

\* A process dies: its tasks stop where they are and its sockets close.
Crash(r) ==
  /\ <<"crash", r>> \in Faults /\ ~exited[r]
  /\ pc' = [pc EXCEPT ![r] = IF Alive(r) THEN "aborted" ELSE @]
  /\ task' = [task EXCEPT ![r] = [i \in Ids |-> IF Live(r, i) THEN "err" ELSE task[r][i]]]
  /\ exited' = [exited EXCEPT ![r] = TRUE]
  /\ IF r = "server"
     THEN CloseListener /\ UNCHANGED hello
     ELSE CloseClientConns /\ UNCHANGED <<lpc, lconn, backlog, reply>>
  /\ UNCHANGED <<state, old, target, results, peerResults, shutdown, chanVars,
                 workers, index, seen, conn>>

\* main returns once every sender of the statistics channel is gone; the
\* server's main also waits for the listener task.
Exit(r) ==
  /\ Ended(r) /\ ~exited[r] /\ \A i \in Ids : ~Live(r, i)
  /\ r = "server" => lpc = "stopped"
  /\ exited' = [exited EXCEPT ![r] = TRUE]
  /\ UNCHANGED <<ctrlVars, chanVars, workVars, lstVars>>

Next ==
  \/ \E r \in Roles : ControllerStep(r) \/ CtrlC(r) \/ Crash(r) \/ Exit(r)
  \/ \E r \in Roles, i \in Ids : WorkerStep(r, i)
  \/ ListenerStep
  \/ \E s \in Strangers : StrangerConnect(s) \/ StrangerSpeaks(s)

Spec == Init /\ [][Next]_vars

\* The runtime polls every runnable task, timers fire and bytes arrive.
Fairness ==
  /\ \A r \in Roles : WF_vars(ControllerStep(r)) /\ WF_vars(Exit(r))
  /\ \A r \in Roles, i \in Ids : WF_vars(WorkerStep(r, i))
  /\ WF_vars(ListenerStep)

FairSpec == Spec /\ Fairness

-----------------------------------------------------------------------------
(* Safety.                                                                 *)

Rank(s) == CASE s = "Start"           -> 0
             [] s = "CreateStreams"   -> 1
             [] s = "Running"         -> 2
             [] s = "ExchangeResults" -> 3
             [] s = "Terminate"       -> 4

Loaded(r) == published[r] # <<>> /\ published[r][1] = "StartLoad"

\* No side starts its load before the server has accepted every stream, nor
\* before its own workers have all subscribed: a worker that subscribed after
\* the broadcast would wait for StartLoad for ever (accept_stream, run_worker).
LoadStartsWhole ==
  \A r \in Roles : Loaded(r) => index[r] = Total /\ index["server"] = Total

\* Both ends number the streams alone. Once the load starts, stream j of the
\* server is stream j of the client, and exactly one end of it sends: results
\* keyed by stream id describe the same connection on both sides.
StreamsPaired ==
  Loaded("server") => \A j \in Ids : /\ conn["server"][j] = j
                                    /\ Sends("server", j) # Sends("client", j)

\* The server enters ExchangeResults only with the totals of every stream in
\* hand, whatever crashed, stalled or was reset before (process_internal_message).
ExchangeComplete ==
  state["server"] = "ExchangeResults" => results["server"] = Ids

\* A side that completed the exchange holds exactly the results the other side
\* has collected, and the client holds those of every stream (exchange_results).
ResultsAgree ==
  \A r \in Roles : pc[r] = "done" /\ state[r] = "ExchangeResults" =>
    /\ peerResults[r] = results[Peer(r)]
    /\ r = "client" => peerResults[r] = Ids

\* The client enters a phase only when the server has stored it or is between
\* telling the client and storing it (set_state); interrupts apart.
ClientFollows ==
  state["client"] # "Terminate" =>
    \/ Rank(state["client"]) <= Rank(state["server"])
    \/ /\ Rank(state["client"]) <= Rank(target)
       /\ pc["server"] \in {"assign", "aborted"}

\* Each side broadcasts StartLoad at most once and nothing after Terminate, so
\* no worker is started again after it was told to stop (run_controller).
SignalsInOrder ==
  \A r \in Roles : published[r] \in {<<>>, <<"StartLoad">>, <<"Terminate">>,
                                    <<"StartLoad", "Terminate">>}

Queued(c) == \E k \in DOMAIN inbox["server"] : inbox["server"][k] = CreateStream(c)

\* A stream the client was welcomed on is registered with the controller or on
\* its way there: the server never waits for a stream that it has dropped.
\* (True while the channel has room for all of them and for one Terminate.)
NoStreamLost ==
  \A c \in Ids :
    reply[c] = "welcome" /\ Alive("server") =>
      Queued(c) \/ \E j \in Ids : conn["server"][j] = c

Reporting(r, i) == \E k \in DOMAIN inbox[r] : inbox[r][k] = StreamTerminated(i)

\* A worker that ended well is not forgotten: while the controller is there, the
\* worker's message waits for it or it has the worker's result, however many end
\* together and whatever stops the test. (True while the channel has room as above.)
EndsReported ==
  \A r \in Roles, i \in Ids :
    task[r][i] = "ok" /\ Alive(r) => Reporting(r, i) \/ i \in results[r]

\* A test's phase only moves forward, on both sides (run_controller returns
\* from Terminate and leaves the loop after ExchangeResults).
PhasesAdvance == [][\A r \in Roles : Rank(state'[r]) >= Rank(state[r])]_state

\* While a test is in flight, a stream is welcomed only if the phase is still
\* CreateStreams at the moment of the answer, not just when it was looked at.
WelcomedInPhase ==
  [][\A c \in Conns : reply[c] # reply'[c] /\ reply'[c] = "welcome" /\ Alive("server")
       => state["server"] = "CreateStreams"]_vars

\* How the test ended on a side: it went through the exchange, or did not.
Outcome(r) == CASE Alive(r) -> "open"
                [] pc[r] = "done" /\ state[r] = "ExchangeResults" -> "complete"
                [] OTHER -> "cut"

\* With its listener, workers, channels and faults, the test is one that the
\* module TestLife describes (run_controller on both sides).
Life == INSTANCE TestLife WITH
  Streams <- Ids, said <- target, phase <- state, have <- results,
  peer <- peerResults, outcome <- [r \in Roles |-> Outcome(r)]
LivesAsPromised == Life!Spec

-----------------------------------------------------------------------------
(* What the repository says and the code does not do.                      *)

\* "We already have a test in-flight" is the answer to connections that do not
\* belong to the test; the streams the server asked for are not refused.
AskedStreamsNotRefused == \A c \in Ids : reply[c] # "busy"

\* A failed handshake terminates "this stream" (start_server), not the test.
FailedHandshakeEndsItsStream ==
  (\A r \in Roles : shutdown[r] = "none") => state["server"] # "Terminate"

\* A worker that ended with an error is reported to its controller, which drops
\* it from its workers with a warning (process_internal_message).
WorkerErrorReported ==
  \A i \in Ids : task["server"][i] = "err" ~> i \notin workers["server"] \/ Ended("server")

\* When the time to transmit is over on every stream, the test ends.
TimeUpEndsTest ==
  (\A i \in Ids : task["server"][i] = "ok") ~> Ended("server")

\* Rejecting a connection reads nothing from it, so that nobody who says
\* nothing keeps the listener from answering the streams of the test.
StreamsAnswered ==
  \A c \in Ids : hello[c] = "sent" ~> reply[c] # "none"

-----------------------------------------------------------------------------
(* Liveness.                                                               *)

Refused == \E c \in Ids : reply[c] = "busy"

Completed(r) == Outcome(r) = "complete"

\* Ctrl-C, or a process that is gone without having completed the test. That
\* it died, and did not exit after giving up, is for GaveUp to tell.
Disturbed ==
  \E r \in Roles : shutdown[r] # "none" \/ (exited[r] /\ ~Completed(r))

\* run_controller returned without the exchange; its process has not exited yet.
\* (A process that dies is gone in the same step.)
GaveUp(r) == Outcome(r) = "cut" /\ ~exited[r]

\* A test that neither Ctrl-C nor a crash disturbs completes on both sides: no
\* controller gives up and none hangs, unless the server refuses one of the
\* streams it asked for (see AskedStreamsNotRefused). Others may not connect,
\* no data connection break and no read of the client be dropped in a message
\* (see Faults and BadCancel), and the channel has room as above.
TestCompletes ==
  /\ [](Disturbed \/ Refused \/ \A r \in Roles : ~GaveUp(r))
  /\ <>(Disturbed \/ Refused \/ \A r \in Roles : Completed(r))

\* In the next two nobody at the listener keeps silent: a connection that says
\* nothing may for ever hold the lock that set_state needs and keep the client
\* from its Welcome (StreamsAnswered).

\* Ctrl-C in the client ends its controller, in whatever phase it comes.
ClientStops == shutdown["client"] # "none" ~> Ended("client")

\* Ctrl-C in the server ends the test on both sides.
ServerStops == shutdown["server"] # "none" ~> \A r \in Roles : Ended(r)

\* When the client sends and its process dies under load, the server's
\* readers see the end of their streams and the server's test ends.
ServerSurvivesClient ==
  state["server"] = "Running" /\ exited["client"] ~> Ended("server")
=============================================================================
