----------------------------- MODULE Controller -----------------------------
(***************************************************************************)
(* run_controller (src/controller.rs) and Perf::set_state (src/perf.rs),   *)
(* for both roles. One action is the code between two places where another *)
(* task can act: an await, a lock, a write to a socket or a channel.       *)
(***************************************************************************)
EXTENDS PerfVars

Goto(r, l) == pc' = [pc EXCEPT ![r] = l]

\* A write on the control socket reaches the peer, or fails because the peer
\* has closed its end (the first write after the close may still succeed).
WriteCtl(r, m) == ctl' = [ctl EXCEPT ![Peer(r)] = Append(@, m)]
WriteFails(r)  == Ended(Peer(r))

\* A read fails at the end of the stream, or early when the peer closed with
\* our own messages unread: the reset discards what it had sent.
ReadFails(r) == Ended(Peer(r)) /\ (ctl[r] = <<>> \/ ctl[Peer(r)] # <<>>)

Abort(r) == /\ Goto(r, "aborted")
            /\ UNCHANGED <<state, target, ctl>>

\* set_state: the server tells the client before it takes the lock (Assign).
SetState(r, s) ==
  \/ /\ r = "client"
     /\ state' = [state EXCEPT ![r] = s]
     /\ Goto(r, "top")
     /\ UNCHANGED <<target, ctl>>
  \/ /\ r = "server"
     /\ WriteCtl(r, SetStateMsg(s))
     /\ target' = s
     /\ Goto(r, "assign")
     /\ UNCHANGED state
  \/ /\ r = "server" /\ WriteFails(r)
     /\ Abort(r)

Assign ==
  /\ pc["server"] = "assign" /\ LockFree
  /\ state' = [state EXCEPT !["server"] = target]
  /\ Goto("server", "top")
  /\ UNCHANGED <<old, target, results, peerResults, shutdown,
                 chanVars, workVars, lstVars, exited>>

-----------------------------------------------------------------------------
(* The match on the state at the head of the loop.                         *)

AtTop(r) == pc[r] = "top" /\ (r = "client" \/ LockFree)

TopStart ==
  /\ AtTop("server") /\ state["server"] = "Start"
  /\ SetState("server", "CreateStreams")
  /\ UNCHANGED <<old, results, peerResults, shutdown, inbox, published,
                 workVars, lstVars, exited>>

TopCreateStreams ==
  /\ AtTop("client") /\ state["client"] = "CreateStreams"
  /\ Goto("client", "connect")
  /\ UNCHANGED <<state, old, target, results, peerResults, shutdown,
                 chanVars, workVars, lstVars, exited>>

\* Mutants: StartLoad on every pass in Running; no arm for Terminate.
StartsLoadAgain(r) == state[r] = "Running"
StoppingNoTerminate(r) == state[r] = "ExchangeResults"

StartsLoad(r) == state[r] = "Running" /\ old[r] # "Running"

Subscribed(r) == \E i \in Ids : Live(r, i)

\* A broadcast with no receiver left is an error: here it ends the controller.
TopRunning(r) ==
  /\ AtTop(r) /\ StartsLoad(r)
  /\ IF Subscribed(r)
     THEN /\ published' = [published EXCEPT ![r] = Append(@, "StartLoad")]
          /\ Goto(r, "poll")
     ELSE Goto(r, "aborted") /\ UNCHANGED published
  /\ UNCHANGED <<state, old, target, results, peerResults, shutdown, inbox, ctl,
                 workVars, lstVars, exited>>

\* ExchangeResults and Terminate both stop the workers first, best effort.
Stopping(r) == state[r] \in {"ExchangeResults", "Terminate"}

TopStopWorkers(r) ==
  /\ AtTop(r) /\ Stopping(r)
  /\ published' = IF Subscribed(r)
                  THEN [published EXCEPT ![r] = Append(@, "Terminate")]
                  ELSE published
  /\ Goto(r, "collect")
  /\ UNCHANGED <<state, old, target, results, peerResults, shutdown, inbox, ctl,
                 workVars, lstVars, exited>>

TopNothing(r) ==
  /\ AtTop(r)
  /\ \/ state[r] = "Start" /\ r = "client"
     \/ state[r] = "CreateStreams" /\ r = "server"
     \/ state[r] = "Running" /\ ~StartsLoad(r)
  /\ Goto(r, "poll")
  /\ UNCHANGED <<state, old, target, results, peerResults, shutdown,
                 chanVars, workVars, lstVars, exited>>

\* old_state = state, then shutdown.try_recv().
Poll(r) ==
  /\ pc[r] = "poll"
  /\ old' = [old EXCEPT ![r] = state[r]]
  /\ IF shutdown[r] = "pending"
     THEN /\ shutdown' = [shutdown EXCEPT ![r] = "seen"]
          /\ TrySend(r, TerminateMsg)
     ELSE UNCHANGED <<shutdown, inbox>>
  /\ Goto(r, "select")
  /\ UNCHANGED <<state, target, results, peerResults, ctl, published,
                 workVars, lstVars, exited>>

-----------------------------------------------------------------------------
(* create_streams: the client connects its streams one after the other.    *)

ConnectStream ==
  /\ pc["client"] = "connect" /\ index["client"] < Total
  /\ IF lpc = "stopped"
     THEN Goto("client", "aborted") /\ UNCHANGED <<backlog, hello>>
     ELSE /\ backlog' = Append(backlog, index["client"])
          /\ hello' = [hello EXCEPT ![index["client"]] = "open"]
          /\ Goto("client", "hello")
  /\ UNCHANGED <<state, old, target, results, peerResults, shutdown, chanVars,
                 workVars, lpc, lconn, reply, exited>>

SendHello ==
  /\ pc["client"] = "hello"
  /\ hello' = [hello EXCEPT ![index["client"]] = "sent"]
  /\ Goto("client", "welcome")
  /\ UNCHANGED <<state, old, target, results, peerResults, shutdown, chanVars,
                 workVars, lpc, lconn, backlog, reply, exited>>

\* create_and_register_stream_worker: the worker subscribes at the tail.
Register(r, c) ==
  LET i == index[r]
  IN  /\ task' = [task EXCEPT ![r][i] = "waiting"]
      /\ seen' = [seen EXCEPT ![r][i] = Len(published[r])]
      /\ conn' = [conn EXCEPT ![r][i] = c]
      /\ workers' = [workers EXCEPT ![r] = @ \cup {i}]
      /\ index' = [index EXCEPT ![r] = i + 1]

AwaitWelcome ==
  /\ pc["client"] = "welcome"
  /\ \/ /\ reply[index["client"]] = "welcome"
        /\ Register("client", index["client"])
        /\ Goto("client", "connect")
     \/ /\ reply[index["client"]] \in {"busy", "closed"}
        /\ Goto("client", "aborted")
        /\ UNCHANGED workVars
  /\ UNCHANGED <<state, old, target, results, peerResults, shutdown, chanVars,
                 lstVars, exited>>

StreamsCreated ==
  /\ pc["client"] = "connect" /\ index["client"] >= Total
  /\ Goto("client", "poll")
  /\ UNCHANGED <<state, old, target, results, peerResults, shutdown,
                 chanVars, workVars, lstVars, exited>>

-----------------------------------------------------------------------------
(* tokio::select!                                                          *)

NextMsg(r, kind) ==
  /\ pc[r] = "select"
  /\ inbox[r] # <<>> /\ Head(inbox[r]).kind = kind
  /\ inbox' = [inbox EXCEPT ![r] = Tail(@)]

\* Mutant: the test starts one stream too early.
AllButOneAccepted == Cardinality(workers["server"]) + 2 = Total

AllAccepted == Cardinality(workers["server"]) + 1 = Total

AcceptStream ==
  /\ NextMsg("server", "CreateStream")
  /\ Register("server", Head(inbox["server"]).id)
  /\ IF AllAccepted
     THEN SetState("server", "Running")
     ELSE Goto("server", "top") /\ UNCHANGED <<state, target, ctl>>
  /\ UNCHANGED <<old, results, peerResults, shutdown, published, lstVars, exited>>

\* handler.await returns at once: the worker sends its message as its last act.
Collect(r, i) ==
  /\ workers' = [workers EXCEPT ![r] = @ \ {i}]
  /\ results' = IF i \in workers[r] /\ task[r][i] = "ok"
                THEN [results EXCEPT ![r] = @ \cup {i}] ELSE results

\* Mutants: without the emptiness check; without the role check.
AnyWorkerDone(r, i) == r = "server"
AnyRoleDone(r, i)   == workers[r] \subseteq {i}

LastWorkerDone(r, i) == r = "server" /\ workers[r] \subseteq {i}

OnStreamTerminated(r) ==
  /\ NextMsg(r, "StreamTerminated")
  /\ LET i == Head(inbox[r]).id
     IN  /\ Collect(r, i)
         /\ IF LastWorkerDone(r, i)
            THEN SetState(r, "ExchangeResults")
            ELSE Goto(r, "top") /\ UNCHANGED <<state, target, ctl>>
  /\ UNCHANGED <<old, peerResults, shutdown, published,
                 index, task, seen, conn, lstVars, exited>>

OnTerminate(r) ==
  /\ NextMsg(r, "Terminate")
  /\ SetState(r, "Terminate")
  /\ UNCHANGED <<old, results, peerResults, shutdown, published,
                 workVars, lstVars, exited>>

\* recv() also resolves when the sender is dropped, which follows the signal.
OnShutdown(r) ==
  /\ pc[r] = "select" /\ shutdown[r] # "none"
  /\ shutdown' = [shutdown EXCEPT ![r] = "seen"]
  /\ SetState(r, "Terminate")
  /\ UNCHANGED <<old, results, peerResults, inbox, published,
                 workVars, lstVars, exited>>

\* The read of the client stands in the select!, which drops it when the end of a
\* worker wins. Had it taken a part of this message, the rest is no message. Left
\* out: a rest whose first bytes pass for a length, which is waited for until the
\* server closes; all that ControlChannel has of a dropped read is in BadCancel.
ReadDroppedInFrame ==
  /\ <<"cut", "client">> \in Faults /\ ctl["client"] # <<>>
  /\ \E i \in Ids : i < index["client"] /\ i \notin workers["client"]

\* The client also listens to the server; a message of another kind is logged.
OnServerMessage ==
  /\ pc["client"] = "select"
  /\ \/ /\ ctl["client"] # <<>>
        /\ ctl' = [ctl EXCEPT !["client"] = Tail(@)]
        /\ state' = IF Head(ctl["client"]).kind = "SetState"
                    THEN [state EXCEPT !["client"] = Head(ctl["client"]).state]
                    ELSE state
        /\ Goto("client", "top")
        /\ UNCHANGED target
     \/ (ReadFails("client") \/ ReadDroppedInFrame) /\ Abort("client")
  /\ UNCHANGED <<old, results, peerResults, shutdown, inbox, published,
                 workVars, lstVars, exited>>

-----------------------------------------------------------------------------
(* collect_stream_results and exchange_results                             *)

\* Err(_): five seconds passed with this worker still stuck in a send.
CollectOne(r, i) ==
  /\ pc[r] = "collect" /\ i \in workers[r]
  /\ ~Live(r, i) \/ <<"stall", r>> \in Faults
  /\ Collect(r, i)
  /\ UNCHANGED <<pc, state, old, target, peerResults, shutdown, chanVars,
                 index, task, seen, conn, lstVars, exited>>

\* Mutants: Terminate goes on with the loop; Terminate exchanges results too; the
\* server sends its results without having read the client's.
AfterCollectLoops(r) ==
  IF state[r] = "Terminate" THEN "poll" ELSE IF r = "client" THEN "xsend" ELSE "xread"
AfterCollectSwapped(r) ==
  IF state[r] = "Terminate" THEN "done" ELSE IF r = "client" THEN "xread" ELSE "xsend"
AfterCollectExchanges(r) == IF r = "client" THEN "xsend" ELSE "xread"

AfterCollect(r) ==
  IF state[r] = "Terminate" THEN "done" ELSE IF r = "client" THEN "xsend" ELSE "xread"

AllCollected(r) ==
  /\ pc[r] = "collect" /\ workers[r] = {}
  /\ Goto(r, AfterCollect(r))
  /\ UNCHANGED <<state, old, target, results, peerResults, shutdown,
                 chanVars, workVars, lstVars, exited>>

SendResults(r) ==
  /\ pc[r] = "xsend"
  /\ \/ /\ WriteCtl(r, ResultsMsg(results[r]))
        /\ Goto(r, IF r = "client" THEN "xread" ELSE "done")
     \/ /\ WriteFails(r)
        /\ Goto(r, "aborted") /\ UNCHANGED ctl
  /\ UNCHANGED <<state, old, target, results, peerResults, shutdown, inbox,
                 published, workVars, lstVars, exited>>

ReadResults(r) ==
  /\ pc[r] = "xread"
  /\ \/ /\ ctl[r] # <<>>
        /\ ctl' = [ctl EXCEPT ![r] = Tail(@)]
        /\ IF Head(ctl[r]).kind = "SendResults"
           THEN /\ peerResults' = [peerResults EXCEPT ![r] = Head(ctl[r]).ids]
                /\ Goto(r, IF r = "client" THEN "done" ELSE "xsend")
           ELSE Goto(r, "aborted") /\ UNCHANGED peerResults
     \/ ReadFails(r) /\ Goto(r, "aborted") /\ UNCHANGED <<ctl, peerResults>>
  /\ UNCHANGED <<state, old, target, results, shutdown, inbox, published,
                 workVars, lstVars, exited>>

\* One task runs all of this for a role.
ControllerStep(r) ==
  \/ r = "server" /\ (Assign \/ TopStart \/ AcceptStream)
  \/ /\ r = "client"
     /\ \/ TopCreateStreams \/ ConnectStream \/ SendHello \/ AwaitWelcome
        \/ StreamsCreated \/ OnServerMessage
  \/ TopRunning(r) \/ TopStopWorkers(r) \/ TopNothing(r) \/ Poll(r)
  \/ OnStreamTerminated(r) \/ OnTerminate(r) \/ OnShutdown(r)
  \/ \E i \in Ids : CollectOne(r, i)
  \/ AllCollected(r) \/ SendResults(r) \/ ReadResults(r)
=============================================================================
