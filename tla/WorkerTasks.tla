----------------------------- MODULE WorkerTasks ----------------------------
(***************************************************************************)
(* The stream workers as the controllers see them: run_worker              *)
(* (src/stream_workers.rs) reduced to its signals and its outcome, inside  *)
(* the task that create_and_register_stream_worker spawns around it. What  *)
(* run_worker reads, writes and counts is in the module DataStream.        *)
(***************************************************************************)
EXTENDS PerfVars

\* The wrapper task: Ok tells the controller, an Err returns through `?' first.
Return(r, i, outcome) ==
  /\ task' = [task EXCEPT ![r][i] = outcome]
  /\ IF outcome = "ok" THEN TrySend(r, StreamTerminated(i)) ELSE UNCHANGED inbox

\* Waiting for the StartLoad signal: anything else is an error.
AwaitStart(r, i) ==
  /\ task[r][i] = "waiting" /\ Signal(r, i) # "Pending"
  /\ IF Signal(r, i) = "StartLoad"
     THEN /\ task' = [task EXCEPT ![r][i] = "running"]
          /\ seen' = [seen EXCEPT ![r][i] = @ + 1]
          /\ UNCHANGED inbox
     ELSE Return(r, i, "err") /\ UNCHANGED seen
  /\ UNCHANGED <<ctrlVars, ctl, published, workers, index, conn, lstVars, exited>>

\* The poll of the broadcast at the head of the loop.
CheckSignal(r, i) ==
  /\ task[r][i] = "running" /\ Signal(r, i) \in {"Terminate", "Closed", "Lagged"}
  /\ Return(r, i, IF Signal(r, i) = "Terminate" THEN "ok" ELSE "err")
  /\ UNCHANGED <<ctrlVars, ctl, published, workers, index, seen, conn, lstVars, exited>>

\* The duration has passed, or max_length bytes have.
TimeUp(r, i) ==
  /\ task[r][i] = "running"
  /\ Return(r, i, "ok")
  /\ UNCHANGED <<ctrlVars, ctl, published, workers, index, seen, conn, lstVars, exited>>

\* Mutant: the end of the stream is an error for a reader too.
EofIsError(r, i) == "err"

\* The other end is closed: a read returns 0 bytes and the worker leaves the
\* loop; a write fails. A reset connection fails both.
ClosedOutcome(r, i) == IF Sends(r, i) THEN "err" ELSE "ok"

StreamClosed(r, i) ==
  /\ task[r][i] = "running"
  /\ \/ ~PeerEndOpen(r, i) /\ Return(r, i, ClosedOutcome(r, i))
     \/ <<"reset", r>> \in Faults /\ Return(r, i, "err")
  /\ UNCHANGED <<ctrlVars, ctl, published, workers, index, seen, conn, lstVars, exited>>

WorkerStep(r, i) ==
  AwaitStart(r, i) \/ CheckSignal(r, i) \/ TimeUp(r, i) \/ StreamClosed(r, i)
=============================================================================
