----------------------------- MODULE DataStream -----------------------------
(***************************************************************************)
(* One data stream under load: run_worker (src/stream_workers.rs) at both  *)
(* ends of a TCP connection, with what it counts, the statistics it sends  *)
(* to the user interface of its process and the task that drains the       *)
(* connection after a receiving worker. The controllers appear as the      *)
(* signals they broadcast. One action is the code between two awaits.      *)
(***************************************************************************)
EXTENDS Integers, Sequences

CONSTANTS
  Block,        \* Parameters::block_size
  MaxLength,    \* Parameters::max_length (None: a length no test reaches)
  PipeCap,      \* bytes the two sockets' buffers and the network hold
  PortCap,      \* INTERNAL_PORT_BUFFER, the capacity of the statistics channel
  MaxReports    \* bound: intervals that pass in one test

ASSUME StreamAssumption ==
  /\ Block \in Nat /\ MaxLength \in Nat /\ PipeCap \in Nat
  /\ PortCap \in Nat \ {0} /\ MaxReports \in Nat

Ends == {"sender", "receiver"}

VARIABLES
  at,        \* where run_worker is, per end
  signal,    \* what the worker's broadcast receiver returns next
  timeUp,    \* the duration has passed since StartLoad
  total,     \* total_bytes_transferred
  bytes,     \* bytes_transferred, since the last report
  index,     \* index of the next report
  port,      \* the statistics channel of this end's process
  shown,     \* what the user interface has taken out of it
  result,    \* bytes_transferred of the summary, Open before
  pipe,      \* bytes written and not read yet
  drained,   \* bytes the drain task threw away
  broken     \* the connection was reset

vars == <<at, signal, timeUp, total, bytes, index, port, shown, result,
          pipe, drained, broken>>

Open == -1

Signals == {"none", "StartLoad", "Terminate", "Lagged", "Closed"}

Places  == {"start", "head", "io", "report", "flush", "ok", "err"}

\* Interval statistics: index and bytes_transferred.
Stats == [index : Nat, bytes : Nat]

TypeOK ==
  /\ at \in [Ends -> Places]
  /\ signal \in [Ends -> Signals]
  /\ timeUp \in [Ends -> BOOLEAN]
  /\ total \in [Ends -> Nat] /\ bytes \in [Ends -> Nat] /\ index \in [Ends -> Nat]
  /\ port \in [Ends -> Seq(Stats)]
  /\ \A e \in Ends : Len(port[e]) <= PortCap
  /\ shown \in [Ends -> [count : Nat, bytes : Nat]]
  /\ result \in [Ends -> Nat \cup {Open}]
  /\ pipe \in 0 .. PipeCap /\ drained \in Nat
  /\ broken \in BOOLEAN

Init ==
  /\ at = [e \in Ends |-> "start"]
  /\ signal = [e \in Ends |-> "none"]
  /\ timeUp = [e \in Ends |-> FALSE]
  /\ total = [e \in Ends |-> 0]
  /\ bytes = [e \in Ends |-> 0]
  /\ index = [e \in Ends |-> 0]
  /\ port = [e \in Ends |-> <<>>]
  /\ shown = [e \in Ends |-> [count |-> 0, bytes |-> 0]]
  /\ result = [e \in Ends |-> Open]
  /\ pipe = 0 /\ drained = 0 /\ broken = FALSE

counters   == <<total, bytes, index>>
statistics == <<port, shown, result>>
connection == <<pipe, drained, broken>>

Finished(e) == at[e] \in {"ok", "err"}

-----------------------------------------------------------------------------
(* The environment: the controllers, the clock, the network.               *)

\* Broadcasts of a controller: StartLoad once, then Terminate; over an unread
\* StartLoad that is a lag. Closed: the controller returned without a Terminate.
Broadcast(e) ==
  /\ \/ signal[e] = "none" /\ at[e] = "start" /\ signal' = [signal EXCEPT ![e] = "StartLoad"]
     \/ signal[e] = "none" /\ signal' = [signal EXCEPT ![e] = "Terminate"]
     \/ signal[e] = "none" /\ signal' = [signal EXCEPT ![e] = "Closed"]
     \/ signal[e] = "StartLoad" /\ signal' = [signal EXCEPT ![e] = "Lagged"]
  /\ UNCHANGED <<at, timeUp, counters, statistics, connection>>

TimePasses(e) ==
  /\ at[e] # "start" /\ ~timeUp[e]
  /\ timeUp' = [timeUp EXCEPT ![e] = TRUE]
  /\ UNCHANGED <<at, signal, counters, statistics, connection>>

\* What was on its way is lost.
Reset ==
  /\ ~broken
  /\ broken' = TRUE /\ pipe' = 0
  /\ UNCHANGED <<at, signal, timeUp, counters, statistics, drained>>

-----------------------------------------------------------------------------
(* run_worker                                                              *)

Goto(e, l) == at' = [at EXCEPT ![e] = l]

AwaitStart(e) ==
  /\ at[e] = "start" /\ signal[e] # "none"
  /\ IF signal[e] = "StartLoad"
     THEN Goto(e, "head") /\ signal' = [signal EXCEPT ![e] = "none"]
     ELSE Goto(e, "err") /\ UNCHANGED signal
  /\ UNCHANGED <<timeUp, counters, statistics, connection>>

\* Mutant: max_length is not looked at.
NoLimit(e) == FALSE

BytesUp(e) == MaxLength < total[e]

\* The head of the loop: time, length, then one poll of the broadcast.
Look(e) ==
  /\ at[e] = "head"
  /\ Goto(e, CASE timeUp[e] \/ BytesUp(e)             -> "flush"
               [] OTHER ->
                  CASE signal[e] = "Terminate"            -> "flush"
                    [] signal[e] \in {"Lagged", "Closed"} -> "err"
                    [] OTHER                              -> "io")
  /\ UNCHANGED <<signal, timeUp, counters, statistics, connection>>

\* After a read or a write, or 100 ms without one: has the interval passed?
Tick(e) ==
  \/ Goto(e, "head")
  \/ index[e] < MaxReports /\ Goto(e, "report")

\* Mutant: the length of the buffer is counted, not what was transferred.
BlockCounted(n) == Block

Counted(n) == n

Count(e, n) ==
  /\ total' = [total EXCEPT ![e] = @ + Counted(n)]
  /\ bytes' = [bytes EXCEPT ![e] = @ + Counted(n)]
  /\ UNCHANGED index

Write(n) ==
  /\ at["sender"] = "io" /\ ~broken
  /\ n <= Block /\ pipe + n <= PipeCap
  /\ pipe' = pipe + n
  /\ Count("sender", n) /\ Tick("sender")
  /\ UNCHANGED <<signal, timeUp, statistics, drained, broken>>

Read(n) ==
  /\ at["receiver"] = "io" /\ ~broken
  /\ n <= Block /\ n <= pipe
  /\ pipe' = pipe - n
  /\ Count("receiver", n) /\ Tick("receiver")
  /\ UNCHANGED <<signal, timeUp, statistics, drained, broken>>

\* Ok(0): the end of the stream, or a buffer of no bytes; the loop is left.
Nothing(e) ==
  /\ at[e] = "io" /\ ~broken
  /\ Block = 0 \/ (e = "receiver" /\ pipe = 0 /\ Finished("sender"))
  /\ Goto(e, "flush")
  /\ UNCHANGED <<signal, timeUp, counters, statistics, connection>>

\* Mutant: a receiving worker closes its stream when it returns.
NotDrained == ~Finished("receiver")

\* The receiving end stays open after an Ok, for the drain task.
ReaderOpen == at["receiver"] # "err"

Fails(e) ==
  /\ at[e] = "io"
  /\ broken \/ (e = "sender" /\ ~ReaderOpen)
  /\ Goto(e, "err")
  /\ UNCHANGED <<signal, timeUp, counters, statistics, connection>>

\* Mutant: the read or write is awaited without a timeout.
NoTimeout(e) == FALSE

TimesOut(e) == at[e] = "io"

\* The timer of 100 ms; cancelling the read or write loses nothing.
Slow(e) ==
  /\ TimesOut(e) /\ Tick(e)
  /\ UNCHANGED <<signal, timeUp, counters, statistics, connection>>

\* Mutant: the statistics do not wait for room in the channel.
RoomIgnored(e) == TRUE

Room(e) == Len(port[e]) < PortCap

Send(e) ==
  /\ Room(e)
  /\ port' = [port EXCEPT ![e] = Append(@, [index |-> index[e], bytes |-> bytes[e]])]

\* Mutants: a report does not reset the count, or keeps its index.
BytesKept(e)  == bytes[e]
IndexKept(e)  == index[e]

BytesAfterReport(e) == 0
NextIndex(e)        == index[e] + 1

Report(e) ==
  /\ at[e] = "report" /\ Send(e)
  /\ bytes' = [bytes EXCEPT ![e] = BytesAfterReport(e)]
  /\ index' = [index EXCEPT ![e] = NextIndex(e)]
  /\ Goto(e, "head")
  /\ UNCHANGED <<signal, timeUp, total, shown, result, connection>>

\* send_current_stats and the summary; a sending worker drops its stream here.
Flush(e) ==
  /\ at[e] = "flush" /\ Send(e)
  /\ result' = [result EXCEPT ![e] = total[e]]
  /\ Goto(e, "ok")
  /\ UNCHANGED <<signal, timeUp, counters, shown, connection>>

WorkerStep(e) ==
  \/ AwaitStart(e) \/ Look(e) \/ Nothing(e) \/ Fails(e) \/ Slow(e)
  \/ Report(e) \/ Flush(e)
  \/ e = "sender"   /\ \E n \in 1 .. Block : Write(n)
  \/ e = "receiver" /\ \E n \in 1 .. Block : Read(n)

\* The task spawned at the end of a receiving worker.
Drain ==
  /\ at["receiver"] = "ok" /\ ~broken
  /\ \E n \in 1 .. Block :
       n <= pipe /\ pipe' = pipe - n /\ drained' = drained + n
  /\ UNCHANGED <<at, signal, timeUp, counters, statistics, broken>>

\* print_stats takes the next report.
Show(e) ==
  /\ port[e] # <<>>
  /\ port' = [port EXCEPT ![e] = Tail(@)]
  /\ shown' = [shown EXCEPT ![e] = [count |-> @.count + 1,
                                    bytes |-> @.bytes + Head(port[e]).bytes]]
  /\ UNCHANGED <<at, signal, timeUp, counters, result, connection>>

Next ==
  \/ \E e \in Ends : Broadcast(e) \/ TimePasses(e) \/ WorkerStep(e) \/ Show(e)
  \/ Drain \/ Reset

Spec == Init /\ [][Next]_vars

\* Timers fire, tasks are polled, and the user interface reads its channel.
FairSpec ==
  /\ Spec
  /\ \A e \in Ends : WF_vars(TimePasses(e)) /\ WF_vars(WorkerStep(e)) /\ WF_vars(Show(e))

-----------------------------------------------------------------------------
(* Properties.                                                             *)

\* What the sender has counted was read and counted by the receiver, thrown
\* away by its drain task, or is still on its way (run_worker at both ends).
NothingLost ==
  ~broken => total["sender"] = total["receiver"] + drained + pipe

\* A worker transfers at most one block more than max_length bytes.
LimitHeld == \A e \in Ends : total[e] <= MaxLength + Block

\* Every report reaches the user interface once, in order, numbered from 0.
ReportsInOrder ==
  \A e \in Ends :
    /\ \A k \in DOMAIN port[e] : port[e][k].index = shown[e].count + k - 1
    /\ ~Finished(e) => index[e] = shown[e].count + Len(port[e])

\* A receiver that ends first does not fail the sender, which may still be
\* sending (the drain task): a sender only fails when the connection broke, its
\* controller spoke or left, or the receiver itself failed.
SenderNotFailed ==
  at["sender"] = "err" =>
    broken \/ signal["sender"] # "none" \/ at["receiver"] = "err"

\* A worker that was started ends, even if the other end never sends a byte.
WorkersEnd == \A e \in Ends : at[e] = "head" ~> Finished(e)

\* What the reports of q add up to, behind reports of b bytes.
SumOf(b, q) ==
  LET sum[k \in 0 .. Len(q)] == IF k = 0 THEN b ELSE sum[k - 1] + q[k].bytes
  IN  sum[Len(q)]

\* The stream keeps the promise of Measurement: the reports of an end are the
\* ones shown and the ones still in its channel.
Promise == INSTANCE Measurement WITH
  counted  <- total,
  reported <- [e \in Ends |-> SumOf(shown[e].bytes, port[e])],
  summary  <- result

Measures == Promise!Spec
=============================================================================
