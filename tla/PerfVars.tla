------------------------------ MODULE PerfVars ------------------------------
(***************************************************************************)
(* The shared state of one throughput test: the two Controllers (one per   *)
(* role), their channels, their stream workers, and the part of the        *)
(* server's listener that serves connections while the test is in flight.  *)
(* Controller, WorkerTasks and Listener hold the actions on this state;    *)
(* PerfTest puts them together.                                            *)
(***************************************************************************)
EXTENDS StreamPlan, Integers, Sequences, FiniteSets

CONSTANTS
  Direction,     \* Parameters::direction
  Parallel,      \* Parameters::parallel
  ChanCap,       \* INTERNAL_PORT_BUFFER, the capacity of ControllerMessage channels
  Strangers,     \* connections other processes open to the server's port
  Faults         \* the faults of the environment this instance allows

\* Ctrl-C in a role's process, its death, a data connection reset under one of
\* its workers, a worker of it stuck in a send of statistics; a control message
\* that reaches the client in two parts, with its read dropped in between.
FaultKinds == ({"ctrlc", "crash", "reset", "stall"} \X Roles) \cup {<<"cut", "client">>}

ASSUME ConstantsAssumption ==
  /\ Direction \in Directions
  /\ Parallel \in 0 .. U16 - 1
  /\ ChanCap \in Nat \ {0}
  /\ Strangers \cap Int = {}
  /\ Faults \subseteq FaultKinds

Total    == TotalNeeded("client", Direction, Parallel)
Ids      == 0 .. Total - 1            \* stream_index values, and the client's data connections
Conns    == Ids \cup Strangers        \* connections that reach the listener
NoStream == -1

Peer(r)     == IF r = "client" THEN "server" ELSE "client"
Sends(r, i) == IsSending(r, Direction, Parallel, i)

States == {"Start", "CreateStreams", "Running", "ExchangeResults", "Terminate"}

\* Mutant: the results map is sent after it was emptied.
NoResultsMsg(ids) == [kind |-> "SendResults", ids |-> {}]

\* ControllerMessage, and what travels on the control socket.
CreateStream(c)     == [kind |-> "CreateStream", id |-> c]
StreamTerminated(i) == [kind |-> "StreamTerminated", id |-> i]
TerminateMsg        == [kind |-> "Terminate", id |-> NoStream]
SetStateMsg(s)      == [kind |-> "SetState", state |-> s]
ResultsMsg(ids)     == [kind |-> "SendResults", ids |-> ids]

InboxMsgs == [kind : {"CreateStream", "StreamTerminated"}, id : Ids] \cup {TerminateMsg}
CtlMsgs   == [kind : {"SetState"}, state : States]
               \cup [kind : {"SendResults"}, ids : SUBSET Ids]

VARIABLES
  pc,           \* where run_controller is, per role
  state,        \* Perf::state
  old,          \* old_state of run_controller
  target,       \* the server's set_state argument between the write and the store
  results,      \* stream_results: the streams whose totals this side collected
  peerResults,  \* the totals received from the other side
  shutdown,     \* the shutdown broadcast as this process's controller sees it
  inbox,        \* the ControllerMessage channel
  ctl,          \* control socket: messages on their way TO a role
  published,    \* WorkerMessages the controller broadcast
  workers,      \* keys of Controller::workers, the JoinHandles still held
  index,        \* stream_index
  task,         \* each stream worker's task
  seen,         \* each worker's position in `published'
  conn,         \* the connection a worker's stream is
  lpc,          \* where the listener task is
  lconn,        \* the connection the listener is serving
  backlog,      \* connections not accepted yet
  hello,        \* what the connecting side did on each connection
  reply,        \* what the server answered on each connection
  exited        \* the process is gone, and its sockets with it

ctrlVars == <<pc, state, old, target, results, peerResults, shutdown>>
chanVars == <<inbox, ctl, published>>
workVars == <<workers, index, task, seen, conn>>
lstVars  == <<lpc, lconn, backlog, hello, reply>>
vars     == <<ctrlVars, chanVars, workVars, lstVars, exited>>

PCs == {"top", "connect", "hello", "welcome", "poll", "select", "assign",
        "collect", "xsend", "xread", "done", "aborted"}

Signals    == {"StartLoad", "Terminate"}
TaskStates == {"none", "waiting", "running", "ok", "err"}

CtrlTypeOK ==
  /\ pc \in [Roles -> PCs]
  /\ state \in [Roles -> States]
  /\ old \in [Roles -> States]
  /\ target \in States
  /\ results \in [Roles -> SUBSET Ids]
  /\ peerResults \in [Roles -> SUBSET Ids]
  /\ shutdown \in [Roles -> {"none", "pending", "seen"}]

ChanTypeOK ==
  /\ inbox \in [Roles -> Seq(InboxMsgs)]
  /\ ctl \in [Roles -> Seq(CtlMsgs)]
  /\ published \in [Roles -> Seq(Signals)]

WorkTypeOK ==
  /\ workers \in [Roles -> SUBSET Ids]
  /\ index \in [Roles -> 0 .. Total]
  /\ task \in [Roles -> [Ids -> TaskStates]]
  /\ seen \in [Roles -> [Ids -> Nat]]
  /\ conn \in [Roles -> [Ids -> Ids \cup {NoStream}]]

ListenerTypeOK ==
  /\ lpc \in {"accept", "hello", "cookie", "params", "stopped"}
  /\ lconn \in Conns \cup {NoStream}
  /\ backlog \in Seq(Conns)
  /\ hello \in [Conns -> {"idle", "open", "sent", "closed"}]
  /\ reply \in [Conns -> {"none", "welcome", "busy", "closed"}]

TypeOK == /\ CtrlTypeOK /\ ChanTypeOK /\ WorkTypeOK /\ ListenerTypeOK
          /\ exited \in [Roles -> BOOLEAN]

\* Both Perf objects exist: Hello, Welcome and SendParameters were exchanged.
Init ==
  /\ pc = [r \in Roles |-> "top"]
  /\ state = [r \in Roles |-> "Start"]
  /\ old = [r \in Roles |-> "Start"]
  /\ target = "Start"
  /\ results = [r \in Roles |-> {}]
  /\ peerResults = [r \in Roles |-> {}]
  /\ shutdown = [r \in Roles |-> "none"]
  /\ inbox = [r \in Roles |-> <<>>]
  /\ ctl = [r \in Roles |-> <<>>]
  /\ published = [r \in Roles |-> <<>>]
  /\ workers = [r \in Roles |-> {}]
  /\ index = [r \in Roles |-> 0]
  /\ task = [r \in Roles |-> [i \in Ids |-> "none"]]
  /\ seen = [r \in Roles |-> [i \in Ids |-> 0]]
  /\ conn = [r \in Roles |-> [i \in Ids |-> NoStream]]
  /\ lpc = "accept"
  /\ lconn = NoStream
  /\ backlog = <<>>
  /\ hello = [c \in Conns |-> "idle"]
  /\ reply = [c \in Conns |-> "none"]
  /\ exited = [r \in Roles |-> FALSE]

-----------------------------------------------------------------------------
\* A controller owns its control socket, its broadcast publisher and the
\* receiving end of its inbox; all three are dropped when it returns.
Ended(r) == pc[r] \in {"done", "aborted"}
Alive(r) == ~Ended(r)

Live(r, i) == task[r][i] \in {"waiting", "running"}

\* Mutant: set_state stores without waiting for the lock.
LockIgnored == TRUE

\* The Mutex around Perf::state. Controllers hold it for an instant; the
\* listener holds it from the check of CreateStreams to the end of the handshake.
LockFree == lpc # "hello"

\* Mutant: the channel is one slot smaller than the protocol counts on.
HasRoomLess(r) == Alive(r) /\ Len(inbox[r]) + 1 < ChanCap

\* mpsc try_send: a full channel, or one whose receiver is gone, drops the message.
HasRoom(r) == Alive(r) /\ Len(inbox[r]) < ChanCap
TrySend(r, m) ==
  inbox' = IF HasRoom(r) THEN [inbox EXCEPT ![r] = Append(@, m)] ELSE inbox

\* broadcast channel of capacity 1: only the newest message is kept, so a
\* receiver two or more messages behind gets Lagged; Closed comes last.
Signal(r, i) ==
  LET behind == Len(published[r]) - seen[r][i]
  IN  CASE behind = 0 -> IF Alive(r) THEN "Pending" ELSE "Closed"
        [] behind = 1 -> published[r][seen[r][i] + 1]
        [] OTHER      -> "Lagged"

\* This side's end of a worker's data stream. A sending worker drops it when it
\* returns; a receiving one that returned Ok leaves it to a task that drains it.
EndOpen(r, i) ==
  /\ ~exited[r]
  /\ Live(r, i) \/ (task[r][i] = "ok" /\ ~Sends(r, i))

PeerEndOpen(r, i) ==
  IF r = "client"
  THEN \E j \in Ids : conn["server"][j] = i /\ EndOpen("server", j)
  ELSE LET c == conn["server"][i]
       IN  EndOpen("client", c) \/ (task["client"][c] = "none" /\ Alive("client"))
=============================================================================
