------------------------------ MODULE Sessions ------------------------------
(***************************************************************************)
(* The life of a server over several tests: the loop of start_server with  *)
(* create_perf and handle_create_stream (src/server.rs), the user interface*)
(* that run_server is, and the programs that run start_client              *)
(* (src/client.rs). A test is reduced to what the server keeps of it: the  *)
(* phases of its controller, one data stream with its worker, and its      *)
(* channel of statistics. PerfTest has the inside of a test.               *)
(*                                                                         *)
(* A client is one run of the program, with its own cookie; its test, if   *)
(* the server makes one, carries its name. One that leaves before its Hello*)
(* is what any other program that connects to the port is to the server.   *)
(***************************************************************************)
EXTENDS Naturals, Sequences, FiniteSets

CONSTANTS
  Clients,       \* runs of the client program
  PortCap        \* INTERNAL_PORT_BUFFER: a test's messages, and its statistics

ASSUME SessionsAssumption == PortCap \in Nat \ {0} /\ "none" \notin Clients

Control(c) == <<c, "control">>
Data(c)    == <<c, "data">>
Conns      == Clients \X {"control", "data"}
NoConn     == <<>>
NoTest     == "none"

Phases == {"Start", "CreateStreams", "Running", "ExchangeResults", "Terminate"}

\* ControllerMessage.
CreateStream(k)  == [kind |-> "CreateStream", stream |-> k]
StreamTerminated == [kind |-> "StreamTerminated", stream |-> NoConn]
TerminateMsg     == [kind |-> "Terminate", stream |-> NoConn]

VARIABLES
  client,     \* where a client program is
  params,     \* the clients that have sent their parameters
  asked,      \* the clients that were told SetState(CreateStreams)
  hello,      \* what the connecting side did on each connection
  answer,     \* what the server answered on each connection
  dropped,    \* welcomed control connections the server gave up
  lpc,        \* where the listener task is
  lconn,      \* the connection it is serving
  backlog,    \* connections not accepted yet
  inflight,   \* the test of in_flight_test_state and controller_channel
  tpc,        \* where the controller of a test is
  phase,      \* its Perf::state
  goal,       \* the argument of its set_state
  inbox,      \* its ControllerMessage channel
  joined,     \* the connections registered as its streams
  worker,     \* its stream worker's task
  unread,     \* reports in its channel of statistics
  port,       \* the PerfStats channel: tests announced to the user interface
  ui,         \* the test whose statistics are being printed
  shown,      \* the tests whose statistics were printed to the end
  shutdown,   \* Ctrl-C in the server
  exited      \* main of the server has returned

clientVars   == <<client, params, hello>>
listenerVars == <<answer, dropped, lpc, lconn, backlog, inflight>>
testVars     == <<asked, tpc, phase, goal, inbox, joined, worker, unread>>
uiVars       == <<port, ui, shown>>
vars         == <<clientVars, listenerVars, testVars, uiVars, shutdown, exited>>

TypeOK ==
  /\ client \in [Clients -> {"idle", "hello", "welcome", "test", "shello", "swelcome",
                            "load", "left"}]
  /\ params \subseteq Clients /\ asked \subseteq Clients /\ dropped \subseteq Clients
  /\ hello \in [Conns -> {"idle", "open", "sent", "closed"}]
  /\ answer \in [Conns -> {"none", "welcome", "busy", "closed"}]
  /\ lpc \in {"accept", "hello", "cookie", "params", "announce", "stopped"}
  /\ lconn \in Conns \cup {NoConn}
  /\ backlog \in Seq(Conns)
  /\ inflight \in Clients \cup {NoTest}
  /\ tpc \in [Clients -> {"none", "start", "assign", "select", "collect", "report", "over"}]
  /\ phase \in [Clients -> Phases] /\ goal \in [Clients -> Phases]
  /\ inbox \in [Clients -> Seq([kind : {"CreateStream", "StreamTerminated", "Terminate"},
                               stream : Conns \cup {NoConn}])]
  /\ joined \in [Clients -> SUBSET Conns]
  /\ worker \in [Clients -> {"none", "waiting", "running", "flush", "ok", "err"}]
  /\ unread \in [Clients -> 0 .. PortCap]
  /\ port \in Seq(Clients) /\ Len(port) <= 1
  /\ ui \in Clients \cup {NoTest}
  /\ shown \subseteq Clients
  /\ shutdown \in BOOLEAN /\ exited \in BOOLEAN

Init ==
  /\ client = [c \in Clients |-> "idle"]
  /\ params = {} /\ asked = {} /\ dropped = {}
  /\ hello = [k \in Conns |-> "idle"]
  /\ answer = [k \in Conns |-> "none"]
  /\ lpc = "accept" /\ lconn = NoConn /\ backlog = <<>> /\ inflight = NoTest
  /\ tpc = [c \in Clients |-> "none"]
  /\ phase = [c \in Clients |-> "Start"]
  /\ goal = [c \in Clients |-> "Start"]
  /\ inbox = [c \in Clients |-> <<>>]
  /\ joined = [c \in Clients |-> {}]
  /\ worker = [c \in Clients |-> "none"]
  /\ unread = [c \in Clients |-> 0]
  /\ port = <<>> /\ ui = NoTest
  /\ shown = {} /\ shutdown = FALSE /\ exited = FALSE

Left(c)  == client[c] = "left"
Alive(c) == tpc[c] \notin {"none", "over"}

\* Mutant: a test that collects its results is taken for a test that is over.
InFlightEarly == inflight # NoTest /\ tpc[inflight] \in {"start", "assign", "select"}

\* upgrade() of the weak reference: its test's controller still runs.
InFlight == inflight # NoTest /\ Alive(inflight)

\* The listener holds the lock on the state of a test while it reads a Hello.
LockFree(c) == ~(lpc = "hello" /\ inflight = c)

\* Mutant: the workers' senders are not waited for.
ControllerSends(c) == Alive(c)

\* A channel of statistics is open while the controller or a worker has a sender.
Working(c) == worker[c] \in {"waiting", "running", "flush"}
Senders(c) == Alive(c) \/ Working(c)

\* Mutants: send overruns the channel; try_send counts on a slot too few.
SendOver(c)   == unread' = [unread EXCEPT ![c] = @ + 1]
PostLess(c, m) ==
  inbox' = IF Alive(c) /\ Len(inbox[c]) + 1 < PortCap
           THEN [inbox EXCEPT ![c] = Append(@, m)] ELSE inbox

\* send waits for room; try_send drops the message when there is none.
Send(c)    == unread[c] < PortCap /\ unread' = [unread EXCEPT ![c] = @ + 1]
Post(c, m) ==
  inbox' = IF Alive(c) /\ Len(inbox[c]) < PortCap
           THEN [inbox EXCEPT ![c] = Append(@, m)] ELSE inbox

-----------------------------------------------------------------------------
(* start_client, and the client's controller up to its data stream.        *)

Become(c, place) == client' = [client EXCEPT ![c] = place]

\* A connection waits in the queue of the listening socket, or is refused.
Connect(c, k, place) ==
  /\ IF lpc = "stopped"
     THEN Become(c, "left") /\ UNCHANGED <<hello, backlog>>
     ELSE /\ Become(c, place)
          /\ hello' = [hello EXCEPT ![k] = "open"]
          /\ backlog' = Append(backlog, k)
  /\ UNCHANGED <<params, answer, dropped, lpc, lconn, inflight,
                 testVars, uiVars, shutdown, exited>>

SayHello(c, k, place) ==
  /\ Become(c, place)
  /\ hello' = [hello EXCEPT ![k] = "sent"]
  /\ UNCHANGED <<params, listenerVars, testVars, uiVars, shutdown, exited>>

\* Anything but Welcome is an error: start_client panics, a controller aborts.
\* After the Welcome to the control connection go the parameters.
HearAnswer(c, k, place) ==
  /\ answer[k] # "none"
  /\ Become(c, IF answer[k] = "welcome" THEN place ELSE "left")
  /\ params' = IF answer[k] = "welcome" THEN params \cup {c} ELSE params
  /\ UNCHANGED <<hello, listenerVars, testVars, uiVars, shutdown, exited>>

StartClient(c) == client[c] = "idle" /\ Connect(c, Control(c), "hello")

\* The control connection ends with the server's controller, or without one.
\* What was sent before is read first: the request for streams.
ClientEnds(c) ==
  /\ tpc[c] = "over" \/ c \in dropped
  /\ client[c] = "load" \/ (client[c] = "test" /\ c \notin asked)
  /\ Become(c, "left")
  /\ UNCHANGED <<params, hello, listenerVars, testVars, uiVars, shutdown, exited>>

ClientStep(c) ==
  \/ client[c] = "hello" /\ SayHello(c, Control(c), "welcome")
  \/ client[c] = "welcome" /\ HearAnswer(c, Control(c), "test")
  \/ client[c] = "test" /\ c \in asked /\ Connect(c, Data(c), "shello")
  \/ client[c] = "shello" /\ SayHello(c, Data(c), "swelcome")
  \/ client[c] = "swelcome" /\ HearAnswer(c, Data(c), "load")
  \/ ClientEnds(c)

\* Ctrl-C in a client, or its death: its connections close as they are.
Die(c) ==
  /\ client[c] \notin {"idle", "left"}
  /\ Become(c, "left")
  /\ hello' = [k \in Conns |-> IF k \in {Control(c), Data(c)} /\ hello[k] = "open"
                               THEN "closed" ELSE hello[k]]
  /\ UNCHANGED <<params, listenerVars, testVars, uiVars, shutdown, exited>>

-----------------------------------------------------------------------------
(* A test in the server: run_controller and the task of its stream worker. *)

outside == <<clientVars, listenerVars, uiVars, shutdown, exited>>

Goto(c, place) == tpc' = [tpc EXCEPT ![c] = place]

\* set_state writes to the client first; to one that has left that may fail.
SetState(c, s) ==
  \/ /\ goal' = [goal EXCEPT ![c] = s] /\ Goto(c, "assign")
     /\ asked' = IF s = "CreateStreams" THEN asked \cup {c} ELSE asked
  \/ Left(c) /\ Goto(c, "over") /\ UNCHANGED <<goal, asked>>

Begin(c) ==
  /\ tpc[c] = "start" /\ SetState(c, "CreateStreams")
  /\ UNCHANGED <<phase, inbox, joined, worker, unread, outside>>

\* The head of the loop acts on the phase: StartLoad for Running, Terminate and the
\* results of the workers at the end.
HeadOfLoop(c, s) ==
  /\ Goto(c, IF s \in {"ExchangeResults", "Terminate"} THEN "collect" ELSE "select")
  /\ worker' = [worker EXCEPT ![c] = IF s = "Running" THEN "running" ELSE @]

\* The store waits for the lock, and the loop begins again.
Store(c) ==
  /\ tpc[c] = "assign" /\ LockFree(c)
  /\ phase' = [phase EXCEPT ![c] = goal[c]]
  /\ HeadOfLoop(c, goal[c])
  /\ UNCHANGED <<asked, goal, inbox, joined, unread, outside>>

Receive(c, kind) ==
  /\ tpc[c] = "select" /\ inbox[c] # <<>> /\ Head(inbox[c]).kind = kind
  /\ inbox' = [inbox EXCEPT ![c] = Tail(@)]

AcceptStream(c) ==
  /\ Receive(c, "CreateStream")
  /\ joined' = [joined EXCEPT ![c] = @ \cup {Head(inbox[c]).stream}]
  /\ worker' = [worker EXCEPT ![c] = "waiting"]
  /\ SetState(c, "Running")
  /\ UNCHANGED <<phase, unread, outside>>

OnStreamTerminated(c) ==
  /\ Receive(c, "StreamTerminated")
  /\ SetState(c, "ExchangeResults")
  /\ UNCHANGED <<phase, joined, worker, unread, outside>>

OnTerminate(c) ==
  /\ Receive(c, "Terminate")
  /\ SetState(c, "Terminate")
  /\ UNCHANGED <<phase, joined, worker, unread, outside>>

\* Mutant: the controller does not listen for Ctrl-C.
OnShutdownDeaf(c) == FALSE

\* Of Ctrl-C every test hears, the one made after it too: the broadcast is closed.
OnShutdown(c) ==
  /\ tpc[c] = "select" /\ shutdown
  /\ SetState(c, "Terminate")
  /\ UNCHANGED <<phase, inbox, joined, worker, unread, outside>>

\* A worker blocked in a send of statistics is waited for five seconds.
Blocked(c) == worker[c] \in {"running", "flush"} /\ unread[c] = PortCap

\* The exchange needs the client; a test that was ended has only its own results.
Collected(c) ==
  /\ tpc[c] = "collect" /\ (~Working(c) \/ Blocked(c))
  /\ \/ phase[c] = "ExchangeResults" /\ client[c] = "load" /\ Goto(c, "report")
     \/ phase[c] = "ExchangeResults" /\ Left(c) /\ Goto(c, "over")
     \/ /\ phase[c] = "Terminate"
        /\ Goto(c, IF worker[c] = "ok" THEN "report" ELSE "over")
  /\ UNCHANGED <<asked, phase, goal, inbox, joined, worker, unread, outside>>

Report(c) ==
  /\ tpc[c] = "report"
  /\ Send(c) /\ Goto(c, "over")
  /\ UNCHANGED <<asked, phase, goal, inbox, joined, worker, outside>>

ControllerStep(c) ==
  \/ Begin(c) \/ Store(c) \/ AcceptStream(c) \/ OnStreamTerminated(c)
  \/ OnTerminate(c) \/ OnShutdown(c) \/ Collected(c) \/ Report(c)

\* Mutant: the end of the broadcast goes unnoticed.
ToldInTime(c) == tpc[c] \in {"collect", "report"}

\* Terminate was broadcast, or the broadcast is closed.
Told(c) == tpc[c] \in {"collect", "report", "over"}

WorkerReport(c) ==
  /\ worker[c] = "running" /\ Send(c)
  /\ UNCHANGED <<asked, tpc, phase, goal, inbox, joined, worker, outside>>

Work(c, place) == worker' = [worker EXCEPT ![c] = place]

\* Time is up, Terminate was read, or a reader saw the end of its stream.
LeaveLoop(c) ==
  /\ worker[c] = "running" /\ Work(c, "flush")
  /\ UNCHANGED <<asked, tpc, phase, goal, inbox, joined, unread, outside>>

Flush(c) ==
  /\ worker[c] = "flush" /\ Send(c) /\ Work(c, "ok")
  /\ Post(c, StreamTerminated)
  /\ UNCHANGED <<asked, tpc, phase, goal, joined, outside>>

\* No StartLoad came, or reading, writing or the wait for signals failed, for
\* whatever reason and with its client there or not. It tells nobody: the task
\* around it returns through `?' before it sends StreamTerminated.
WorkerFails(c) ==
  /\ worker[c] = "running" \/ (worker[c] = "waiting" /\ Told(c))
  /\ Work(c, "err")
  /\ UNCHANGED <<asked, tpc, phase, goal, inbox, joined, unread, outside>>

WorkerStops(c) == LeaveLoop(c) \/ Flush(c) \/ WorkerFails(c)

-----------------------------------------------------------------------------
(* start_server: one connection is served at a time, to its end.           *)

\* Mutant: a refused connection is neither answered nor closed.
AnswerUnlessBusy(k, a) == answer' = [answer EXCEPT ![k] = IF a = "busy" THEN @ ELSE a]

Answer(k, a) == answer' = [answer EXCEPT ![k] = a]
BackToAccept == lpc' = "accept" /\ lconn' = NoConn

Gone(k) == \E c \in Clients : Left(c) /\ k \in {Control(c), Data(c)}

\* Mutant: the cookie is not compared.
AnyCookie(k, c) == TRUE

CookieMatches(k, c) == k \in {Control(c), Data(c)}

AcceptInFlight ==
  /\ lpc = "accept" /\ backlog # <<>> /\ InFlight
  /\ backlog' = Tail(backlog)
  /\ IF phase[inflight] = "CreateStreams"
     THEN lpc' = "hello" /\ lconn' = Head(backlog) /\ UNCHANGED answer
     ELSE Answer(Head(backlog), "busy") /\ UNCHANGED <<lpc, lconn>>
  /\ UNCHANGED <<clientVars, dropped, inflight, testVars, uiVars, shutdown, exited>>

\* handle_create_stream, under the lock.
CheckHello ==
  /\ lpc = "hello" /\ BackToAccept
  /\ \/ /\ hello[lconn] = "sent" /\ CookieMatches(lconn, inflight)
        /\ Answer(lconn, "welcome") /\ Post(inflight, CreateStream(lconn))
     \/ /\ hello[lconn] = "sent" /\ ~CookieMatches(lconn, inflight)
        /\ Answer(lconn, "busy") /\ UNCHANGED inbox
     \/ /\ \/ hello[lconn] = "closed"
           \/ hello[lconn] = "sent" /\ CookieMatches(lconn, inflight) /\ Gone(lconn)
        /\ Answer(lconn, "closed") /\ Post(inflight, TerminateMsg)
  /\ UNCHANGED <<clientVars, dropped, backlog, inflight, asked, tpc, phase, goal, joined,
                 worker, unread, uiVars, shutdown, exited>>

\* No test in flight: whatever connects is taken for a control connection, a
\* data stream of the test that has just ended too.
AcceptFresh ==
  /\ lpc = "accept" /\ backlog # <<>> /\ ~InFlight
  /\ backlog' = Tail(backlog) /\ lconn' = Head(backlog) /\ lpc' = "cookie"
  /\ UNCHANGED <<clientVars, answer, dropped, inflight, testVars, uiVars, shutdown, exited>>

FreshHello ==
  /\ lpc = "cookie"
  /\ \/ hello[lconn] = "sent" /\ Answer(lconn, "welcome") /\ lpc' = "params" /\ UNCHANGED lconn
     \/ /\ hello[lconn] = "closed" \/ (hello[lconn] = "sent" /\ Gone(lconn))
        /\ Answer(lconn, "closed") /\ BackToAccept
  /\ UNCHANGED <<clientVars, dropped, backlog, inflight, testVars, uiVars, shutdown, exited>>

\* The parameters, or none: PROTOCOL_TIMEOUT, or the end of the connection.
FreshParameters ==
  /\ lpc = "params"
  /\ \/ /\ \E c \in params : lconn = Control(c)
        /\ lpc' = "announce" /\ UNCHANGED <<lconn, dropped>>
     \/ /\ BackToAccept
        /\ dropped' = dropped \cup {c \in Clients : lconn = Control(c)}
  /\ UNCHANGED <<clientVars, answer, backlog, inflight, testVars, uiVars, shutdown, exited>>

\* The new test goes to the user interface, whose channel holds one, and starts.
Announce(c) ==
  /\ lpc = "announce" /\ lconn = Control(c) /\ port = <<>>
  /\ port' = Append(port, c) /\ inflight' = c /\ Goto(c, "start")
  /\ BackToAccept
  /\ UNCHANGED <<clientVars, answer, dropped, backlog, asked, phase, goal, inbox, joined,
                 worker, unread, ui, shown, shutdown, exited>>

\* The listening socket closes, with the connections still in its queue.
StopListening ==
  /\ lpc = "accept"
  /\ lpc' = "stopped" /\ backlog' = <<>>
  /\ answer' = [k \in Conns |-> IF \E i \in DOMAIN backlog : backlog[i] = k
                                THEN "closed" ELSE answer[k]]
  /\ UNCHANGED <<clientVars, dropped, lconn, inflight, testVars, uiVars, shutdown, exited>>

ListenerShutdown == shutdown /\ StopListening

\* accept returns an error.
AcceptFails == StopListening

ListenerStep ==
  \/ AcceptInFlight \/ CheckHello \/ AcceptFresh \/ FreshHello \/ FreshParameters
  \/ \E c \in Clients : Announce(c)
  \/ ListenerShutdown

-----------------------------------------------------------------------------
(* run_server prints one test after the other, and main returns after it.  *)

TakeTest ==
  /\ ui = NoTest /\ port # <<>>
  /\ ui' = Head(port) /\ port' = Tail(port)
  /\ UNCHANGED <<clientVars, listenerVars, testVars, shown, shutdown, exited>>

PrintStats ==
  /\ ui # NoTest /\ unread[ui] > 0
  /\ unread' = [unread EXCEPT ![ui] = @ - 1]
  /\ UNCHANGED <<clientVars, listenerVars, asked, tpc, phase, goal, inbox, joined, worker,
                 uiVars, shutdown, exited>>

EndOfStats ==
  /\ ui # NoTest /\ unread[ui] = 0 /\ ~Senders(ui)
  /\ ui' = NoTest /\ shown' = shown \cup {ui}
  /\ UNCHANGED <<clientVars, listenerVars, testVars, port, shutdown, exited>>

Exit ==
  /\ lpc = "stopped" /\ port = <<>> /\ ui = NoTest /\ ~exited
  /\ exited' = TRUE
  /\ UNCHANGED <<clientVars, listenerVars, testVars, uiVars, shutdown>>

UserInterface == TakeTest \/ PrintStats \/ EndOfStats \/ Exit

CtrlC ==
  /\ ~shutdown /\ shutdown' = TRUE
  /\ UNCHANGED <<clientVars, listenerVars, testVars, uiVars, exited>>

Next ==
  \/ \E c \in Clients : \/ StartClient(c) \/ ClientStep(c) \/ Die(c)
                        \/ ControllerStep(c) \/ WorkerReport(c) \/ WorkerStops(c)
  \/ ListenerStep \/ AcceptFails \/ UserInterface \/ CtrlC

Spec == Init /\ [][Next]_vars

\* Every task that can go on does, time runs out, and a client that connected
\* says Hello or leaves: nothing bounds the server's wait for one.
Fairness ==
  /\ \A c \in Clients : /\ WF_vars(ClientStep(c)) /\ WF_vars(ControllerStep(c))
                        /\ WF_vars(WorkerStops(c))
  /\ WF_vars(ListenerStep) /\ WF_vars(UserInterface)

FairSpec == Spec /\ Fairness

-----------------------------------------------------------------------------
(* What the server promises over its tests.                                *)

\* At most one test is in flight: while a controller runs, the weak reference
\* the listener holds is to its state (start_server).
OneTest == \A c \in Clients : Alive(c) => inflight = c

\* A test takes only streams that the client who asked for it opened, whatever
\* other tests came and went before (handle_create_stream).
StreamsOfTheirTest ==
  \A c \in Clients : /\ joined[c] \subseteq {Data(c)}
                    /\ \A i \in DOMAIN inbox[c] :
                         inbox[c][i].kind = "CreateStream" => inbox[c][i].stream = Data(c)

\* main returns, and cancels all tasks, only when no test is left half-way and
\* nothing it measured unprinted (run_server).
CleanExit ==
  exited => \A c \in Clients : ~Alive(c) /\ ~Working(c) /\ unread[c] = 0

\* Progress of a client, of its test and of its statistics is never undone and
\* there are finitely many clients, so `always again everyone' says of each
\* wait that it ends.

\* A client that said Hello is answered: with Welcome, as a second test, or by
\* the end of its connection.
EveryoneAnswered == []<>(\A c \in Clients : client[c] \notin {"welcome", "swelcome"})

\* A test stays in flight for ever, and keeps the server from the next one, only
\* in the select of run_controller, for one of the two ends that nothing tells
\* the controller of: in CreateStreams that of its client, in Running that of a
\* worker that failed (BadWorkerError). Whatever else it waits for comes.
Untold(c) ==
  /\ tpc[c] = "select"
  /\ \/ phase[c] = "CreateStreams" /\ Left(c)
     \/ phase[c] = "Running" /\ worker[c] = "err"

TestsEnd == []<>(\A c \in Clients : Alive(c) => Untold(c))

\* Whatever ended a test, its statistics are printed to the end.
AllShown == []<>(\A c \in Clients : tpc[c] = "over" => c \in shown)

\* Ctrl-C ends the server, whatever it was doing.
ServerExits == []<>(shutdown => exited)

\* The server keeps the promise of ServerLife: the test being printed and the
\* one announced behind it are its queue.
Life == INSTANCE ServerLife WITH
  Tests    <- Clients,
  running  <- {c \in Clients : Alive(c)},
  writing  <- {c \in Clients : Senders(c)},
  queue    <- (IF ui = NoTest THEN <<>> ELSE <<ui>>) \o port,
  pending  <- unread,
  printed  <- shown,
  returned <- exited

ServesInTurn == Life!Spec
=============================================================================
