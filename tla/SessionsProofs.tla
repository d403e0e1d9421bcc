--------------------------- MODULE SessionsProofs ---------------------------
(***************************************************************************)
(* A server's tests, for any number of clients and any channel capacity:   *)
(* one test at a time, no stream of another client's, and no exit before   *)
(* every test is over and printed.                                         *)
(***************************************************************************)
EXTENDS SessionsInv, TLAPS

LEMMA AppendType ==
  ASSUME NEW S, NEW q \in Seq(S), NEW e \in S
  PROVE  Append(q, e) \in Seq(S)
  OBVIOUS

LEMMA HeadTailType ==
  ASSUME NEW S, NEW q \in Seq(S), q # <<>>
  PROVE  Head(q) \in S /\ Head(q) = q[1] /\ Tail(q) \in Seq(S) /\ 1 \in DOMAIN q
  OBVIOUS

LEMMA TailIndex ==
  ASSUME NEW S, NEW q \in Seq(S), q # <<>>
  PROVE  \A k \in DOMAIN Tail(q) : k \in Nat /\ k + 1 \in DOMAIN q /\ Tail(q)[k] = q[k + 1]
  OBVIOUS

LEMMA AppendIndex ==
  ASSUME NEW S, NEW q \in Seq(S), NEW e
  PROVE  \A k \in DOMAIN Append(q, e) :
           \/ k \in DOMAIN q /\ Append(q, e)[k] = q[k]
           \/ k = Len(q) + 1 /\ Append(q, e)[k] = e
  OBVIOUS

LEMMA EmptyType == ASSUME NEW S PROVE <<>> \in Seq(S)
  OBVIOUS

\* Connections are told apart, and none of them is the absent one.
LEMMA ConnFacts ==
  /\ \A c \in Clients : Control(c) \in Conns /\ Data(c) \in Conns
  /\ \A c, d \in Clients : Control(c) = Control(d) => c = d
  /\ \A c, d \in Clients : Control(c) # Data(d)
  /\ \A c \in Clients : Control(c) # NoConn /\ Data(c) # NoConn
  BY DEF Control, Data, Conns, NoConn

LEMMA NoTestApart == NoTest \notin Clients
  BY SessionsAssumption DEF NoTest

Messages == [kind : {"CreateStream", "StreamTerminated", "Terminate"},
             stream : Conns \cup {NoConn}]

LEMMA MessageTypes ==
  /\ \A k \in Conns : CreateStream(k) \in Messages
  /\ StreamTerminated \in Messages /\ TerminateMsg \in Messages
  BY DEF Messages, CreateStream, StreamTerminated, TerminateMsg

ClientPlaces == {"idle", "hello", "welcome", "test", "shello", "swelcome", "load", "left"}

TestPlaces == {"none", "start", "assign", "select", "collect", "report", "over"}

-----------------------------------------------------------------------------
(* Frames.                                                                 *)

LEMMA NextCases ==
  ASSUME Next
  PROVE  \/ \E c \in Clients : StartClient(c) \/ ClientStep(c) \/ Die(c)
         \/ \E c \in Clients : ControllerStep(c)
         \/ \E c \in Clients : WorkerReport(c) \/ WorkerStops(c)
         \/ AcceptInFlight \/ CheckHello \/ AcceptFresh \/ FreshHello \/ FreshParameters
         \/ \E c \in Clients : Announce(c)
         \/ StopListening
         \/ UserInterface \/ CtrlC
  BY DEF Next, ListenerStep, ListenerShutdown, AcceptFails

LEMMA ClientFrame ==
  ASSUME NEW c \in Clients, StartClient(c) \/ ClientStep(c) \/ Die(c)
  PROVE  UNCHANGED <<testVars, uiVars, answer, dropped, lpc, lconn, inflight, shutdown, exited>>
  BY DEF StartClient, ClientStep, Die, Connect, SayHello, HearAnswer, ClientEnds, listenerVars

LEMMA ControllerFrame ==
  ASSUME NEW c \in Clients, ControllerStep(c)
  PROVE  /\ UNCHANGED outside
         /\ Alive(c)
         /\ \E p \in TestPlaces \ {"none"} : tpc' = [tpc EXCEPT ![c] = p]
  BY DEF ControllerStep, Begin, Store, AcceptStream, OnStreamTerminated, OnTerminate,
         OnShutdown, Collected, Report, Receive, SetState, HeadOfLoop, Goto, Alive,
         TestPlaces

LEMMA WorkerFrame ==
  ASSUME NEW c \in Clients, WorkerReport(c) \/ WorkerStops(c)
  PROVE  UNCHANGED <<asked, tpc, phase, goal, joined, outside>>
  BY DEF WorkerReport, WorkerStops, LeaveLoop, Flush, WorkerFails

LEMMA InterfaceFrame ==
  ASSUME UserInterface \/ CtrlC
  PROVE  UNCHANGED <<clientVars, listenerVars, asked, tpc, phase, goal, inbox, joined, worker>>
  BY DEF UserInterface, TakeTest, PrintStats, EndOfStats, Exit, CtrlC, testVars

-----------------------------------------------------------------------------
(* Types.                                                                  *)

LEMMA BecomeTyped ==
  ASSUME TypeOK, NEW c \in Clients, NEW p, Become(c, p),
         p \in ClientPlaces
  PROVE  client' \in [Clients -> ClientPlaces]
  BY DEF Become, TypeOK, ClientPlaces

LEMMA ClientTypes ==
  ASSUME TypeOK, NEW c \in Clients, StartClient(c) \/ ClientStep(c) \/ Die(c)
  PROVE  TypeOK'
  <1>1. ASSUME NEW k \in Conns, NEW p \in {"hello", "shello"}, Connect(c, k, p)
        PROVE  TypeOK'
    <2>1. client' \in [Clients -> ClientPlaces]
      BY <1>1, BecomeTyped DEF Connect, ClientPlaces
    <2>2. backlog' \in Seq(Conns)
      <3>1. Append(backlog, k) \in Seq(Conns)
        BY AppendType DEF TypeOK
      <3> QED
        BY <1>1, <3>1 DEF Connect, TypeOK
    <2>3. hello' \in [Conns -> {"idle", "open", "sent", "closed"}]
      BY <1>1 DEF Connect, TypeOK
    <2> QED
      BY <1>1, <2>1, <2>2, <2>3 DEF Connect, TypeOK, ClientPlaces, testVars, uiVars
  <1>2. ASSUME NEW k \in Conns, NEW p \in {"welcome", "swelcome"}, SayHello(c, k, p)
        PROVE  TypeOK'
    <2>1. client' \in [Clients -> ClientPlaces]
      BY <1>2, BecomeTyped DEF SayHello, ClientPlaces
    <2> QED
      BY <1>2, <2>1 DEF SayHello, TypeOK, ClientPlaces, listenerVars, testVars, uiVars
  <1>3. ASSUME NEW k \in Conns, NEW p \in {"test", "load"}, HearAnswer(c, k, p)
        PROVE  TypeOK'
    <2>1. client' \in [Clients -> ClientPlaces]
      BY <1>3, BecomeTyped DEF HearAnswer, ClientPlaces
    <2> QED
      BY <1>3, <2>1 DEF HearAnswer, TypeOK, ClientPlaces, listenerVars, testVars, uiVars
  <1>4. ASSUME ClientEnds(c) PROVE TypeOK'
    <2>1. client' \in [Clients -> ClientPlaces]
      BY <1>4, BecomeTyped DEF ClientEnds, ClientPlaces
    <2> QED
      BY <1>4, <2>1 DEF ClientEnds, TypeOK, ClientPlaces, listenerVars, testVars, uiVars
  <1>5. ASSUME Die(c) PROVE TypeOK'
    <2>1. client' \in [Clients -> ClientPlaces]
      BY <1>5, BecomeTyped DEF Die, ClientPlaces
    <2>2. hello' \in [Conns -> {"idle", "open", "sent", "closed"}]
      BY <1>5 DEF Die, TypeOK
    <2> QED
      BY <1>5, <2>1, <2>2 DEF Die, TypeOK, ClientPlaces, listenerVars, testVars, uiVars
  <1> QED
    BY <1>1, <1>2, <1>3, <1>4, <1>5, ConnFacts DEF StartClient, ClientStep

LEMMA PostTyped ==
  ASSUME TypeOK, NEW c \in Clients, NEW m \in Messages, Post(c, m)
  PROVE  inbox' \in [Clients -> Seq(Messages)]
  <1>1. Append(inbox[c], m) \in Seq(Messages)
    BY AppendType DEF TypeOK, Messages
  <1> QED
    BY <1>1 DEF Post, TypeOK, Messages

LEMMA SendTyped ==
  ASSUME TypeOK, NEW c \in Clients, Send(c)
  PROVE  unread' \in [Clients -> 0 .. PortCap]
  BY SessionsAssumption DEF Send, TypeOK

LEMMA SetStateTyped ==
  ASSUME TypeOK, NEW c \in Clients, NEW s \in Phases, SetState(c, s)
  PROVE  /\ tpc' \in [Clients -> TestPlaces] /\ goal' \in [Clients -> Phases]
         /\ asked' \subseteq Clients
  <1>1. CASE goal' = [goal EXCEPT ![c] = s] /\ Goto(c, "assign") /\ asked' \subseteq asked \cup {c}
    BY <1>1 DEF Goto, TypeOK, TestPlaces
  <1>2. CASE Goto(c, "over") /\ UNCHANGED <<goal, asked>>
    BY <1>2 DEF Goto, TypeOK, TestPlaces
  <1> QED
    BY <1>1, <1>2 DEF SetState

LEMMA ReceiveTyped ==
  ASSUME TypeOK, NEW c \in Clients, NEW kind, Receive(c, kind)
  PROVE  /\ inbox' \in [Clients -> Seq(Messages)]
         /\ Head(inbox[c]) \in Messages
  <1>1. Head(inbox[c]) \in Messages /\ Tail(inbox[c]) \in Seq(Messages)
    BY HeadTailType DEF Receive, TypeOK, Messages
  <1> QED
    BY <1>1 DEF Receive, TypeOK, Messages

\* What an action leaves alone keeps its type; the rest is given piece by piece.
LEMMA TestTypes ==
  ASSUME TypeOK, UNCHANGED outside,
         asked' \subseteq Clients,
         tpc' \in [Clients -> TestPlaces],
         phase' \in [Clients -> Phases], goal' \in [Clients -> Phases],
         inbox' \in [Clients -> Seq(Messages)],
         joined' \in [Clients -> SUBSET Conns],
         worker' \in [Clients -> {"none", "waiting", "running", "flush", "ok", "err"}],
         unread' \in [Clients -> 0 .. PortCap]
  PROVE  TypeOK'
  BY DEF TypeOK, outside, clientVars, listenerVars, uiVars, TestPlaces, Messages

LEMMA TestTyped ==
  ASSUME TypeOK
  PROVE  /\ asked \subseteq Clients
         /\ tpc \in [Clients -> TestPlaces]
         /\ phase \in [Clients -> Phases] /\ goal \in [Clients -> Phases]
         /\ inbox \in [Clients -> Seq(Messages)]
         /\ joined \in [Clients -> SUBSET Conns]
         /\ worker \in [Clients -> {"none", "waiting", "running", "flush", "ok", "err"}]
         /\ unread \in [Clients -> 0 .. PortCap]
  <1>1. inbox \in [Clients -> Seq(Messages)]
    BY DEF TypeOK, Messages
  <1>2. tpc \in [Clients -> TestPlaces]
    BY DEF TypeOK, TestPlaces
  <1> QED
    BY <1>1, <1>2 DEF TypeOK

LEMMA ControllerTypes ==
  ASSUME TypeOK, StreamsOfTheirTest, NEW c \in Clients, ControllerStep(c)
  PROVE  TypeOK'
  <1> USE TestTyped
  <1>0. /\ UNCHANGED outside
        /\ tpc' \in [Clients -> TestPlaces]
    <2>1. PICK p \in TestPlaces : tpc' = [tpc EXCEPT ![c] = p]
      BY ControllerFrame
    <2> QED
      BY <2>1, ControllerFrame
  <1>p. /\ "CreateStreams" \in Phases /\ "Running" \in Phases
        /\ "ExchangeResults" \in Phases /\ "Terminate" \in Phases
    BY DEF Phases
  <1>1. CASE Begin(c)
    <2>1. goal' \in [Clients -> Phases] /\ asked' \subseteq Clients
      BY <1>1, <1>p, SetStateTyped DEF Begin
    <2> QED
      BY <1>0, <1>1, <2>1, TestTypes DEF Begin
  <1>2. CASE Store(c)
    <2>1. phase' \in [Clients -> Phases]
      BY <1>2 DEF Store
    <2>2. worker' \in [Clients -> {"none", "waiting", "running", "flush", "ok", "err"}]
      BY <1>2 DEF Store, HeadOfLoop
    <2> QED
      BY <1>0, <1>2, <2>1, <2>2, TestTypes DEF Store
  <1>3. CASE AcceptStream(c)
    <2>1. goal' \in [Clients -> Phases] /\ asked' \subseteq Clients
      BY <1>3, <1>p, SetStateTyped DEF AcceptStream
    <2>2. inbox' \in [Clients -> Seq(Messages)]
      BY <1>3, ReceiveTyped DEF AcceptStream
    <2>3. Head(inbox[c]).stream \in Conns
      <3>1. inbox[c] \in Seq(Messages) /\ inbox[c] # <<>>
        BY <1>3 DEF AcceptStream, Receive
      <3>2. 1 \in DOMAIN inbox[c] /\ Head(inbox[c]) = inbox[c][1]
        BY <3>1, HeadTailType
      <3> QED
        BY <1>3, <3>2, ConnFacts DEF AcceptStream, Receive, StreamsOfTheirTest
    <2>4. joined' \in [Clients -> SUBSET Conns]
      BY <1>3, <2>3 DEF AcceptStream
    <2>5. worker' \in [Clients -> {"none", "waiting", "running", "flush", "ok", "err"}]
      BY <1>3 DEF AcceptStream
    <2> QED
      BY <1>0, <1>3, <2>1, <2>2, <2>4, <2>5, TestTypes DEF AcceptStream
  <1>4. CASE OnStreamTerminated(c)
    <2>1. goal' \in [Clients -> Phases] /\ asked' \subseteq Clients
      BY <1>4, <1>p, SetStateTyped DEF OnStreamTerminated
    <2>2. inbox' \in [Clients -> Seq(Messages)]
      BY <1>4, ReceiveTyped DEF OnStreamTerminated
    <2> QED
      BY <1>0, <1>4, <2>1, <2>2, TestTypes DEF OnStreamTerminated
  <1>5. CASE OnTerminate(c)
    <2>1. goal' \in [Clients -> Phases] /\ asked' \subseteq Clients
      BY <1>5, <1>p, SetStateTyped DEF OnTerminate
    <2>2. inbox' \in [Clients -> Seq(Messages)]
      BY <1>5, ReceiveTyped DEF OnTerminate
    <2> QED
      BY <1>0, <1>5, <2>1, <2>2, TestTypes DEF OnTerminate
  <1>6. CASE OnShutdown(c)
    <2>1. goal' \in [Clients -> Phases] /\ asked' \subseteq Clients
      BY <1>6, <1>p, SetStateTyped DEF OnShutdown
    <2> QED
      BY <1>0, <1>6, <2>1, TestTypes DEF OnShutdown
  <1>7. CASE Collected(c)
    BY <1>0, <1>7, TestTypes DEF Collected
  <1>8. CASE Report(c)
    <2>1. unread' \in [Clients -> 0 .. PortCap]
      BY <1>8, SendTyped DEF Report
    <2> QED
      BY <1>0, <1>8, <2>1, TestTypes DEF Report
  <1> QED
    BY <1>1, <1>2, <1>3, <1>4, <1>5, <1>6, <1>7, <1>8 DEF ControllerStep

LEMMA WorkerTypes ==
  ASSUME TypeOK, NEW c \in Clients, WorkerReport(c) \/ WorkerStops(c)
  PROVE  TypeOK'
  <1> USE TestTyped
  <1>0. UNCHANGED <<asked, tpc, phase, goal, joined, outside>>
    BY WorkerFrame
  <1>1. CASE WorkerReport(c)
    <2>1. unread' \in [Clients -> 0 .. PortCap]
      BY <1>1, SendTyped DEF WorkerReport
    <2> QED
      BY <1>0, <1>1, <2>1, TestTypes DEF WorkerReport
  <1>2. CASE LeaveLoop(c)
    <2>1. worker' \in [Clients -> {"none", "waiting", "running", "flush", "ok", "err"}]
      BY <1>2 DEF LeaveLoop, Work
    <2> QED
      BY <1>0, <1>2, <2>1, TestTypes DEF LeaveLoop
  <1>3. CASE Flush(c)
    <2>1. unread' \in [Clients -> 0 .. PortCap]
      BY <1>3, SendTyped DEF Flush
    <2>2. worker' \in [Clients -> {"none", "waiting", "running", "flush", "ok", "err"}]
      BY <1>3 DEF Flush, Work
    <2>3. inbox' \in [Clients -> Seq(Messages)]
      BY <1>3, PostTyped, MessageTypes DEF Flush
    <2> QED
      BY <1>0, <2>1, <2>2, <2>3, TestTypes
  <1>4. CASE WorkerFails(c)
    <2>1. worker' \in [Clients -> {"none", "waiting", "running", "flush", "ok", "err"}]
      BY <1>4 DEF WorkerFails, Work
    <2> QED
      BY <1>0, <1>4, <2>1, TestTypes DEF WorkerFails
  <1> QED
    BY <1>1, <1>2, <1>3, <1>4 DEF WorkerStops

\* The conjuncts a step of the listener can disturb.
LEMMA ListenerTypes ==
  ASSUME TypeOK,
         UNCHANGED <<clientVars, asked, phase, goal, joined, worker, unread, ui, shown,
                     shutdown, exited>>,
         dropped' \subseteq Clients,
         answer' \in [Conns -> {"none", "welcome", "busy", "closed"}],
         lpc' \in {"accept", "hello", "cookie", "params", "announce", "stopped"},
         lconn' \in Conns \cup {NoConn},
         backlog' \in Seq(Conns),
         inflight' \in Clients \cup {NoTest},
         tpc' \in [Clients -> TestPlaces],
         inbox' \in [Clients -> Seq(Messages)],
         port' \in Seq(Clients), Len(port') <= 1
  PROVE  TypeOK'
  BY DEF TypeOK, clientVars, TestPlaces, Messages

LEMMA ListenerTyped ==
  ASSUME TypeOK
  PROVE  /\ dropped \subseteq Clients
         /\ answer \in [Conns -> {"none", "welcome", "busy", "closed"}]
         /\ lpc \in {"accept", "hello", "cookie", "params", "announce", "stopped"}
         /\ lconn \in Conns \cup {NoConn}
         /\ backlog \in Seq(Conns)
         /\ inflight \in Clients \cup {NoTest}
         /\ port \in Seq(Clients) /\ Len(port) <= 1
  BY DEF TypeOK

LEMMA AnswerTyped ==
  ASSUME TypeOK, NEW k, NEW a \in {"welcome", "busy", "closed"}, Answer(k, a)
  PROVE  answer' \in [Conns -> {"none", "welcome", "busy", "closed"}]
  BY DEF Answer, TypeOK

LEMMA TailOfBacklog ==
  ASSUME TypeOK, backlog # <<>>
  PROVE  Tail(backlog) \in Seq(Conns) /\ Head(backlog) \in Conns
  BY HeadTailType, ListenerTyped

LEMMA AcceptTypes ==
  ASSUME TypeOK, FlightInv,
         \/ AcceptInFlight \/ CheckHello \/ AcceptFresh \/ FreshHello \/ FreshParameters
         \/ (\E c \in Clients : Announce(c)) \/ StopListening
  PROVE  TypeOK'
  <1> USE TestTyped, ListenerTyped
  <1>1. CASE AcceptInFlight
    <2>1. backlog' \in Seq(Conns) /\ Head(backlog) \in Conns
      BY <1>1, TailOfBacklog DEF AcceptInFlight
    <2>2. answer' \in [Conns -> {"none", "welcome", "busy", "closed"}]
      BY <1>1, AnswerTyped DEF AcceptInFlight
    <2> QED
      BY <1>1, <2>1, <2>2, ListenerTypes DEF AcceptInFlight, testVars, uiVars
  <1>2. CASE CheckHello
    <2>1. answer' \in [Conns -> {"none", "welcome", "busy", "closed"}]
      BY <1>2, AnswerTyped DEF CheckHello
    <2>2. inflight \in Clients
      BY <1>2 DEF CheckHello, FlightInv
    <2>3. inbox' \in [Clients -> Seq(Messages)]
      <3>1. CASE Post(inflight, TerminateMsg)
        BY <2>2, <3>1, PostTyped, MessageTypes
      <3>2. CASE lconn \in Conns /\ Post(inflight, CreateStream(lconn))
        BY <2>2, <3>2, PostTyped, MessageTypes
      <3>3. CASE UNCHANGED inbox
        BY <3>3
      <3>4. ASSUME CookieMatches(lconn, inflight) PROVE lconn \in Conns
        BY <2>2, <3>4, ConnFacts DEF CookieMatches
      <3> QED
        BY <1>2, <3>1, <3>2, <3>3, <3>4 DEF CheckHello
    <2> QED
      BY <1>2, <2>1, <2>3, ListenerTypes DEF CheckHello, BackToAccept, uiVars
  <1>3. CASE AcceptFresh
    <2>1. backlog' \in Seq(Conns) /\ Head(backlog) \in Conns
      BY <1>3, TailOfBacklog DEF AcceptFresh
    <2> QED
      BY <1>3, <2>1, ListenerTypes DEF AcceptFresh, testVars, uiVars
  <1>4. CASE FreshHello
    <2>1. answer' \in [Conns -> {"none", "welcome", "busy", "closed"}]
      BY <1>4, AnswerTyped DEF FreshHello
    <2> QED
      BY <1>4, <2>1, ListenerTypes DEF FreshHello, BackToAccept, testVars, uiVars
  <1>5. CASE FreshParameters
    BY <1>5, ListenerTypes DEF FreshParameters, BackToAccept, testVars, uiVars
  <1>6. ASSUME NEW c \in Clients, Announce(c) PROVE TypeOK'
    <2>1. port' \in Seq(Clients) /\ Len(port') <= 1
      BY <1>6 DEF Announce
    <2>2. tpc' \in [Clients -> TestPlaces]
      BY <1>6 DEF Announce, Goto, TestPlaces
    <2> QED
      BY <1>6, <2>1, <2>2, ListenerTypes DEF Announce, BackToAccept
  <1>7. CASE StopListening
    <2>1. answer' \in [Conns -> {"none", "welcome", "busy", "closed"}]
      BY <1>7 DEF StopListening
    <2>2. backlog' \in Seq(Conns)
      BY <1>7, EmptyType DEF StopListening
    <2> QED
      BY <1>7, <2>1, <2>2, ListenerTypes DEF StopListening, testVars, uiVars
  <1> QED
    BY <1>1, <1>2, <1>3, <1>4, <1>5, <1>6, <1>7

LEMMA InterfaceTypes ==
  ASSUME TypeOK, UserInterface \/ CtrlC
  PROVE  TypeOK'
  <1>1. CASE TakeTest
    <2>1. Tail(port) \in Seq(Clients) /\ Head(port) \in Clients /\ Len(Tail(port)) <= 1
      <3>1. port \in Seq(Clients) /\ port # <<>> /\ Len(port) <= 1
        BY <1>1 DEF TakeTest, TypeOK
      <3>2. Tail(port) \in Seq(Clients) /\ Head(port) \in Clients
        BY <3>1, HeadTailType
      <3>3. Len(Tail(port)) <= 1
        BY <3>1
      <3> QED
        BY <3>2, <3>3
    <2> QED
      BY <1>1, <2>1 DEF TakeTest, TypeOK, clientVars, listenerVars, testVars
  <1>2. CASE PrintStats
    <2>1. ui \in Clients
      BY <1>2 DEF PrintStats, TypeOK
    <2>2. unread' \in [Clients -> 0 .. PortCap]
      BY <1>2, <2>1, SessionsAssumption DEF PrintStats, TypeOK
    <2> QED
      BY <1>2, <2>2 DEF PrintStats, TypeOK, clientVars, listenerVars, uiVars
  <1>3. CASE EndOfStats
    BY <1>3 DEF EndOfStats, TypeOK, clientVars, listenerVars, testVars
  <1>4. CASE Exit
    BY <1>4 DEF Exit, TypeOK, clientVars, listenerVars, testVars, uiVars
  <1>5. CASE CtrlC
    BY <1>5 DEF CtrlC, TypeOK, clientVars, listenerVars, testVars, uiVars
  <1> QED
    BY <1>1, <1>2, <1>3, <1>4, <1>5 DEF UserInterface

LEMMA TypeStep ==
  ASSUME TypeOK, FlightInv, StreamsOfTheirTest, Next
  PROVE  TypeOK'
  BY NextCases, ClientTypes, ControllerTypes, WorkerTypes, AcceptTypes, InterfaceTypes

-----------------------------------------------------------------------------
(* One test at a time.                                                     *)

\* A controller's step makes no test alive, and no test unborn.
LEMMA ControllersShrink ==
  ASSUME TypeOK, NEW c \in Clients, ControllerStep(c)
  PROVE  /\ \A d \in Clients : Alive(d)' => Alive(d)
         /\ \A d \in Clients : (tpc[d] = "none") <=> (tpc'[d] = "none")
         /\ \A d \in Clients : d # c => tpc'[d] = tpc[d]
  <1>1. PICK p \in TestPlaces \ {"none"} : tpc' = [tpc EXCEPT ![c] = p]
    BY ControllerFrame
  <1>2. Alive(c)
    BY ControllerFrame
  <1> QED
    BY <1>1, <1>2 DEF Alive, TypeOK

LEMMA FlightSame ==
  ASSUME FlightInv, UNCHANGED <<tpc, lpc, inflight>>
  PROVE  FlightInv'
  BY DEF FlightInv, OneTest, Alive

LEMMA FlightStep ==
  ASSUME TypeOK, FlightInv, ControlInv, Next
  PROVE  FlightInv'
  <1>1. ASSUME NEW c \in Clients, StartClient(c) \/ ClientStep(c) \/ Die(c) PROVE FlightInv'
    <2>1. UNCHANGED <<tpc, lpc, inflight>>
      BY <1>1, ClientFrame DEF testVars
    <2> QED
      BY <2>1, FlightSame
  <1>2. ASSUME NEW c \in Clients, ControllerStep(c) PROVE FlightInv'
    <2>1. UNCHANGED <<lpc, inflight>>
      BY <1>2, ControllerFrame DEF outside, listenerVars
    <2>2. /\ \A d \in Clients : Alive(d)' => Alive(d)
          /\ \A d \in Clients : (tpc[d] = "none") <=> (tpc'[d] = "none")
      BY <1>2, ControllersShrink
    <2>3. OneTest'
      BY <2>1, <2>2 DEF FlightInv, OneTest
    <2>4. inflight' # NoTest => tpc'[inflight'] # "none"
      <3>1. inflight \in Clients \cup {NoTest}
        BY DEF TypeOK
      <3> QED
        BY <2>1, <2>2, <3>1 DEF FlightInv
    <2> QED
      BY <2>1, <2>2, <2>3, <2>4 DEF FlightInv
  <1>3. ASSUME NEW c \in Clients, WorkerReport(c) \/ WorkerStops(c) PROVE FlightInv'
    <2>1. UNCHANGED <<tpc, lpc, inflight>>
      BY <1>3, WorkerFrame DEF outside, listenerVars
    <2> QED
      BY <2>1, FlightSame
  <1>4. CASE AcceptInFlight
    <2>1. inflight # NoTest /\ UNCHANGED <<tpc, inflight>> /\ lpc' \in {"accept", "hello"}
      BY <1>4 DEF AcceptInFlight, InFlight, testVars
    <2> QED
      BY <2>1 DEF FlightInv, OneTest, Alive
  <1>5. CASE CheckHello
    <2>1. UNCHANGED <<tpc, inflight>> /\ lpc' = "accept"
      BY <1>5 DEF CheckHello, BackToAccept
    <2> QED
      BY <2>1 DEF FlightInv, OneTest, Alive
  <1>6. CASE AcceptFresh
    <2>1. UNCHANGED <<tpc, inflight>> /\ lpc' = "cookie"
      BY <1>6 DEF AcceptFresh, testVars
    <2>2. \A c \in Clients : ~Alive(c)
      BY <1>6, NoTestApart DEF AcceptFresh, InFlight, FlightInv, OneTest
    <2> QED
      BY <2>1, <2>2 DEF FlightInv, OneTest, Alive
  <1>7. CASE FreshHello \/ FreshParameters
    <2>1. /\ UNCHANGED <<tpc, inflight>> /\ lpc' \in {"accept", "params", "announce"}
          /\ lpc \in {"cookie", "params"}
      BY <1>7 DEF FreshHello, FreshParameters, BackToAccept, testVars
    <2> QED
      BY <2>1 DEF FlightInv, OneTest, Alive
  <1>8. ASSUME NEW c \in Clients, Announce(c) PROVE FlightInv'
    <2>1. /\ lpc = "announce" /\ lpc' = "accept" /\ inflight' = c
          /\ tpc' = [tpc EXCEPT ![c] = "start"]
      BY <1>8 DEF Announce, BackToAccept, Goto
    <2>2. tpc'[c] = "start" /\ \A d \in Clients : d # c => tpc'[d] = tpc[d]
      BY <2>1 DEF TypeOK
    <2>3. \A d \in Clients : d # c => ~Alive(d)'
      BY <2>1, <2>2 DEF FlightInv, Alive
    <2> QED
      BY <2>1, <2>2, <2>3 DEF FlightInv, OneTest
  <1>9. CASE StopListening
    <2>1. UNCHANGED <<tpc, inflight>> /\ lpc' = "stopped"
      BY <1>9 DEF StopListening, testVars
    <2> QED
      BY <2>1 DEF FlightInv, OneTest, Alive
  <1>10. CASE UserInterface \/ CtrlC
    <2>1. UNCHANGED <<tpc, lpc, inflight>>
      BY <1>10, InterfaceFrame DEF listenerVars
    <2> QED
      BY <2>1, FlightSame
  <1> QED
    BY NextCases, <1>1, <1>2, <1>3, <1>4, <1>5, <1>6, <1>7, <1>8, <1>9, <1>10

-----------------------------------------------------------------------------
(* The control connections.                                                *)

LEMMA ControlSame ==
  ASSUME ControlInv, UNCHANGED <<client, tpc, lconn, backlog>>
  PROVE  ControlInv'
  BY DEF ControlInv

\* The next connection of the queue goes to the listener.
LEMMA ServeNext ==
  ASSUME TypeOK, ControlInv, backlog # <<>>,
         UNCHANGED <<client, tpc>>, backlog' = Tail(backlog), lconn' \in {Head(backlog), lconn},
         lpc = "accept"
  PROVE  ControlInv'
  <1>1. /\ Head(backlog) = backlog[1] /\ 1 \in DOMAIN backlog
        /\ \A i \in DOMAIN Tail(backlog) :
             i \in Nat /\ i + 1 \in DOMAIN backlog /\ Tail(backlog)[i] = backlog[i + 1]
    <2>1. backlog \in Seq(Conns)
      BY ListenerTyped
    <2> QED
      BY <2>1, HeadTailType, TailIndex
  <1> SUFFICES ASSUME NEW c \in Clients
               PROVE  /\ client[c] = "idle" => tpc[c] = "none"
                      /\ client[c] = "idle" \/ tpc[c] # "none" =>
                           /\ lconn' # Control(c)
                           /\ \A i \in DOMAIN backlog' : backlog'[i] # Control(c)
                      /\ lconn' = Control(c) =>
                           \A i \in DOMAIN backlog' : backlog'[i] # Control(c)
                      /\ \A i, j \in DOMAIN backlog' :
                           backlog'[i] = Control(c) /\ backlog'[j] = Control(c) => i = j
    BY DEF ControlInv
  <1>2. client[c] = "idle" => tpc[c] = "none"
    BY DEF ControlInv
  <1>3. \A i \in DOMAIN backlog' : i \in Nat /\ i + 1 \in DOMAIN backlog /\ backlog'[i] = backlog[i + 1]
    BY <1>1
  <1>4. client[c] = "idle" \/ tpc[c] # "none" =>
          lconn' # Control(c) /\ \A i \in DOMAIN backlog' : backlog'[i] # Control(c)
    BY <1>1, <1>3 DEF ControlInv
  <1>5. \A i, j \in DOMAIN backlog' : backlog'[i] = Control(c) /\ backlog'[j] = Control(c) => i = j
    <2>1. SUFFICES ASSUME NEW i \in DOMAIN backlog', NEW j \in DOMAIN backlog',
                          backlog'[i] = Control(c), backlog'[j] = Control(c)
                   PROVE  i = j
      OBVIOUS
    <2>2. i + 1 = j + 1
      BY <1>3, <2>1 DEF ControlInv
    <2> QED
      BY <1>3, <2>2
  <1>6. lconn' = Control(c) => \A i \in DOMAIN backlog' : backlog'[i] # Control(c)
    <2>1. CASE lconn' = lconn
      BY <1>3, <2>1 DEF ControlInv
    <2>2. CASE lconn' = Head(backlog)
      <3>1. SUFFICES ASSUME lconn' = Control(c), NEW i \in DOMAIN backlog', backlog'[i] = Control(c)
                     PROVE  FALSE
        OBVIOUS
      <3>2. i + 1 = 1
        BY <1>1, <1>3, <2>2, <3>1 DEF ControlInv
      <3>3. 1 \in DOMAIN backlog' /\ i \in DOMAIN Tail(backlog)
        BY <3>1, <3>2
      <3>4. DOMAIN Tail(backlog) = 1 .. Len(Tail(backlog))
        BY TailOfBacklog
      <3> QED
        BY <1>3, <3>1, <3>2, <3>3, <3>4
    <2> QED
      BY <2>1, <2>2
  <1> QED
    BY <1>2, <1>4, <1>5, <1>6

\* What a client's step does to its place and to the queue.
LEMMA ClientMoves ==
  ASSUME TypeOK, NEW c \in Clients, StartClient(c) \/ ClientStep(c) \/ Die(c)
  PROVE  /\ \A d \in Clients : client'[d] = "idle" => client[d] = "idle"
         /\ \/ backlog' = backlog
            \/ /\ client[c] = "idle" /\ client'[c] # "idle"
               /\ backlog' = Append(backlog, Control(c))
            \/ backlog' = Append(backlog, Data(c))
  <1>1. ASSUME NEW p \in ClientPlaces \ {"idle"}, Become(c, p)
        PROVE  client'[c] # "idle" /\ \A d \in Clients : client'[d] = "idle" => client[d] = "idle"
    BY <1>1 DEF Become, TypeOK
  <1>2. ASSUME NEW k, NEW p \in {"hello", "shello"}, Connect(c, k, p)
        PROVE  /\ client'[c] # "idle" /\ \A d \in Clients : client'[d] = "idle" => client[d] = "idle"
               /\ backlog' = backlog \/ backlog' = Append(backlog, k)
    BY <1>1, <1>2 DEF Connect, ClientPlaces
  <1>3. CASE StartClient(c)
    BY <1>2, <1>3 DEF StartClient
  <1>4. CASE ClientStep(c)
    <2>1. ASSUME NEW k, NEW p \in {"welcome", "swelcome"}, SayHello(c, k, p)
          PROVE  /\ \A d \in Clients : client'[d] = "idle" => client[d] = "idle"
                 /\ backlog' = backlog
      BY <1>1, <2>1 DEF SayHello, ClientPlaces, listenerVars
    <2>2. ASSUME NEW k, NEW p \in {"test", "load"}, HearAnswer(c, k, p)
          PROVE  /\ \A d \in Clients : client'[d] = "idle" => client[d] = "idle"
                 /\ backlog' = backlog
      BY <1>1, <2>2 DEF HearAnswer, ClientPlaces, listenerVars
    <2>3. ASSUME ClientEnds(c)
          PROVE  /\ \A d \in Clients : client'[d] = "idle" => client[d] = "idle"
                 /\ backlog' = backlog
      BY <1>1, <2>3 DEF ClientEnds, ClientPlaces, listenerVars
    <2> QED
      BY <1>2, <1>4, <2>1, <2>2, <2>3 DEF ClientStep
  <1>5. CASE Die(c)
    BY <1>1, <1>5 DEF Die, ClientPlaces, listenerVars
  <1> QED
    BY <1>3, <1>4, <1>5

\* A connection that joins the queue.
LEMMA JoinQueue ==
  ASSUME TypeOK, ControlInv, NEW k, backlog' = Append(backlog, k),
         UNCHANGED <<tpc, lconn>>,
         \A d \in Clients : client'[d] = "idle" => client[d] = "idle",
         \A d \in Clients : k = Control(d) => client[d] = "idle" /\ client'[d] # "idle"
  PROVE  ControlInv'
  <1>1. \A i \in DOMAIN backlog' : \/ i \in DOMAIN backlog /\ backlog'[i] = backlog[i]
                                   \/ i = Len(backlog) + 1 /\ backlog'[i] = k
    <2>1. backlog \in Seq(Conns)
      BY ListenerTyped
    <2> QED
      BY <2>1, AppendIndex
  <1> SUFFICES ASSUME NEW c \in Clients
               PROVE  /\ client'[c] = "idle" => tpc[c] = "none"
                      /\ client'[c] = "idle" \/ tpc[c] # "none" =>
                           /\ lconn # Control(c)
                           /\ \A i \in DOMAIN backlog' : backlog'[i] # Control(c)
                      /\ lconn = Control(c) =>
                           \A i \in DOMAIN backlog' : backlog'[i] # Control(c)
                      /\ \A i, j \in DOMAIN backlog' :
                           backlog'[i] = Control(c) /\ backlog'[j] = Control(c) => i = j
    BY DEF ControlInv
  <1>2. CASE k = Control(c)
    <2>1. client[c] = "idle" /\ client'[c] # "idle" /\ tpc[c] = "none" /\ lconn # Control(c)
      BY <1>2 DEF ControlInv
    <2>2. \A i \in DOMAIN backlog : backlog[i] # Control(c)
      BY <2>1 DEF ControlInv
    <2>3. \A i \in DOMAIN backlog' : backlog'[i] = Control(c) => i = Len(backlog) + 1
      BY <1>1, <2>2
    <2> QED
      BY <2>1, <2>3
  <1>3. CASE k # Control(c)
    <2>1. \A i \in DOMAIN backlog' :
            backlog'[i] = Control(c) => i \in DOMAIN backlog /\ backlog[i] = Control(c)
      BY <1>1, <1>3
    <2> QED
      BY <2>1 DEF ControlInv
  <1> QED
    BY <1>2, <1>3

LEMMA ControlStep ==
  ASSUME TypeOK, FlightInv, ControlInv, Next
  PROVE  ControlInv'
  <1>1. ASSUME NEW c \in Clients, StartClient(c) \/ ClientStep(c) \/ Die(c) PROVE ControlInv'
    <2>1. UNCHANGED <<tpc, lconn>>
      BY <1>1, ClientFrame DEF testVars
    <2>2. \A d \in Clients : client'[d] = "idle" => client[d] = "idle"
      BY <1>1, ClientMoves
    <2>3. CASE backlog' = backlog
      BY <2>1, <2>2, <2>3 DEF ControlInv
    <2>4. CASE /\ client[c] = "idle" /\ client'[c] # "idle"
               /\ backlog' = Append(backlog, Control(c))
      BY <2>1, <2>2, <2>4, ConnFacts, JoinQueue
    <2>5. CASE backlog' = Append(backlog, Data(c))
      BY <2>1, <2>2, <2>5, ConnFacts, JoinQueue
    <2> QED
      BY <1>1, <2>3, <2>4, <2>5, ClientMoves
  <1>2. ASSUME NEW c \in Clients, ControllerStep(c) PROVE ControlInv'
    <2>1. UNCHANGED <<client, lconn, backlog>>
      BY <1>2, ControllerFrame DEF outside, clientVars, listenerVars
    <2>2. \A d \in Clients : (tpc[d] = "none") <=> (tpc'[d] = "none")
      BY <1>2, ControllersShrink
    <2> QED
      BY <2>1, <2>2 DEF ControlInv
  <1>3. ASSUME NEW c \in Clients, WorkerReport(c) \/ WorkerStops(c) PROVE ControlInv'
    <2>1. UNCHANGED <<client, tpc, lconn, backlog>>
      BY <1>3, WorkerFrame DEF outside, clientVars, listenerVars
    <2> QED
      BY <2>1, ControlSame
  <1>4. CASE AcceptInFlight \/ AcceptFresh
    <2>1. /\ UNCHANGED <<client, tpc>> /\ backlog # <<>> /\ backlog' = Tail(backlog)
          /\ lpc = "accept" /\ lconn' \in {Head(backlog), lconn}
      BY <1>4 DEF AcceptInFlight, AcceptFresh, clientVars, testVars
    <2> QED
      BY <2>1, ServeNext
  <1>5. CASE CheckHello \/ FreshHello \/ FreshParameters
    <2>1. UNCHANGED <<client, tpc, backlog>> /\ lconn' \in {lconn, NoConn}
      BY <1>5 DEF CheckHello, FreshHello, FreshParameters, BackToAccept, clientVars, testVars
    <2> QED
      BY <2>1, ConnFacts DEF ControlInv
  <1>6. ASSUME NEW c \in Clients, Announce(c) PROVE ControlInv'
    <2>1. /\ UNCHANGED <<client, backlog>> /\ lconn = Control(c) /\ lconn' = NoConn
          /\ tpc' = [tpc EXCEPT ![c] = "start"]
      BY <1>6 DEF Announce, BackToAccept, Goto, clientVars
    <2>2. tpc'[c] = "start" /\ \A d \in Clients : d # c => tpc'[d] = tpc[d]
      BY <2>1 DEF TypeOK
    <2>3. client[c] # "idle" /\ \A i \in DOMAIN backlog : backlog[i] # Control(c)
      BY <2>1 DEF ControlInv
    <2> QED
      BY <2>1, <2>2, <2>3, ConnFacts DEF ControlInv
  <1>7. CASE StopListening
    <2>1. UNCHANGED <<client, tpc, lconn>> /\ backlog' = <<>>
      BY <1>7 DEF StopListening, clientVars, testVars
    <2> QED
      BY <2>1 DEF ControlInv
  <1>8. CASE UserInterface \/ CtrlC
    <2>1. UNCHANGED <<client, tpc, lconn, backlog>>
      BY <1>8, InterfaceFrame DEF clientVars, listenerVars
    <2> QED
      BY <2>1, ControlSame
  <1> QED
    BY NextCases, <1>1, <1>2, <1>3, <1>4, <1>5, <1>6, <1>7, <1>8

-----------------------------------------------------------------------------
(* The streams of a test.                                                  *)

\* The messages under way to each controller name its own client's stream.
Messaged(q, c) == \A i \in DOMAIN q : q[i].kind = "CreateStream" => q[i].stream = Data(c)

LEMMA StreamsSplit ==
  StreamsOfTheirTest <=> \A c \in Clients : joined[c] \subseteq {Data(c)} /\ Messaged(inbox[c], c)
  BY DEF StreamsOfTheirTest, Messaged

LEMMA ReceiveMessaged ==
  ASSUME TypeOK, NEW c \in Clients, NEW kind, Receive(c, kind), Messaged(inbox[c], c)
  PROVE  /\ Messaged(inbox'[c], c) /\ \A d \in Clients : d # c => inbox'[d] = inbox[d]
         /\ kind = "CreateStream" => Head(inbox[c]).stream = Data(c)
  <1>1. inbox[c] \in Seq(Messages) /\ inbox[c] # <<>>
    BY TestTyped DEF Receive
  <1>2. inbox'[c] = Tail(inbox[c]) /\ \A d \in Clients : d # c => inbox'[d] = inbox[d]
    BY TestTyped DEF Receive
  <1>3. \A k \in DOMAIN Tail(inbox[c]) :
          k + 1 \in DOMAIN inbox[c] /\ Tail(inbox[c])[k] = inbox[c][k + 1]
    BY <1>1, TailIndex
  <1>4. Head(inbox[c]) = inbox[c][1] /\ 1 \in DOMAIN inbox[c]
    BY <1>1, HeadTailType
  <1> QED
    BY <1>2, <1>3, <1>4 DEF Messaged, Receive

LEMMA PostMessaged ==
  ASSUME TypeOK, StreamsOfTheirTest, NEW c \in Clients, NEW m \in Messages, Post(c, m),
         m.kind = "CreateStream" => m.stream = Data(c)
  PROVE  \A d \in Clients : Messaged(inbox'[d], d)
  <1>1. inbox[c] \in Seq(Messages) /\ \A d \in Clients : Messaged(inbox[d], d)
    BY TestTyped, StreamsSplit
  <1>2. \/ inbox' = inbox
        \/ inbox'[c] = Append(inbox[c], m) /\ \A d \in Clients : d # c => inbox'[d] = inbox[d]
    BY TestTyped DEF Post
  <1>3. \A k \in DOMAIN Append(inbox[c], m) :
          \/ k \in DOMAIN inbox[c] /\ Append(inbox[c], m)[k] = inbox[c][k]
          \/ Append(inbox[c], m)[k] = m
    BY <1>1, AppendIndex
  <1> QED
    BY <1>1, <1>2, <1>3 DEF Messaged

LEMMA StreamsSame ==
  ASSUME StreamsOfTheirTest, UNCHANGED <<joined, inbox>>
  PROVE  StreamsOfTheirTest'
  BY DEF StreamsOfTheirTest

LEMMA StreamsStep ==
  ASSUME TypeOK, FlightInv, ControlInv, StreamsOfTheirTest, Next
  PROVE  StreamsOfTheirTest'
  <1>0. \A d \in Clients : joined[d] \subseteq {Data(d)} /\ Messaged(inbox[d], d)
    BY StreamsSplit
  <1>s. (\A d \in Clients : joined'[d] \subseteq {Data(d)} /\ Messaged(inbox'[d], d))
          => StreamsOfTheirTest'
    BY DEF StreamsOfTheirTest, Messaged
  <1>1. ASSUME NEW c \in Clients, StartClient(c) \/ ClientStep(c) \/ Die(c)
        PROVE  StreamsOfTheirTest'
    <2>1. UNCHANGED <<joined, inbox>>
      BY <1>1, ClientFrame DEF testVars
    <2> QED
      BY <2>1, StreamsSame
  <1>2. ASSUME NEW c \in Clients, ControllerStep(c) PROVE StreamsOfTheirTest'
    <2>1. CASE Begin(c) \/ Store(c) \/ OnShutdown(c) \/ Collected(c) \/ Report(c)
      <3>1. UNCHANGED <<joined, inbox>>
        BY <2>1 DEF Begin, Store, OnShutdown, Collected, Report
      <3> QED
        BY <3>1, StreamsSame
    <2>2. CASE OnStreamTerminated(c) \/ OnTerminate(c)
      <3>1. UNCHANGED joined /\ \E kind : Receive(c, kind)
        BY <2>2 DEF OnStreamTerminated, OnTerminate
      <3> QED
        BY <1>0, <1>s, <3>1, ReceiveMessaged
    <2>3. CASE AcceptStream(c)
      <3>1. /\ Messaged(inbox'[c], c) /\ \A d \in Clients : d # c => inbox'[d] = inbox[d]
            /\ Head(inbox[c]).stream = Data(c)
        BY <1>0, <2>3, ReceiveMessaged DEF AcceptStream
      <3>2. /\ joined'[c] = joined[c] \cup {Data(c)}
            /\ \A d \in Clients : d # c => joined'[d] = joined[d]
        BY <2>3, <3>1, TestTyped DEF AcceptStream
      <3> QED
        BY <1>0, <1>s, <3>1, <3>2
    <2> QED
      BY <1>2, <2>1, <2>2, <2>3 DEF ControllerStep
  <1>3. ASSUME NEW c \in Clients, WorkerReport(c) \/ WorkerStops(c) PROVE StreamsOfTheirTest'
    <2>1. UNCHANGED joined
      BY <1>3, WorkerFrame
    <2>2. CASE Flush(c)
      <3>1. \A d \in Clients : Messaged(inbox'[d], d)
        BY <2>2, PostMessaged, MessageTypes DEF Flush, StreamTerminated
      <3> QED
        BY <1>0, <1>s, <2>1, <3>1
    <2>3. CASE ~Flush(c)
      <3>1. UNCHANGED inbox
        BY <1>3, <2>3 DEF WorkerReport, WorkerStops, LeaveLoop, WorkerFails
      <3> QED
        BY <2>1, <3>1, StreamsSame
    <2> QED
      BY <2>2, <2>3
  <1>4. CASE CheckHello
    <2>1. UNCHANGED joined /\ lpc = "hello"
      BY <1>4 DEF CheckHello
    <2>2. inflight \in Clients /\ tpc[inflight] # "none"
      BY <2>1 DEF FlightInv, TypeOK
    <2>3. CASE CookieMatches(lconn, inflight) /\ Post(inflight, CreateStream(lconn))
      <3>1. lconn = Data(inflight)
        BY <2>2, <2>3 DEF CookieMatches, ControlInv
      <3>2. \A d \in Clients : Messaged(inbox'[d], d)
        BY <2>2, <2>3, <3>1, PostMessaged, MessageTypes, ConnFacts DEF CreateStream
      <3> QED
        BY <1>0, <1>s, <2>1, <3>2
    <2>4. CASE UNCHANGED inbox
      BY <2>1, <2>4, StreamsSame
    <2>5. CASE Post(inflight, TerminateMsg)
      <3>1. \A d \in Clients : Messaged(inbox'[d], d)
        BY <2>2, <2>5, PostMessaged, MessageTypes DEF TerminateMsg
      <3> QED
        BY <1>0, <1>s, <2>1, <3>1
    <2> QED
      BY <1>4, <2>3, <2>4, <2>5 DEF CheckHello
  <1>5. CASE \/ AcceptInFlight \/ AcceptFresh \/ FreshHello \/ FreshParameters
             \/ (\E c \in Clients : Announce(c)) \/ StopListening
    <2>1. UNCHANGED <<joined, inbox>>
      BY <1>5 DEF AcceptInFlight, AcceptFresh, FreshHello, FreshParameters, Announce,
                  StopListening, testVars
    <2> QED
      BY <2>1, StreamsSame
  <1>6. CASE UserInterface \/ CtrlC
    <2>1. UNCHANGED <<joined, inbox>>
      BY <1>6, InterfaceFrame
    <2> QED
      BY <2>1, StreamsSame
  <1> QED
    BY NextCases, <1>1, <1>2, <1>3, <1>4, <1>5, <1>6

-----------------------------------------------------------------------------
(* The user interface.                                                     *)

\* A test is with the user interface, on its way there, or printed.
Handed(c) == c \in shown \/ ui = c \/ \E i \in DOMAIN port : port[i] = c

\* What ShownInv says of one test.
ShownOf(c) ==
  /\ tpc[c] = "none" => worker[c] = "none" /\ unread[c] = 0
  /\ tpc[c] # "none" <=> Handed(c)
  /\ c \in shown => tpc[c] = "over" /\ ~Working(c) /\ unread[c] = 0

NotLeftEarly == exited => lpc = "stopped" /\ port = <<>> /\ ui = NoTest

LEMMA ShownSplit == ShownInv <=> (\A c \in Clients : ShownOf(c)) /\ NotLeftEarly
  BY DEF ShownInv, ShownOf, Handed, NotLeftEarly

LEMMA ShownSplitNext == ShownInv' <=> (\A c \in Clients : ShownOf(c)') /\ NotLeftEarly'
  BY DEF ShownInv, ShownOf, Handed, NotLeftEarly

LEMMA ShownSame ==
  ASSUME NEW c \in Clients, ShownOf(c), UNCHANGED uiVars,
         tpc'[c] = tpc[c], worker'[c] = worker[c], unread'[c] = unread[c]
  PROVE  ShownOf(c)'
  BY DEF ShownOf, Handed, Working, uiVars

\* A test that runs, or whose worker does, was announced and is not printed.
LEMMA ShownLater ==
  ASSUME NEW c \in Clients, ShownOf(c), UNCHANGED uiVars,
         Alive(c) \/ Working(c), tpc'[c] # "none"
  PROVE  ShownOf(c)'
  BY DEF ShownOf, Handed, Working, Alive, uiVars

\* What a step of one test leaves of the others.
LEMMA OthersStay ==
  ASSUME TypeOK, NEW c \in Clients, NEW d \in Clients, d # c,
         ControllerStep(c) \/ WorkerReport(c) \/ WorkerStops(c)
  PROVE  tpc'[d] = tpc[d] /\ worker'[d] = worker[d] /\ unread'[d] = unread[d]
  <1>1. CASE ControllerStep(c)
    <2>1. tpc'[d] = tpc[d]
      BY <1>1, ControllersShrink
    <2>2. worker'[d] = worker[d] /\ unread'[d] = unread[d]
      BY <1>1, TestTyped DEF ControllerStep, Begin, Store, AcceptStream, OnStreamTerminated,
         OnTerminate, OnShutdown, Collected, Report, HeadOfLoop, Send
    <2> QED
      BY <2>1, <2>2
  <1>2. CASE WorkerReport(c) \/ WorkerStops(c)
    <2>1. tpc' = tpc
      BY <1>2, WorkerFrame
    <2>2. worker'[d] = worker[d] /\ unread'[d] = unread[d]
      BY <1>2, TestTyped DEF WorkerReport, WorkerStops, LeaveLoop, Flush, WorkerFails, Send, Work
    <2> QED
      BY <2>1, <2>2
  <1> QED
    BY <1>1, <1>2

\* A client, the listener and Ctrl-C leave what is printed alone, and exit.
LEMMA ShownOutside ==
  ASSUME TypeOK, ShownInv, UNCHANGED <<tpc, worker, unread, uiVars, exited>>,
         lpc = "stopped" => lpc' = "stopped"
  PROVE  ShownInv'
  <1>1. \A c \in Clients : ShownOf(c)'
    BY ShownSplit, ShownSame
  <1>2. NotLeftEarly'
    BY ShownSplit DEF NotLeftEarly, uiVars
  <1> QED
    BY <1>1, <1>2, ShownSplitNext

LEMMA AnnounceShown ==
  ASSUME TypeOK, ControlInv, ShownInv, NEW c \in Clients, Announce(c)
  PROVE  ShownInv'
  <1>1. /\ UNCHANGED <<worker, unread, ui, shown, exited>> /\ lpc = "announce"
        /\ tpc' = [tpc EXCEPT ![c] = "start"] /\ port = <<>> /\ port' = Append(port, c)
        /\ lconn = Control(c)
    BY DEF Announce, Goto
  <1>2. tpc[c] = "none"
    BY <1>1 DEF ControlInv
  <1>3. 1 \in DOMAIN port' /\ port'[1] = c /\ DOMAIN port' = {1} /\ DOMAIN port = {}
    BY <1>1
  <1>4. ASSUME NEW d \in Clients PROVE ShownOf(d)'
    <2>1. ShownOf(d)
      BY ShownSplit
    <2>2. CASE d = c
      <3>1. tpc'[d] = "start" /\ Handed(d)'
        BY <1>1, <1>3, <2>2 DEF TypeOK, Handed
      <3>2. d \notin shown
        BY <1>2, <2>1, <2>2 DEF ShownOf
      <3> QED
        BY <1>1, <3>1, <3>2 DEF ShownOf
    <2>3. CASE d # c
      <3>1. tpc'[d] = tpc[d]
        BY <1>1, <2>3 DEF TypeOK
      <3>2. Handed(d)' <=> Handed(d)
        BY <1>1, <1>3, <2>3 DEF Handed
      <3> QED
        BY <1>1, <2>1, <3>1, <3>2 DEF ShownOf, Working
    <2> QED
      BY <2>2, <2>3
  <1>5. NotLeftEarly'
    BY <1>1, ShownSplit DEF NotLeftEarly
  <1> QED
    BY <1>4, <1>5, ShownSplitNext

LEMMA InterfaceShown ==
  ASSUME TypeOK, ShownInv, UserInterface
  PROVE  ShownInv'
  <1>0. NotLeftEarly /\ \A d \in Clients : ShownOf(d)
    BY ShownSplit
  <1>f. UNCHANGED <<lpc, tpc, worker>>
    BY InterfaceFrame DEF listenerVars
  <1>1. CASE TakeTest
    <2>1. UNCHANGED <<unread, shown, exited>> /\ ui = NoTest /\ port # <<>> /\ ui' = port[1]
          /\ DOMAIN port = {1} /\ DOMAIN port' = {}
      <3>1. port \in Seq(Clients) /\ Len(port) <= 1 /\ port # <<>>
        BY <1>1 DEF TakeTest, TypeOK
      <3>2. DOMAIN port = {1} /\ DOMAIN Tail(port) = {} /\ Head(port) = port[1]
        BY <3>1
      <3> QED
        BY <1>1, <3>2 DEF TakeTest, testVars
    <2>2. ASSUME NEW d \in Clients PROVE ShownOf(d)'
      <3>1. Handed(d)' <=> Handed(d)
        BY <2>1, NoTestApart DEF Handed
      <3> QED
        BY <1>0, <1>f, <2>1, <3>1 DEF ShownOf, Working
    <2>3. NotLeftEarly'
      BY <1>0, <2>1 DEF NotLeftEarly
    <2> QED
      BY <2>2, <2>3, ShownSplitNext
  <1>2. CASE PrintStats
    <2>1. /\ UNCHANGED <<uiVars, exited>> /\ ui \in Clients /\ unread[ui] > 0
          /\ \A d \in Clients : d # ui => unread'[d] = unread[d]
      BY <1>2, TestTyped DEF PrintStats, TypeOK
    <2>2. unread[ui] # 0
      BY <2>1
    <2>3. \A d \in Clients : d = ui => ShownOf(d)'
      BY <1>0, <1>f, <2>1, <2>2 DEF ShownOf, Handed, uiVars
    <2>4. \A d \in Clients : ShownOf(d)'
      <3>1. \A d \in Clients : tpc'[d] = tpc[d] /\ worker'[d] = worker[d]
        BY <1>f
      <3>2. \A d \in Clients : d # ui => ShownOf(d)'
        BY <1>0, <2>1, <3>1, ShownSame
      <3> QED
        BY <2>3, <3>2
    <2>5. NotLeftEarly'
      BY <1>0, <1>f, <2>1 DEF NotLeftEarly, uiVars
    <2> QED
      BY <2>4, <2>5, ShownSplitNext
  <1>3. CASE EndOfStats
    <2>1. /\ UNCHANGED <<unread, port, exited>> /\ ui \in Clients /\ unread[ui] = 0
          /\ ~Alive(ui) /\ ~Working(ui) /\ ui' = NoTest /\ shown' = shown \cup {ui}
      BY <1>3 DEF EndOfStats, Senders, TypeOK, testVars
    <2>2. tpc[ui] = "over"
      BY <1>0, <2>1 DEF ShownOf, Handed, Alive
    <2>3. ASSUME NEW d \in Clients PROVE ShownOf(d)'
      <3>1. Handed(d)' <=> Handed(d)
        BY <2>1, NoTestApart DEF Handed
      <3> QED
        BY <1>0, <1>f, <2>1, <2>2, <3>1 DEF ShownOf, Working
    <2>4. NotLeftEarly'
      BY <1>0, <1>f, <2>1 DEF NotLeftEarly
    <2> QED
      BY <2>3, <2>4, ShownSplitNext
  <1>4. CASE Exit
    <2>1. UNCHANGED <<unread, uiVars>> /\ lpc = "stopped" /\ port = <<>> /\ ui = NoTest
      BY <1>4 DEF Exit, testVars
    <2>2. \A d \in Clients : ShownOf(d)'
      BY <1>0, <1>f, <2>1, ShownSame
    <2>3. NotLeftEarly'
      BY <1>f, <2>1 DEF NotLeftEarly, uiVars
    <2> QED
      BY <2>2, <2>3, ShownSplitNext
  <1> QED
    BY <1>1, <1>2, <1>3, <1>4 DEF UserInterface

LEMMA ShownStep ==
  ASSUME TypeOK, FlightInv, ControlInv, ShownInv, Next
  PROVE  ShownInv'
  <1>0. NotLeftEarly /\ \A d \in Clients : ShownOf(d)
    BY ShownSplit
  <1>1. ASSUME NEW c \in Clients, StartClient(c) \/ ClientStep(c) \/ Die(c) PROVE ShownInv'
    <2>1. UNCHANGED <<tpc, worker, unread, uiVars, exited, lpc>>
      BY <1>1, ClientFrame DEF testVars
    <2> QED
      BY <2>1, ShownOutside
  <1>2. ASSUME NEW c \in Clients, ControllerStep(c) PROVE ShownInv'
    <2>1. UNCHANGED <<lpc, uiVars, exited>> /\ Alive(c)
      BY <1>2, ControllerFrame DEF outside, listenerVars
    <2>2. tpc'[c] # "none"
      BY <1>2, <2>1, ControllersShrink DEF Alive
    <2>3. \A d \in Clients : d # c => ShownOf(d)'
      BY <1>0, <1>2, <2>1, OthersStay, ShownSame
    <2>4. ShownOf(c)'
      BY <1>0, <2>1, <2>2, ShownLater
    <2>5. NotLeftEarly'
      BY <1>0, <2>1 DEF NotLeftEarly, uiVars
    <2> QED
      BY <2>3, <2>4, <2>5, ShownSplitNext
  <1>3. ASSUME NEW c \in Clients, WorkerReport(c) \/ WorkerStops(c) PROVE ShownInv'
    <2>1. UNCHANGED <<lpc, uiVars, exited, tpc>>
      BY <1>3, WorkerFrame DEF outside, listenerVars
    <2>2. Working(c)
      BY <1>3 DEF WorkerReport, WorkerStops, LeaveLoop, Flush, WorkerFails, Working
    <2>3. tpc'[c] # "none"
      BY <1>0, <2>1, <2>2 DEF ShownOf, Working
    <2>4. \A d \in Clients : d # c => ShownOf(d)'
      BY <1>0, <1>3, <2>1, OthersStay, ShownSame
    <2>5. ShownOf(c)'
      BY <1>0, <2>1, <2>2, <2>3, ShownLater
    <2>6. NotLeftEarly'
      BY <1>0, <2>1 DEF NotLeftEarly, uiVars
    <2> QED
      BY <2>4, <2>5, <2>6, ShownSplitNext
  <1>4. CASE AcceptInFlight \/ CheckHello \/ AcceptFresh \/ FreshHello \/ FreshParameters
             \/ StopListening \/ CtrlC
    <2>1. UNCHANGED <<tpc, worker, unread, uiVars, exited>>
          /\ (lpc = "stopped" => lpc' = "stopped")
      BY <1>4 DEF AcceptInFlight, CheckHello, AcceptFresh, FreshHello, FreshParameters,
                  StopListening, CtrlC, testVars, listenerVars
    <2> QED
      BY <2>1, ShownOutside
  <1> QED
    BY NextCases, <1>1, <1>2, <1>3, <1>4, AnnounceShown, InterfaceShown

-----------------------------------------------------------------------------
(* The theorems.                                                           *)

LEMMA InitHolds ==
  ASSUME Init
  PROVE  ServerInv
  <1>1. TypeOK
    <2>1. 0 \in 0 .. PortCap
      BY SessionsAssumption
    <2>2. <<>> \in Seq(Conns) /\ <<>> \in Seq(Messages) /\ <<>> \in Seq(Clients)
          /\ Len(<<>>) <= 1
      BY EmptyType
    <2> QED
      BY <2>1, <2>2 DEF Init, TypeOK, Phases, Messages
  <1>2. FlightInv
    BY DEF Init, FlightInv, OneTest, Alive
  <1>3. ControlInv
    <2>1. DOMAIN backlog = {} /\ lconn = NoConn /\ \A c \in Clients : tpc[c] = "none"
      BY DEF Init
    <2> QED
      BY <2>1, ConnFacts DEF ControlInv
  <1>4. StreamsOfTheirTest
    <2>1. \A c \in Clients : DOMAIN inbox[c] = {} /\ joined[c] = {}
      BY DEF Init
    <2> QED
      BY <2>1 DEF StreamsOfTheirTest
  <1>5. ShownInv
    <2>1. DOMAIN port = {} /\ ui = NoTest /\ shown = {} /\ ~exited
      BY DEF Init
    <2>2. \A c \in Clients : tpc[c] = "none" /\ worker[c] = "none" /\ unread[c] = 0
      BY DEF Init
    <2> QED
      BY <2>1, <2>2, NoTestApart DEF ShownInv
  <1> QED
    BY <1>1, <1>2, <1>3, <1>4, <1>5 DEF ServerInv

LEMMA Stutter ==
  ASSUME ServerInv, UNCHANGED vars
  PROVE  ServerInv'
  <1>1. /\ UNCHANGED <<clientVars, listenerVars, testVars, uiVars, shutdown, exited>>
        /\ UNCHANGED <<client, lpc, lconn, backlog, inflight, tpc, joined, inbox, worker, unread>>
    BY DEF vars, clientVars, listenerVars, testVars
  <1>2. TypeOK'
    BY <1>1 DEF ServerInv, TypeOK, clientVars, listenerVars, testVars, uiVars
  <1>3. FlightInv' /\ ControlInv' /\ StreamsOfTheirTest'
    BY <1>1, FlightSame, ControlSame, StreamsSame DEF ServerInv
  <1>4. ShownInv'
    BY <1>1, ShownOutside DEF ServerInv
  <1> QED
    BY <1>2, <1>3, <1>4 DEF ServerInv

\* The invariant of the server's loop, its user interface and its tests, however
\* many clients come, in whatever order (start_server, run_server).
THEOREM ServerInvariance == Spec => []ServerInv
  <1>1. Init => ServerInv
    BY InitHolds
  <1>2. ServerInv /\ [Next]_vars => ServerInv'
    <2>1. ASSUME ServerInv, Next PROVE ServerInv'
      BY <2>1, TypeStep, FlightStep, ControlStep, StreamsStep, ShownStep DEF ServerInv
    <2> QED
      BY <2>1, Stutter
  <1> QED
    BY <1>1, <1>2, PTL DEF Spec

\* A server runs one test at a time, the one its weak reference is to.
THEOREM OneTestAtATime == Spec => []OneTest
  <1>1. ServerInv => OneTest
    BY DEF ServerInv, FlightInv
  <1> QED
    BY <1>1, ServerInvariance, PTL

\* No test of a server takes a stream of another test's client.
THEOREM OwnStreams == Spec => []StreamsOfTheirTest
  <1>1. ServerInv => StreamsOfTheirTest
    BY DEF ServerInv
  <1> QED
    BY <1>1, ServerInvariance, PTL

\* When main returns, every test is over and all it measured was printed.
THEOREM NothingLeftAtExit == Spec => []CleanExit
  <1>1. ServerInv => CleanExit
    <2>1. SUFFICES ASSUME ServerInv, exited, NEW c \in Clients
                   PROVE  ~Alive(c) /\ ~Working(c) /\ unread[c] = 0
      BY DEF CleanExit
    <2>2. ui = NoTest /\ DOMAIN port = {}
      BY <2>1 DEF ServerInv, ShownInv
    <2>3. tpc[c] = "none" \/ c \in shown
      BY <2>1, <2>2, NoTestApart DEF ServerInv, ShownInv
    <2> QED
      BY <2>1, <2>3 DEF ServerInv, ShownInv, Alive, Working
  <1> QED
    BY <1>1, ServerInvariance, PTL

-----------------------------------------------------------------------------
(* The server implements ServerLife.                                       *)

\* A queue of at most one behind the one that is being printed.
LEMMA LineFacts ==
  ASSUME NEW S, NEW u \in S, NEW q \in Seq(S)
  PROVE  /\ <<>> \o q = q
         /\ <<u>> \o q # <<>> /\ Head(<<u>> \o q) = u /\ Tail(<<u>> \o q) = q
  OBVIOUS

LEMMA OneLong ==
  ASSUME NEW S, NEW q \in Seq(S), Len(q) <= 1, q # <<>>
  PROVE  q = <<Head(q)>> /\ Tail(q) = <<>> /\ Head(q) \in S
  <1>0. Len(q) \in Nat /\ DOMAIN q = 1 .. Len(q)
    OBVIOUS
  <1>a. Head(q) = q[1] /\ Head(q) \in S /\ 1 \in DOMAIN q
    BY HeadTailType
  <1>b. Len(q) = 1
    BY <1>0, <1>a
  <1>1. Len(q) = 1 /\ DOMAIN q = {1} /\ Head(q) = q[1] /\ Head(q) \in S
    BY <1>0, <1>a, <1>b
  <1>2. Tail(q) \in Seq(S) /\ Len(Tail(q)) = 0
    BY <1>1
  <1>3. Tail(q) = <<>>
    BY <1>2
  <1>4. DOMAIN <<q[1]>> = {1} /\ <<q[1]>>[1] = q[1] /\ <<q[1]>> \in Seq(S)
    BY <1>1
  <1>5. q = <<q[1]>>
    BY <1>1, <1>4
  <1> QED
    BY <1>1, <1>3, <1>5

LEMMA TwoLong ==
  ASSUME NEW S, NEW u \in S, NEW c \in S
  PROVE  /\ <<u>> \o <<>> = <<u>> /\ <<u>> \o <<c>> = Append(<<u>>, c)
         /\ <<u>> \in Seq(S) /\ Len(<<u>>) = 1 /\ \A i \in DOMAIN <<u>> : <<u>>[i] = u
  OBVIOUS

Line == (IF ui = NoTest THEN <<>> ELSE <<ui>>) \o port

AliveTests   == {c \in Clients : Alive(c)}
WritingTests == {c \in Clients : Senders(c)}

\* A test that goes on or still writes is in the hands of the user interface, so
\* none does once main has returned.
LEMMA InHand ==
  ASSUME ShownInv, NEW c \in Clients, Senders(c)
  PROVE  /\ ~exited /\ c \notin shown
         /\ port = <<>> => ui # NoTest
  <1>1. ShownOf(c) /\ NotLeftEarly
    BY ShownSplit
  <1>2. tpc[c] # "none" /\ c \notin shown
    BY <1>1 DEF ShownOf, Senders, Alive, Working
  <1>3. ui = c \/ port # <<>>
    BY <1>1, <1>2 DEF ShownOf, Handed
  <1>4. ui = c => ui # NoTest
    BY NoTestApart
  <1> QED
    BY <1>1, <1>2, <1>3, <1>4 DEF NotLeftEarly

\* What a step of a controller or a worker does to the statistics of its test.
LEMMA TestWorks ==
  ASSUME TypeOK, NEW c \in Clients, ControllerStep(c) \/ WorkerReport(c) \/ WorkerStops(c)
  PROVE  /\ Senders(c)
         /\ Alive(c)' => Alive(c)
         /\ unread' = unread \/ unread' = [unread EXCEPT ![c] = unread[c] + 1]
         /\ UNCHANGED <<uiVars, exited>>
  <1>1. CASE ControllerStep(c)
    <2>1. Alive(c) /\ UNCHANGED <<uiVars, exited>>
      BY <1>1, ControllerFrame DEF outside
    <2>2. unread' = unread \/ unread' = [unread EXCEPT ![c] = unread[c] + 1]
      BY <1>1 DEF ControllerStep, Begin, Store, AcceptStream, OnStreamTerminated, OnTerminate,
                  OnShutdown, Collected, Report, Send
    <2> QED
      BY <2>1, <2>2 DEF Senders
  <1>2. CASE WorkerReport(c) \/ WorkerStops(c)
    <2>1. UNCHANGED <<tpc, uiVars, exited>>
      BY <1>2, WorkerFrame DEF outside
    <2>2. Working(c)
      BY <1>2 DEF WorkerReport, WorkerStops, LeaveLoop, Flush, WorkerFails, Working
    <2>3. unread' = unread \/ unread' = [unread EXCEPT ![c] = unread[c] + 1]
      BY <1>2 DEF WorkerReport, WorkerStops, LeaveLoop, Flush, WorkerFails, Send
    <2> QED
      BY <2>1, <2>2, <2>3 DEF Senders, Alive
  <1> QED
    BY <1>1, <1>2

LEMMA TestLives ==
  ASSUME ServerInv, NEW c \in Clients,
         ControllerStep(c) \/ WorkerReport(c) \/ WorkerStops(c)
  PROVE  Life!Work(c)
  <1>0. TypeOK /\ ShownInv
    BY DEF ServerInv
  <1>1. /\ Senders(c) /\ UNCHANGED <<uiVars, exited>>
        /\ Alive(c)' => Alive(c)
        /\ unread' = unread \/ unread' = [unread EXCEPT ![c] = unread[c] + 1]
    BY <1>0, TestWorks
  <1>2. ~exited
    BY <1>0, <1>1, InHand
  <1>3. ASSUME NEW d \in Clients, d # c
        PROVE  (Alive(d)' <=> Alive(d)) /\ (Senders(d)' <=> Senders(d))
    BY <1>0, <1>3, OthersStay DEF Alive, Senders, Working
  <1>4. AliveTests' \in {AliveTests, AliveTests \ {c}}
    BY <1>1, <1>3 DEF AliveTests
  <1>5. WritingTests' \in {WritingTests, WritingTests \ {c}} /\ c \in WritingTests
    BY <1>1, <1>3 DEF WritingTests
  <1>6. AliveTests' \subseteq WritingTests'
    BY DEF AliveTests, WritingTests, Senders
  <1>7. Line' = Line /\ shown' = shown
    BY <1>1 DEF Line, uiVars
  <1> QED
    BY <1>1, <1>2, <1>4, <1>5, <1>6, <1>7 DEF Life!Work, AliveTests, WritingTests, Line

LEMMA AnnounceLives ==
  ASSUME ServerInv, NEW c \in Clients, Announce(c)
  PROVE  Life!Begin(c)
  <1>0. TypeOK /\ ShownInv /\ ShownOf(c) /\ NotLeftEarly
    BY ShownSplit DEF ServerInv
  <1>1. /\ lpc = "announce" /\ lconn = Control(c) /\ port = <<>> /\ port' = Append(port, c)
        /\ tpc' = [tpc EXCEPT ![c] = "start"]
        /\ UNCHANGED <<worker, unread, ui, shown, exited>>
    BY DEF Announce, Goto
  <1>2. tpc[c] = "none"
    BY <1>1 DEF ServerInv, ControlInv
  <1>3. ~exited /\ c \notin shown /\ ui # c
    BY <1>0, <1>1, <1>2 DEF NotLeftEarly, ShownOf, Handed
  <1>4. AliveTests = {}
    BY <1>1 DEF AliveTests, ServerInv, FlightInv
  <1>5. AliveTests' = {c}
    <2>1. \A d \in Clients : Alive(d)' <=> d = c
      BY <1>0, <1>1, <1>4 DEF TypeOK, AliveTests, Alive
    <2> QED
      BY <2>1 DEF AliveTests
  <1>6. WritingTests' = WritingTests \cup {c}
    <2>1. \A d \in Clients : Senders(d)' <=> Senders(d) \/ d = c
      BY <1>0, <1>1 DEF TypeOK, Senders, Alive, Working
    <2> QED
      BY <2>1 DEF WritingTests
  <1>7. /\ Line \in Seq(Clients) /\ Len(Line) <= 1 /\ Line' = Append(Line, c)
        /\ \A i \in DOMAIN Line : Line[i] # c
    <2>1. port' = <<c>> /\ port = <<>>
      BY <1>1
    <2>2. CASE ui = NoTest
      <3>1. Line = <<>> /\ Line' = <<c>>
        BY <1>1, <2>1, <2>2 DEF Line
      <3> QED
        BY <3>1
    <2>3. CASE ui # NoTest
      <3>1. Line = <<ui>> \o <<>> /\ Line' = <<ui>> \o <<c>> /\ ui \in Clients
        BY <1>0, <1>1, <2>1, <2>3 DEF Line, TypeOK
      <3> QED
        BY <1>3, <3>1, TwoLong
    <2> QED
      BY <2>2, <2>3
  <1> QED
    BY <1>1, <1>3, <1>4, <1>5, <1>6, <1>7 DEF Life!Begin, AliveTests, WritingTests, Line

\* The steps of the user interface: taking a test changes nothing for whoever
\* waits for its statistics.
LEMMA InterfaceLives ==
  ASSUME ServerInv, UserInterface
  PROVE  \/ Life!PrintReport \/ Life!Printed \/ Life!Return
         \/ UNCHANGED <<AliveTests, WritingTests, Line, unread, shown, exited>>
  <1>0. TypeOK /\ ShownInv /\ NotLeftEarly /\ \A c \in Clients : ShownOf(c)
    BY ShownSplit DEF ServerInv
  <1>1. UNCHANGED <<lpc, tpc, worker>>
    BY InterfaceFrame DEF listenerVars
  <1>2. AliveTests' = AliveTests /\ WritingTests' = WritingTests
    BY <1>1 DEF AliveTests, WritingTests, Senders, Alive, Working
  <1>3. port \in Seq(Clients) /\ Len(port) <= 1
    BY <1>0 DEF TypeOK
  <1>4. CASE TakeTest
    <2>1. /\ ui = NoTest /\ port # <<>> /\ ui' = Head(port) /\ port' = Tail(port)
          /\ UNCHANGED <<unread, shown, exited>>
      BY <1>4 DEF TakeTest, testVars
    <2>2. port = <<ui'>> /\ port' = <<>> /\ ui' \in Clients
      BY <1>3, <2>1, OneLong
    <2>3. Line = <<>> \o port /\ Line' = <<ui'>> \o port'
      BY <2>1, <2>2, NoTestApart DEF Line
    <2>4. Line' = Line
      BY <2>2, <2>3
    <2> QED
      BY <1>2, <2>1, <2>4
  <1>5. ASSUME ui # NoTest
        PROVE  ui \in Clients /\ ~exited /\ Line # <<>> /\ Head(Line) = ui /\ Tail(Line) = port
    <2>1. ui \in Clients /\ ~exited
      BY <1>0, <1>5 DEF TypeOK, NotLeftEarly
    <2>2. Line = <<ui>> \o port
      BY <1>5 DEF Line
    <2> QED
      BY <1>3, <2>1, <2>2, LineFacts
  <1>6. CASE PrintStats
    <2>1. /\ ui # NoTest /\ unread[ui] > 0 /\ unread' = [unread EXCEPT ![ui] = unread[ui] - 1]
          /\ UNCHANGED <<ui, port, shown, exited>>
      BY <1>6 DEF PrintStats, uiVars
    <2>2. Line' = Line
      BY <2>1 DEF Line
    <2> QED
      BY <1>2, <1>5, <2>1, <2>2 DEF Life!PrintReport, AliveTests, WritingTests, Line
  <1>7. CASE EndOfStats
    <2>1. /\ ui # NoTest /\ unread[ui] = 0 /\ ~Senders(ui)
          /\ ui' = NoTest /\ shown' = shown \cup {ui} /\ UNCHANGED <<unread, port, exited>>
      BY <1>7 DEF EndOfStats, testVars
    <2>2. Line' = port
      BY <1>3, <2>1 DEF Line
    <2>3. Line' = Tail(Line) /\ Head(Line) \notin WritingTests
      BY <1>5, <2>1, <2>2 DEF WritingTests
    <2> QED
      BY <1>2, <1>5, <2>1, <2>3 DEF Life!Printed, AliveTests, WritingTests, Line
  <1>8. CASE Exit
    <2>1. /\ port = <<>> /\ ui = NoTest /\ ~exited /\ exited'
          /\ UNCHANGED <<unread, ui, port, shown>>
      BY <1>8 DEF Exit, testVars, uiVars
    <2>2. Line = <<>> /\ Line' = Line
      BY <2>1 DEF Line
    <2>3. WritingTests = {}
      BY <1>0, <2>1, InHand DEF WritingTests
    <2>4. exited' = TRUE
      BY <1>8 DEF Exit
    <2> QED
      BY <1>2, <2>1, <2>2, <2>3, <2>4 DEF Life!Return, AliveTests, WritingTests, Line
  <1> QED
    BY <1>4, <1>6, <1>7, <1>8 DEF UserInterface

\* A server with its listener, tests, workers, clients and user interface implements
\* ServerLife: one test runs at a time, its statistics are printed in turn and
\* whole, and nothing is left to print when main returns (start_server, run_server).
THEOREM ServedInTurn == Spec => ServesInTurn
  <1> DEFINE shows == <<AliveTests, WritingTests, Line, unread, shown, exited>>
  <1>1. Init => Life!Init
    <2> SUFFICES ASSUME Init PROVE Life!Init
      OBVIOUS
    <2>1. \A c \in Clients : ~Alive(c) /\ ~Senders(c)
      BY DEF Init, Alive, Senders, Working
    <2>2. Line = <<>>
      BY DEF Init, Line
    <2> QED
      BY <2>1, <2>2 DEF Init, Life!Init, Line
  <1>2. ServerInv /\ [Next]_vars => [Life!Next]_shows
    <2> SUFFICES ASSUME ServerInv, [Next]_vars PROVE [Life!Next]_shows
      OBVIOUS
    <2>1. ASSUME UNCHANGED <<tpc, worker, unread, uiVars, exited>> PROVE UNCHANGED shows
      BY <2>1 DEF AliveTests, WritingTests, Senders, Alive, Working, Line, uiVars
    <2>2. ASSUME NEW c \in Clients, StartClient(c) \/ ClientStep(c) \/ Die(c)
          PROVE  UNCHANGED shows
      BY <2>1, <2>2, ClientFrame DEF testVars
    <2>3. ASSUME AcceptInFlight \/ CheckHello \/ AcceptFresh \/ FreshHello \/ FreshParameters
                   \/ StopListening \/ CtrlC \/ UNCHANGED vars
          PROVE  UNCHANGED shows
      BY <2>1, <2>3 DEF AcceptInFlight, CheckHello, AcceptFresh, FreshHello, FreshParameters,
                        StopListening, CtrlC, testVars, vars
    <2>4. ASSUME NEW c \in Clients, ControllerStep(c) \/ WorkerReport(c) \/ WorkerStops(c)
          PROVE  Life!Next
      BY <2>4, TestLives DEF Life!Next
    <2>5. ASSUME NEW c \in Clients, Announce(c) PROVE Life!Next
      BY <2>5, AnnounceLives DEF Life!Next
    <2>6. ASSUME UserInterface PROVE [Life!Next]_shows
      BY <2>6, InterfaceLives DEF Life!Next
    <2> HIDE DEF shows
    <2> QED
      BY <2>2, <2>3, <2>4, <2>5, <2>6, NextCases
  <1>3. [Life!Next]_shows => [Life!Next]_Life!vars
    BY DEF Life!vars, AliveTests, WritingTests, Line
  <1> QED
    BY <1>1, <1>2, <1>3, ServerInvariance, PTL DEF Spec, ServesInTurn, Life!Spec
=============================================================================
