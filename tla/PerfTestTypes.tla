--------------------------- MODULE PerfTestTypes ---------------------------
(***************************************************************************)
(* Type correctness of PerfTest, one group of variables at a time. Types   *)
(* rest on the numbering of the streams: that stream_index never passes    *)
(* the number of streams is a consequence of the whole invariant.          *)
(***************************************************************************)
EXTENDS PerfTestInv, StreamPlanProofs

(* Numbers, messages and channels.                                         *)

LEMMA TotalNat == Total \in Nat
  BY TotalIsU16, U16Positive, ConstantsAssumption DEF Total, Roles

LEMMA IdsNat == Total \in Nat /\ \A i : i \in Ids <=> i \in Nat /\ i < Total
  BY TotalNat DEF Ids

LEMMA MessageTypes ==
  /\ \A s \in States : SetStateMsg(s) \in CtlMsgs
  /\ \A ids \in SUBSET Ids : ResultsMsg(ids) \in CtlMsgs
  /\ \A i \in Ids : CreateStream(i) \in InboxMsgs /\ StreamTerminated(i) \in InboxMsgs
  /\ TerminateMsg \in InboxMsgs
  /\ \A m \in CtlMsgs : m.kind = "SetState" => m.state \in States
  /\ \A m \in CtlMsgs : m.kind = "SendResults" => m.ids \in SUBSET Ids
  /\ \A m \in InboxMsgs : m.kind \in {"CreateStream", "StreamTerminated"} => m.id \in Ids
  BY DEF SetStateMsg, CtlMsgs, ResultsMsg, CreateStream, StreamTerminated, InboxMsgs,
         TerminateMsg

LEMMA AppendType ==
  ASSUME NEW S, NEW q \in Seq(S), NEW e \in S
  PROVE  Append(q, e) \in Seq(S)
  OBVIOUS

LEMMA HeadTailType ==
  ASSUME NEW S, NEW q \in Seq(S), q # <<>>
  PROVE  Head(q) \in S /\ Head(q) = q[1] /\ Tail(q) \in Seq(S) /\ 1 \in DOMAIN q
  OBVIOUS

LEMMA TailIndex ==
  ASSUME NEW S, NEW q \in Seq(S), q # <<>>
  PROVE  \A k \in DOMAIN Tail(q) : /\ k \in Nat /\ k + 1 \in DOMAIN q /\ k + 1 # 1
                                   /\ 1 < k + 1 /\ Tail(q)[k] = q[k + 1]
  OBVIOUS

LEMMA AppendIndex ==
  ASSUME NEW S, NEW q \in Seq(S), NEW e
  PROVE  \A k \in DOMAIN Append(q, e) :
           /\ k \in Nat
           /\ \/ k \in DOMAIN q /\ k < Len(q) + 1 /\ Append(q, e)[k] = q[k]
              \/ k = Len(q) + 1 /\ Append(q, e)[k] = e
  OBVIOUS

\* Every label the actions go to.
LEMMA Labels ==
  /\ "top" \in PCs /\ "connect" \in PCs /\ "hello" \in PCs /\ "welcome" \in PCs
  /\ "poll" \in PCs /\ "select" \in PCs /\ "assign" \in PCs /\ "collect" \in PCs
  /\ "xsend" \in PCs /\ "xread" \in PCs /\ "done" \in PCs /\ "aborted" \in PCs
  BY DEF PCs

LEMMA Phases ==
  /\ "CreateStreams" \in States /\ "Running" \in States
  /\ "ExchangeResults" \in States /\ "Terminate" \in States
  BY DEF States

LEMMA Peers == \A r \in Roles : Peer(r) \in Roles
  BY DEF Peer, Roles

-----------------------------------------------------------------------------
(* Case distinction and frames.                                            *)

LEMMA NextCases ==
  ASSUME Next
  PROVE  \/ Assign \/ TopStart \/ AcceptStream
         \/ TopCreateStreams \/ ConnectStream \/ SendHello \/ AwaitWelcome
         \/ StreamsCreated \/ OnServerMessage
         \/ \E r \in Roles : TopRunning(r)
         \/ \E r \in Roles : TopStopWorkers(r)
         \/ \E r \in Roles : TopNothing(r)
         \/ \E r \in Roles : Poll(r)
         \/ \E r \in Roles : OnStreamTerminated(r)
         \/ \E r \in Roles : OnTerminate(r)
         \/ \E r \in Roles : OnShutdown(r)
         \/ \E r \in Roles, i \in Ids : CollectOne(r, i)
         \/ \E r \in Roles : AllCollected(r)
         \/ \E r \in Roles : SendResults(r)
         \/ \E r \in Roles : ReadResults(r)
         \/ \E r \in Roles : CtrlC(r)
         \/ \E r \in Roles : Crash(r)
         \/ \E r \in Roles : Exit(r)
         \/ \E r \in Roles, i \in Ids : WorkerStep(r, i)
         \/ ListenerStep
         \/ \E s \in Strangers : StrangerConnect(s)
         \/ \E s \in Strangers : StrangerSpeaks(s)
  BY Zenon DEF Next, ControllerStep

LEMMA WorkerFrame ==
  ASSUME NEW r \in Roles, NEW i \in Ids, WorkerStep(r, i)
  PROVE  UNCHANGED <<ctrlVars, ctl, published, workers, index, conn, lstVars, exited>>
  BY DEF WorkerStep, AwaitStart, CheckSignal, TimeUp, StreamClosed

LEMMA ListenerFrame ==
  ASSUME ListenerStep
  PROVE  UNCHANGED <<ctrlVars, ctl, published, workVars, hello, exited>>
  BY DEF ListenerStep, AcceptInFlight, WelcomeStream, RejectStranger, HandshakeFailed,
         AcceptFresh, FreshHello, FreshGiveUp, ListenerShutdown, chanVars

LEMMA StrangerFrame ==
  ASSUME NEW s \in Strangers, StrangerConnect(s) \/ StrangerSpeaks(s)
  PROVE  UNCHANGED <<ctrlVars, chanVars, workVars, lpc, lconn, reply, exited>>
  BY DEF StrangerConnect, StrangerSpeaks

LEMMA ExitFrame ==
  ASSUME NEW r \in Roles, Exit(r)
  PROVE  UNCHANGED <<ctrlVars, chanVars, workVars, lstVars>>
  BY DEF Exit

-----------------------------------------------------------------------------
(* What the helpers leave typed.                                           *)

LEMMA GotoType ==
  ASSUME CtrlTypeOK, NEW r \in Roles, NEW l \in PCs, Goto(r, l)
  PROVE  pc' \in [Roles -> PCs]
  BY DEF CtrlTypeOK, Goto

LEMMA SetStateType ==
  ASSUME CtrlTypeOK, NEW r \in Roles, NEW s \in States, SetState(r, s)
  PROVE  /\ pc' \in [Roles -> PCs]
         /\ state' \in [Roles -> States]
         /\ target' \in States
<1>1. CASE r = "client"
  BY <1>1, GotoType, Labels DEF CtrlTypeOK, SetState
<1>2. CASE target' = s /\ Goto(r, "assign") /\ UNCHANGED state
  BY <1>2, GotoType, Labels DEF CtrlTypeOK
<1>3. CASE Abort(r)
  BY <1>3, GotoType, Labels DEF CtrlTypeOK, Abort
<1>4. QED
  BY <1>1, <1>2, <1>3 DEF SetState

LEMMA WriteCtlType ==
  ASSUME ChanTypeOK, NEW r \in Roles, NEW m \in CtlMsgs, WriteCtl(r, m)
  PROVE  ctl' \in [Roles -> Seq(CtlMsgs)]
<1>1. Peer(r) \in Roles
  BY Peers
<1>2. Append(ctl[Peer(r)], m) \in Seq(CtlMsgs)
  BY <1>1, AppendType DEF ChanTypeOK
<1>3. QED
  BY <1>1, <1>2 DEF ChanTypeOK, WriteCtl

LEMMA SetStateCtl ==
  ASSUME ChanTypeOK, NEW r \in Roles, NEW s \in States, SetState(r, s)
  PROVE  ctl' \in [Roles -> Seq(CtlMsgs)]
<1>1. CASE UNCHANGED ctl
  BY <1>1 DEF ChanTypeOK
<1>2. CASE WriteCtl(r, SetStateMsg(s))
  BY <1>2, WriteCtlType, MessageTypes
<1>3. QED
  BY <1>1, <1>2 DEF SetState, Abort

LEMMA TrySendType ==
  ASSUME ChanTypeOK, NEW r \in Roles, NEW m \in InboxMsgs, TrySend(r, m)
  PROVE  inbox' \in [Roles -> Seq(InboxMsgs)]
<1>1. Append(inbox[r], m) \in Seq(InboxMsgs)
  BY AppendType DEF ChanTypeOK
<1>2. QED
  BY <1>1 DEF ChanTypeOK, TrySend

LEMMA NextMsgType ==
  ASSUME ChanTypeOK, NEW r \in Roles, NEW k, NextMsg(r, k)
  PROVE  /\ inbox' \in [Roles -> Seq(InboxMsgs)]
         /\ Head(inbox[r]) \in InboxMsgs /\ Head(inbox[r]).kind = k
         /\ Head(inbox[r]) = inbox[r][1] /\ 1 \in DOMAIN inbox[r]
<1>1. /\ Head(inbox[r]) \in InboxMsgs /\ Tail(inbox[r]) \in Seq(InboxMsgs)
      /\ Head(inbox[r]) = inbox[r][1] /\ 1 \in DOMAIN inbox[r]
  BY HeadTailType DEF ChanTypeOK, NextMsg
<1>2. QED
  BY <1>1 DEF ChanTypeOK, NextMsg

LEMMA PublishType ==
  ASSUME ChanTypeOK, NEW r \in Roles, NEW g \in Signals,
         published' = [published EXCEPT ![r] = Append(@, g)]
  PROVE  published' \in [Roles -> Seq(Signals)]
<1>1. Append(published[r], g) \in Seq(Signals)
  BY AppendType DEF ChanTypeOK
<1>2. QED
  BY <1>1 DEF ChanTypeOK

LEMMA RegisterType ==
  ASSUME ChanTypeOK, WorkTypeOK, NEW r \in Roles, NEW c \in Ids, index[r] \in Ids,
         Register(r, c)
  PROVE  WorkTypeOK'
<1>1. index[r] + 1 \in 0 .. Total
  BY IdsNat
<1>2. Len(published[r]) \in Nat
  BY DEF ChanTypeOK
<1>3. "waiting" \in TaskStates
  BY DEF TaskStates
<1>4. /\ workers' \in [Roles -> SUBSET Ids]
      /\ index' \in [Roles -> 0 .. Total]
  BY <1>1 DEF WorkTypeOK, Register
<1>5. /\ task' \in [Roles -> [Ids -> TaskStates]]
      /\ seen' \in [Roles -> [Ids -> Nat]]
      /\ conn' \in [Roles -> [Ids -> Ids \cup {NoStream}]]
  BY <1>2, <1>3 DEF WorkTypeOK, Register
<1>6. QED
  BY <1>4, <1>5 DEF WorkTypeOK

LEMMA ReturnType ==
  ASSUME ChanTypeOK, WorkTypeOK, NEW r \in Roles, NEW i \in Ids,
         NEW o \in {"ok", "err"}, Return(r, i, o)
  PROVE  /\ inbox' \in [Roles -> Seq(InboxMsgs)]
         /\ task' \in [Roles -> [Ids -> TaskStates]]
<1>1. inbox' \in [Roles -> Seq(InboxMsgs)]
  BY MessageTypes, TrySendType DEF ChanTypeOK, Return
<1>2. o \in TaskStates
  BY DEF TaskStates
<1>3. QED
  BY <1>1, <1>2 DEF WorkTypeOK, Return

\* The server's controller has a number left for every stream in its inbox.
LEMMA RoomForStream ==
  ASSUME IndInv, NextMsg("server", "CreateStream")
  PROVE  /\ Head(inbox["server"]).id \in Ids /\ index["server"] \in Ids
         /\ CreateAt(1) /\ inbox["server"][1] = Head(inbox["server"])
<1> DEFINE m == Head(inbox["server"])
<1>1. ChanTypeOK /\ index["server"] \in 0 .. Total
  BY DEF IndInv, TypeOK, WorkTypeOK, Roles
<1>2. /\ m \in InboxMsgs /\ m.kind = "CreateStream" /\ m = inbox["server"][1]
      /\ 1 \in DOMAIN inbox["server"] /\ CreateAt(1)
  BY <1>1, NextMsgType DEF CreateAt, Roles
<1>3. m.id \in Ids
  BY <1>2, MessageTypes
<1>4. index["server"] \in Ids
  <2>1. CASE index["server"] = 0
    BY <1>3, <2>1, IdsNat
  <2>2. CASE index["server"] > 0
    <3> DEFINE j == index["server"] - 1
    <3>1. j \in Ids /\ j < index["server"]
      BY <1>1, <2>2, IdsNat
    <3>2. conn["server"][j] \in Ids /\ j <= conn["server"][j] /\ conn["server"][j] < m.id
      BY <3>1, <1>2 DEF IndInv, NumberingInv
    <3>3. QED
      BY <1>1, <1>3, <3>1, <3>2, IdsNat
  <2>3. QED
    BY <1>1, <2>1, <2>2, IdsNat
<1>5. QED
  BY <1>2, <1>3, <1>4

\* The client has a number left for the stream it is connecting.
LEMMA RoomToConnect ==
  ASSUME IndInv, pc["client"] \in {"hello", "welcome"} \/ index["client"] < Total
  PROVE  index["client"] \in Ids /\ index["client"] \in Conns
  BY IdsNat DEF IndInv, ConnectingInv, TypeOK, WorkTypeOK, Conns, Roles

-----------------------------------------------------------------------------
(* The groups of TypeOK, preserved by every step.                          *)

LEMMA CtrlTypeStep ==
  ASSUME IndInv, Next
  PROVE  CtrlTypeOK'
<1>0. CtrlTypeOK /\ ChanTypeOK
  BY DEF IndInv, TypeOK
<1>1. ASSUME UNCHANGED <<state, old, target, results, peerResults, shutdown>>,
             NEW r \in Roles, NEW l \in PCs, Goto(r, l)
      PROVE  CtrlTypeOK'
  BY <1>0, <1>1, GotoType DEF CtrlTypeOK
<1>2. ASSUME UNCHANGED <<old, results, peerResults, shutdown>>,
             NEW r \in Roles, NEW s \in States, SetState(r, s)
      PROVE  CtrlTypeOK'
  BY <1>0, <1>2, SetStateType DEF CtrlTypeOK
<1>3. ASSUME UNCHANGED ctrlVars PROVE CtrlTypeOK'
  BY <1>0, <1>3 DEF ctrlVars, CtrlTypeOK
<1>4. "client" \in Roles /\ "server" \in Roles
  BY DEF Roles
<1>5. CASE Assign
  <2>1. pc' \in [Roles -> PCs]
    BY <1>0, <1>4, <1>5, GotoType, Labels DEF Assign
  <2>2. QED
    BY <1>0, <1>4, <1>5, <2>1 DEF CtrlTypeOK, Assign
<1>6. CASE TopStart
  BY <1>2, <1>4, <1>6, Phases DEF TopStart
<1>7. CASE AcceptStream
  <2>1. CASE SetState("server", "Running")
    BY <1>2, <1>4, <1>7, <2>1, Phases DEF AcceptStream
  <2>2. CASE Goto("server", "top") /\ UNCHANGED <<state, target, ctl>>
    BY <1>1, <1>4, <1>7, <2>2, Labels DEF AcceptStream
  <2>3. QED
    BY <1>7, <2>1, <2>2 DEF AcceptStream
<1>8. CASE TopCreateStreams \/ ConnectStream \/ SendHello \/ AwaitWelcome \/ StreamsCreated
  BY <1>1, <1>4, <1>8, Labels
     DEF TopCreateStreams, ConnectStream, SendHello, AwaitWelcome, StreamsCreated
<1>9. CASE OnServerMessage
  <2>1. CASE Abort("client")
    BY <1>1, <1>4, <1>9, <2>1, Labels DEF OnServerMessage, Abort
  <2>2. CASE ctl["client"] # <<>> /\ UNCHANGED target /\ Goto("client", "top")
    <3>1. pc' \in [Roles -> PCs]
      BY <1>0, <1>4, <2>2, GotoType, Labels
    <3>2. Head(ctl["client"]) \in CtlMsgs
      BY <1>0, <1>4, <2>2, HeadTailType DEF ChanTypeOK
    <3>3. Head(ctl["client"]).kind = "SetState" => Head(ctl["client"]).state \in States
      BY <3>2, MessageTypes
    <3>4. state' \in [Roles -> States]
      BY <1>0, <1>4, <1>9, <3>3 DEF CtrlTypeOK, OnServerMessage, Abort
    <3>5. QED
      BY <1>0, <1>9, <2>2, <3>1, <3>4 DEF CtrlTypeOK, OnServerMessage
  <2>3. QED
    BY <1>9, <2>1, <2>2 DEF OnServerMessage
<1>10. ASSUME NEW r \in Roles, TopRunning(r) \/ TopStopWorkers(r) \/ TopNothing(r)
       PROVE  CtrlTypeOK'
  BY <1>1, <1>10, Labels DEF TopRunning, TopStopWorkers, TopNothing, chanVars
<1>11. ASSUME NEW r \in Roles, Poll(r) PROVE CtrlTypeOK'
  <2>1. pc' \in [Roles -> PCs]
    BY <1>0, <1>11, GotoType, Labels DEF Poll
  <2>2. old' \in [Roles -> States] /\ shutdown' \in [Roles -> {"none", "pending", "seen"}]
    BY <1>0, <1>11 DEF CtrlTypeOK, Poll
  <2>3. QED
    BY <1>0, <1>11, <2>1, <2>2 DEF CtrlTypeOK, Poll
<1>12. ASSUME NEW r \in Roles, OnStreamTerminated(r) PROVE CtrlTypeOK'
  <2> DEFINE i == Head(inbox[r]).id
  <2>1. i \in Ids
    BY <1>0, <1>12, NextMsgType, MessageTypes DEF OnStreamTerminated
  <2>2. results' \in [Roles -> SUBSET Ids]
    BY <1>0, <1>12, <2>1 DEF CtrlTypeOK, OnStreamTerminated, Collect
  <2>3. SetState(r, "ExchangeResults") \/ (Goto(r, "top") /\ UNCHANGED <<state, target, ctl>>)
    BY <1>12 DEF OnStreamTerminated
  <2>4. pc' \in [Roles -> PCs] /\ state' \in [Roles -> States] /\ target' \in States
    BY <1>0, <2>3, SetStateType, GotoType, Labels, Phases DEF CtrlTypeOK
  <2>5. QED
    BY <1>0, <1>12, <2>2, <2>4 DEF CtrlTypeOK, OnStreamTerminated
<1>13. ASSUME NEW r \in Roles, OnTerminate(r) PROVE CtrlTypeOK'
  BY <1>2, <1>13, Phases DEF OnTerminate
<1>14. ASSUME NEW r \in Roles, OnShutdown(r) PROVE CtrlTypeOK'
  <2>1. pc' \in [Roles -> PCs] /\ state' \in [Roles -> States] /\ target' \in States
    BY <1>0, <1>14, SetStateType, Phases DEF OnShutdown
  <2>2. QED
    BY <1>0, <1>14, <2>1 DEF CtrlTypeOK, OnShutdown
<1>15. ASSUME NEW r \in Roles, NEW i \in Ids, CollectOne(r, i) PROVE CtrlTypeOK'
  BY <1>0, <1>15 DEF CtrlTypeOK, CollectOne, Collect
<1>16. ASSUME NEW r \in Roles, AllCollected(r) PROVE CtrlTypeOK'
  <2>1. AfterCollect(r) \in PCs
    BY Labels DEF AfterCollect
  <2>2. QED
    BY <1>1, <1>16, <2>1 DEF AllCollected
<1>17. ASSUME NEW r \in Roles, SendResults(r) PROVE CtrlTypeOK'
  BY <1>1, <1>17, Labels DEF SendResults
<1>18. ASSUME NEW r \in Roles, ReadResults(r) PROVE CtrlTypeOK'
  <2>1. pc' \in [Roles -> PCs]
    BY <1>0, <1>18, GotoType, Labels DEF ReadResults
  <2>2. ctl[r] # <<>> => Head(ctl[r]) \in CtlMsgs
    BY <1>0, HeadTailType DEF ChanTypeOK
  <2>3. peerResults' \in [Roles -> SUBSET Ids]
    BY <1>0, <1>18, <2>2, MessageTypes DEF CtrlTypeOK, ReadResults
  <2>4. QED
    BY <1>0, <1>18, <2>1, <2>3 DEF CtrlTypeOK, ReadResults
<1>19. ASSUME NEW r \in Roles, CtrlC(r) PROVE CtrlTypeOK'
  BY <1>0, <1>19 DEF CtrlTypeOK, CtrlC
<1>20. ASSUME NEW r \in Roles, Crash(r) PROVE CtrlTypeOK'
  BY <1>0, <1>20, Labels DEF CtrlTypeOK, Crash
<1>21. ASSUME NEW r \in Roles, Exit(r) PROVE CtrlTypeOK'
  BY <1>3, <1>21, ExitFrame
<1>22. ASSUME NEW r \in Roles, NEW i \in Ids, WorkerStep(r, i) PROVE CtrlTypeOK'
  BY <1>3, <1>22, WorkerFrame
<1>23. CASE ListenerStep
  BY <1>3, <1>23, ListenerFrame
<1>24. ASSUME NEW s \in Strangers, StrangerConnect(s) \/ StrangerSpeaks(s)
       PROVE  CtrlTypeOK'
  BY <1>3, <1>24, StrangerFrame
<1>25. QED
  BY NextCases, <1>5, <1>6, <1>7, <1>8, <1>9, <1>10, <1>11, <1>12, <1>13, <1>14, <1>15,
     <1>16, <1>17, <1>18, <1>19, <1>20, <1>21, <1>22, <1>23, <1>24

LEMMA ChanTypeStep ==
  ASSUME IndInv, Next
  PROVE  ChanTypeOK'
<1>0. CtrlTypeOK /\ ChanTypeOK /\ WorkTypeOK
  BY DEF IndInv, TypeOK
<1>1. ASSUME UNCHANGED chanVars PROVE ChanTypeOK'
  BY <1>0, <1>1 DEF ChanTypeOK, chanVars
<1>2. ASSUME NEW r \in Roles, NEW s \in States, SetState(r, s), UNCHANGED published,
             inbox' \in [Roles -> Seq(InboxMsgs)]
      PROVE  ChanTypeOK'
  BY <1>0, <1>2, SetStateCtl DEF ChanTypeOK
<1>3. ASSUME UNCHANGED <<ctl, published>>, inbox' \in [Roles -> Seq(InboxMsgs)]
      PROVE  ChanTypeOK'
  BY <1>0, <1>3 DEF ChanTypeOK
<1>4. "client" \in Roles /\ "server" \in Roles
  BY DEF Roles
<1>5. CASE Assign \/ TopCreateStreams \/ ConnectStream \/ SendHello \/ AwaitWelcome
           \/ StreamsCreated
  BY <1>1, <1>5 DEF Assign, TopCreateStreams, ConnectStream, SendHello, AwaitWelcome,
                    StreamsCreated
<1>6. CASE TopStart
  BY <1>0, <1>2, <1>4, <1>6, Phases DEF TopStart, ChanTypeOK
<1>7. CASE AcceptStream
  <2>1. inbox' \in [Roles -> Seq(InboxMsgs)]
    BY <1>0, <1>4, <1>7, NextMsgType DEF AcceptStream
  <2>2. CASE SetState("server", "Running")
    BY <1>2, <1>4, <1>7, <2>1, <2>2, Phases DEF AcceptStream
  <2>3. CASE UNCHANGED <<state, target, ctl>>
    BY <1>3, <1>7, <2>1, <2>3 DEF AcceptStream
  <2>4. QED
    BY <1>7, <2>2, <2>3 DEF AcceptStream
<1>8. CASE OnServerMessage
  <2>1. CASE Abort("client")
    BY <1>1, <1>8, <2>1 DEF OnServerMessage, Abort, chanVars
  <2>2. CASE ctl["client"] # <<>> /\ ctl' = [ctl EXCEPT !["client"] = Tail(@)]
    <3>1. Tail(ctl["client"]) \in Seq(CtlMsgs)
      BY <1>0, <1>4, <2>2, HeadTailType DEF ChanTypeOK
    <3>2. QED
      BY <1>0, <1>8, <2>2, <3>1 DEF OnServerMessage, ChanTypeOK
  <2>3. QED
    BY <1>8, <2>1, <2>2 DEF OnServerMessage
<1>9. ASSUME NEW r \in Roles, TopRunning(r) PROVE ChanTypeOK'
  <2>1. published' \in [Roles -> Seq(Signals)]
    BY <1>0, <1>9, PublishType DEF TopRunning, ChanTypeOK, Signals
  <2>2. QED
    BY <1>0, <1>9, <2>1 DEF ChanTypeOK, TopRunning
<1>10. ASSUME NEW r \in Roles, TopStopWorkers(r) PROVE ChanTypeOK'
  <2>1. published' \in [Roles -> Seq(Signals)]
    BY <1>0, <1>10, PublishType DEF TopStopWorkers, ChanTypeOK, Signals
  <2>2. QED
    BY <1>0, <1>10, <2>1 DEF ChanTypeOK, TopStopWorkers
<1>11. ASSUME NEW r \in Roles, TopNothing(r) \/ AllCollected(r) \/ CtrlC(r) \/ Exit(r)
       PROVE  ChanTypeOK'
  BY <1>1, <1>11, ExitFrame DEF TopNothing, AllCollected, CtrlC
<1>12. ASSUME NEW r \in Roles, Poll(r) PROVE ChanTypeOK'
  <2>1. inbox' \in [Roles -> Seq(InboxMsgs)]
    BY <1>0, <1>12, TrySendType, MessageTypes DEF ChanTypeOK, Poll
  <2>2. QED
    BY <1>3, <1>12, <2>1 DEF Poll
<1>13. ASSUME NEW r \in Roles, OnStreamTerminated(r) PROVE ChanTypeOK'
  <2>1. inbox' \in [Roles -> Seq(InboxMsgs)]
    BY <1>0, <1>13, NextMsgType DEF OnStreamTerminated
  <2>2. CASE SetState(r, "ExchangeResults")
    BY <1>2, <1>13, <2>1, <2>2, Phases DEF OnStreamTerminated
  <2>3. CASE UNCHANGED <<state, target, ctl>>
    BY <1>3, <1>13, <2>1, <2>3 DEF OnStreamTerminated
  <2>4. QED
    BY <1>13, <2>2, <2>3 DEF OnStreamTerminated
<1>14. ASSUME NEW r \in Roles, OnTerminate(r) PROVE ChanTypeOK'
  <2>1. inbox' \in [Roles -> Seq(InboxMsgs)]
    BY <1>0, <1>14, NextMsgType DEF OnTerminate
  <2>2. QED
    BY <1>2, <1>14, <2>1, Phases DEF OnTerminate
<1>15. ASSUME NEW r \in Roles, OnShutdown(r) PROVE ChanTypeOK'
  BY <1>0, <1>2, <1>15, Phases DEF OnShutdown, ChanTypeOK
<1>16. ASSUME NEW r \in Roles, NEW i \in Ids, CollectOne(r, i) PROVE ChanTypeOK'
  BY <1>1, <1>16 DEF CollectOne
<1>17. ASSUME NEW r \in Roles, SendResults(r) PROVE ChanTypeOK'
  <2>1. ResultsMsg(results[r]) \in CtlMsgs
    BY <1>0, MessageTypes DEF CtrlTypeOK
  <2>2. ctl' \in [Roles -> Seq(CtlMsgs)]
    BY <1>0, <1>17, <2>1, WriteCtlType DEF SendResults, ChanTypeOK
  <2>3. QED
    BY <1>0, <1>17, <2>2 DEF SendResults, ChanTypeOK
<1>18. ASSUME NEW r \in Roles, ReadResults(r) PROVE ChanTypeOK'
  <2>1. ctl[r] # <<>> => Tail(ctl[r]) \in Seq(CtlMsgs)
    BY <1>0, HeadTailType DEF ChanTypeOK
  <2>2. ctl' \in [Roles -> Seq(CtlMsgs)]
    BY <1>0, <1>18, <2>1 DEF ReadResults, ChanTypeOK
  <2>3. QED
    BY <1>0, <1>18, <2>2 DEF ReadResults, ChanTypeOK
<1>19. ASSUME NEW r \in Roles, Crash(r) PROVE ChanTypeOK'
  BY <1>1, <1>19 DEF Crash
<1>20. ASSUME NEW r \in Roles, NEW i \in Ids, WorkerStep(r, i) PROVE ChanTypeOK'
  <2>1. UNCHANGED inbox \/ \E o \in {"ok", "err"} : Return(r, i, o)
    BY <1>20 DEF WorkerStep, AwaitStart, CheckSignal, TimeUp, StreamClosed, ClosedOutcome
  <2>2. inbox' \in [Roles -> Seq(InboxMsgs)]
    BY <1>0, <2>1, ReturnType DEF ChanTypeOK
  <2>3. QED
    BY <1>3, <1>20, <2>2, WorkerFrame
<1>21. CASE ListenerStep
  <2>1. CASE WelcomeStream
    <3>1. inbox' \in [Roles -> Seq(InboxMsgs)]
      BY <1>0, <1>4, <2>1, TrySendType, MessageTypes DEF WelcomeStream, CookieMatches
    <3>2. QED
      BY <1>3, <2>1, <3>1 DEF WelcomeStream
  <2>2. CASE HandshakeFailed
    <3>1. inbox' \in [Roles -> Seq(InboxMsgs)]
      BY <1>0, <1>4, <2>2, TrySendType, MessageTypes DEF HandshakeFailed
    <3>2. QED
      BY <1>3, <2>2, <3>1 DEF HandshakeFailed
  <2>3. CASE UNCHANGED chanVars
    BY <1>1, <2>3
  <2>4. QED
    BY <1>21, <2>1, <2>2, <2>3 DEF ListenerStep, AcceptInFlight, RejectStranger,
       AcceptFresh, FreshHello, FreshGiveUp, ListenerShutdown
<1>22. ASSUME NEW s \in Strangers, StrangerConnect(s) \/ StrangerSpeaks(s)
       PROVE  ChanTypeOK'
  BY <1>1, <1>22, StrangerFrame
<1>23. QED
  BY NextCases, <1>5, <1>6, <1>7, <1>8, <1>9, <1>10, <1>11, <1>12, <1>13, <1>14, <1>15,
     <1>16, <1>17, <1>18, <1>19, <1>20, <1>21, <1>22

\* Which steps touch the workers.
LEMMA WorkFrame ==
  ASSUME Next
  PROVE  \/ UNCHANGED workVars
         \/ AcceptStream
         \/ AwaitWelcome /\ Register("client", index["client"])
         \/ \E r \in Roles : OnStreamTerminated(r)
         \/ \E r \in Roles, i \in Ids : CollectOne(r, i)
         \/ \E r \in Roles : Crash(r)
         \/ \E r \in Roles, i \in Ids : WorkerStep(r, i)
  BY NextCases, ExitFrame, ListenerFrame, StrangerFrame
     DEF Assign, TopStart, TopCreateStreams, ConnectStream, SendHello, AwaitWelcome,
         StreamsCreated, OnServerMessage, TopRunning, TopStopWorkers, TopNothing, Poll,
         OnTerminate, OnShutdown, AllCollected, SendResults, ReadResults, CtrlC

LEMMA WorkTypeStep ==
  ASSUME IndInv, Next
  PROVE  WorkTypeOK'
<1>0. CtrlTypeOK /\ ChanTypeOK /\ WorkTypeOK
  BY DEF IndInv, TypeOK
<1>1. CASE UNCHANGED workVars
  BY <1>0, <1>1 DEF WorkTypeOK, workVars
<1>2. "client" \in Roles /\ "server" \in Roles
  BY DEF Roles
<1>3. CASE AcceptStream
  <2>1. Head(inbox["server"]).id \in Ids /\ index["server"] \in Ids
    BY <1>3, RoomForStream DEF AcceptStream
  <2>2. QED
    BY <1>0, <1>2, <1>3, <2>1, RegisterType DEF AcceptStream
<1>4. CASE AwaitWelcome /\ Register("client", index["client"])
  BY <1>0, <1>2, <1>4, RegisterType, RoomToConnect DEF AwaitWelcome
<1>5. ASSUME NEW r \in Roles, OnStreamTerminated(r) PROVE WorkTypeOK'
  BY <1>0, <1>5 DEF OnStreamTerminated, Collect, WorkTypeOK
<1>6. ASSUME NEW r \in Roles, NEW i \in Ids, CollectOne(r, i) PROVE WorkTypeOK'
  BY <1>0, <1>6 DEF CollectOne, Collect, WorkTypeOK
<1>7. ASSUME NEW r \in Roles, Crash(r) PROVE WorkTypeOK'
  <2>1. task' \in [Roles -> [Ids -> TaskStates]]
    BY <1>0, <1>7 DEF Crash, WorkTypeOK, TaskStates
  <2>2. QED
    BY <1>0, <1>7, <2>1 DEF Crash, WorkTypeOK
<1>8. ASSUME NEW r \in Roles, NEW i \in Ids, WorkerStep(r, i) PROVE WorkTypeOK'
  <2>1. CASE UNCHANGED seen /\ \E o \in {"ok", "err"} : Return(r, i, o)
    <3>1. task' \in [Roles -> [Ids -> TaskStates]]
      BY <1>0, <2>1, ReturnType
    <3>2. QED
      BY <1>0, <1>8, <2>1, <3>1, WorkerFrame DEF WorkTypeOK
  <2>2. CASE /\ task' = [task EXCEPT ![r][i] = "running"]
             /\ seen' = [seen EXCEPT ![r][i] = @ + 1]
    <3>1. "running" \in TaskStates /\ seen[r][i] + 1 \in Nat
      BY <1>0 DEF TaskStates, WorkTypeOK
    <3>2. task' \in [Roles -> [Ids -> TaskStates]] /\ seen' \in [Roles -> [Ids -> Nat]]
      BY <1>0, <2>2, <3>1 DEF WorkTypeOK
    <3>3. QED
      BY <1>0, <1>8, <3>2, WorkerFrame DEF WorkTypeOK
  <2>3. QED
    BY <1>8, <2>1, <2>2
       DEF WorkerStep, AwaitStart, CheckSignal, TimeUp, StreamClosed, ClosedOutcome
<1>9. QED
  BY WorkFrame, <1>1, <1>3, <1>4, <1>5, <1>6, <1>7, <1>8

\* Which steps touch the listener and the connections.
LEMMA LstFrame ==
  ASSUME Next
  PROVE  \/ UNCHANGED lstVars
         \/ ConnectStream /\ Goto("client", "hello")
         \/ SendHello
         \/ \E r \in Roles : Crash(r)
         \/ ListenerStep
         \/ \E s \in Strangers : StrangerConnect(s)
         \/ \E s \in Strangers : StrangerSpeaks(s)
  BY NextCases, ExitFrame, WorkerFrame
     DEF Assign, TopStart, TopCreateStreams, ConnectStream, AwaitWelcome, AcceptStream,
         StreamsCreated, OnServerMessage, TopRunning, TopStopWorkers, TopNothing, Poll,
         OnStreamTerminated, CollectOne,
         OnTerminate, OnShutdown, AllCollected, SendResults, ReadResults, CtrlC, lstVars

LEMMA ListenerTypeStep ==
  ASSUME IndInv, Next
  PROVE  ListenerTypeOK'
<1>0. ListenerTypeOK
  BY DEF IndInv, TypeOK
<1>1. CASE UNCHANGED lstVars
  BY <1>0, <1>1 DEF ListenerTypeOK, lstVars
<1>2. CASE ConnectStream /\ Goto("client", "hello")
  <2>1. index["client"] \in Conns
    BY <1>2, RoomToConnect DEF ConnectStream
  <2>2. backlog' \in Seq(Conns)
    BY <1>0, <1>2, <2>1, AppendType DEF ConnectStream, ListenerTypeOK
  <2>3. hello' \in [Conns -> {"idle", "open", "sent", "closed"}]
    BY <1>0, <1>2, <2>1 DEF ConnectStream, ListenerTypeOK
  <2>4. QED
    BY <1>0, <1>2, <2>2, <2>3 DEF ConnectStream, ListenerTypeOK
<1>3. CASE SendHello
  BY <1>0, <1>3 DEF SendHello, ListenerTypeOK
<1>4. ASSUME CloseListener, UNCHANGED hello PROVE ListenerTypeOK'
  <2>1. lpc' \in {"accept", "hello", "cookie", "params", "stopped"} /\ lconn' = NoStream
        /\ backlog' \in Seq(Conns)
    BY <1>4 DEF CloseListener
  <2>2. reply' \in [Conns -> {"none", "welcome", "busy", "closed"}]
    BY <1>0, <1>4 DEF CloseListener, ListenerTypeOK
  <2>3. QED
    BY <1>0, <1>4, <2>1, <2>2 DEF ListenerTypeOK
<1>5. ASSUME NEW r \in Roles, Crash(r) PROVE ListenerTypeOK'
  <2>1. CASE CloseClientConns /\ UNCHANGED <<lpc, lconn, backlog, reply>>
    BY <1>0, <2>1 DEF CloseClientConns, ListenerTypeOK
  <2>2. QED
    BY <1>4, <1>5, <2>1 DEF Crash
<1>6. CASE ListenerStep
  <2>1. backlog # <<>> => Head(backlog) \in Conns /\ Tail(backlog) \in Seq(Conns)
    BY <1>0, HeadTailType DEF ListenerTypeOK
  <2>2. CASE AcceptInFlight \/ AcceptFresh
    BY <1>0, <2>1, <2>2 DEF ListenerTypeOK, AcceptInFlight, AcceptFresh, Answer
  <2>3. CASE WelcomeStream \/ RejectStranger \/ HandshakeFailed
    BY <1>0, <2>3 DEF ListenerTypeOK, WelcomeStream, RejectStranger, HandshakeFailed,
                      Answer, BackToAccept
  <2>4. CASE FreshHello \/ FreshGiveUp
    BY <1>0, <2>4 DEF ListenerTypeOK, FreshHello, FreshGiveUp, Answer, BackToAccept
  <2>5. CASE ListenerShutdown
    BY <1>4, <2>5 DEF ListenerShutdown
  <2>6. QED
    BY <1>6, <2>2, <2>3, <2>4, <2>5 DEF ListenerStep
<1>7. ASSUME NEW s \in Strangers, StrangerConnect(s) PROVE ListenerTypeOK'
  <2>1. s \in Conns
    BY DEF Conns
  <2>2. backlog' \in Seq(Conns)
    BY <1>0, <1>7, <2>1, AppendType DEF StrangerConnect, ListenerTypeOK
  <2>3. QED
    BY <1>0, <1>7, <2>2 DEF StrangerConnect, ListenerTypeOK
<1>8. ASSUME NEW s \in Strangers, StrangerSpeaks(s) PROVE ListenerTypeOK'
  BY <1>0, <1>8 DEF StrangerSpeaks, ListenerTypeOK
<1>9. QED
  BY LstFrame, <1>1, <1>2, <1>3, <1>5, <1>6, <1>7, <1>8

LEMMA TypeStep ==
  ASSUME IndInv, Next
  PROVE  TypeOK'
<1>1. exited' \in [Roles -> BOOLEAN]
  <2>1. exited \in [Roles -> BOOLEAN]
    BY DEF IndInv, TypeOK
  <2>2. UNCHANGED exited \/ \E r \in Roles : exited' = [exited EXCEPT ![r] = TRUE]
    BY NextCases, WorkerFrame, ListenerFrame, StrangerFrame
       DEF Assign, TopStart, TopCreateStreams, ConnectStream, SendHello, AwaitWelcome,
           AcceptStream, StreamsCreated, OnServerMessage, TopRunning, TopStopWorkers,
           TopNothing, Poll, OnStreamTerminated, OnTerminate, OnShutdown, CollectOne,
           AllCollected, SendResults, ReadResults, CtrlC, Crash, Exit
  <2>3. QED
    BY <2>1, <2>2
<1>2. QED
  BY <1>1, CtrlTypeStep, ChanTypeStep, WorkTypeStep, ListenerTypeStep DEF TypeOK
=============================================================================
