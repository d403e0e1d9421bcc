--------------------------- MODULE PerfTestProofs ---------------------------
(***************************************************************************)
(* The safety theorems of PerfTest, for every direction, every number of   *)
(* streams, every channel capacity, any strangers and any faults. First    *)
(* the numbering of the streams: every step preserves ConnectingInv,       *)
(* BacklogInv, QueueInv, NumberingInv and WorkersInv; then the rest of     *)
(* IndInv.                                                                 *)
(***************************************************************************)
EXTENDS PerfTestTypes, FiniteSetTheorems

LEMMA TwoRoles == Roles = {"client", "server"} /\ "client" # "server"
  BY DEF Roles

\* Connections of strangers have no number.
LEMMA StrangersApart ==
  /\ \A s \in Strangers : s \notin Ids /\ s \in Conns
  /\ NoStream \notin Ids
  /\ \A c \in Ids : c \in Conns
<1>1. Ids \subseteq Int /\ NoStream \notin Ids
  BY IdsNat DEF NoStream
<1>2. QED
  BY <1>1, ConstantsAssumption DEF Conns

-----------------------------------------------------------------------------
(* What a step may do to the pieces of state the invariants relate.        *)

\* The client's controller connects streams in order, and leaves that only for good.
LEMMA ClientPc ==
  ASSUME IndInv, Next
  PROVE  \/ pc'["client"] = pc["client"]
         \/ pc'["client"] = "aborted"
         \/ /\ pc["client"] \notin {"hello", "welcome", "done", "aborted"}
            /\ pc'["client"] \notin {"hello", "welcome"}
         \/ ConnectStream /\ Goto("client", "hello")
         \/ SendHello
         \/ AwaitWelcome /\ Register("client", index["client"])
<1> DEFINE Kept == \/ pc'["client"] = pc["client"]
                   \/ pc'["client"] = "aborted"
                   \/ /\ pc["client"] \notin {"hello", "welcome", "done", "aborted"}
                      /\ pc'["client"] \notin {"hello", "welcome"}
<1>0. pc \in [Roles -> PCs]
  BY TwoRoles DEF IndInv, TypeOK, CtrlTypeOK
<1>1. ASSUME NEW r \in Roles, NEW l, Goto(r, l),
             r = "client" => /\ pc[r] \in {"top", "poll", "select", "collect", "xsend", "xread"}
                             /\ l \notin {"hello", "welcome"}
      PROVE  Kept
  BY <1>0, <1>1 DEF Goto
<1>2. ASSUME NEW r \in Roles, NEW s, SetState(r, s), pc[r] \in {"top", "select"}
      PROVE  Kept
  BY <1>1, <1>2 DEF SetState, Abort
<1>3. CASE Assign \/ TopStart
  BY <1>0, <1>1, <1>2, <1>3, TwoRoles DEF Assign, TopStart, AtTop
<1>4. CASE AcceptStream
  BY <1>0, <1>1, <1>2, <1>4, TwoRoles DEF AcceptStream, NextMsg
<1>5. CASE TopCreateStreams \/ StreamsCreated
  <2>1. pc["client"] \in {"top", "connect"} /\ pc'["client"] \in {"connect", "poll"}
    BY <1>0, <1>5 DEF TopCreateStreams, StreamsCreated, AtTop, Goto, Roles
  <2>2. QED
    BY <2>1
<1>6. CASE OnServerMessage
  <2>1. pc["client"] = "select" /\ pc'["client"] \in {"top", "aborted"}
    BY <1>0, <1>6 DEF OnServerMessage, Abort, Goto, Roles
  <2>2. QED
    BY <2>1
<1>7. CASE ConnectStream /\ ~Goto("client", "hello")
  BY <1>0, <1>7 DEF ConnectStream, Goto, Roles
<1>8. CASE AwaitWelcome /\ ~Register("client", index["client"])
  BY <1>0, <1>8 DEF AwaitWelcome, Goto, Roles
<1>9. ASSUME NEW r \in Roles, TopRunning(r) \/ TopStopWorkers(r) \/ TopNothing(r)
      PROVE  Kept
  BY <1>1, <1>9 DEF TopRunning, TopStopWorkers, TopNothing, AtTop
<1>10. ASSUME NEW r \in Roles, Poll(r) \/ AllCollected(r) PROVE Kept
  BY <1>1, <1>10 DEF Poll, AllCollected, AfterCollect
<1>11. ASSUME NEW r \in Roles, OnStreamTerminated(r) PROVE Kept
  BY <1>1, <1>2, <1>11 DEF OnStreamTerminated, NextMsg
<1>12. ASSUME NEW r \in Roles, OnTerminate(r) \/ OnShutdown(r) PROVE Kept
  BY <1>2, <1>12 DEF OnTerminate, OnShutdown, NextMsg
<1>13. ASSUME NEW r \in Roles, SendResults(r) \/ ReadResults(r) PROVE Kept
  BY <1>1, <1>13 DEF SendResults, ReadResults
<1>14. ASSUME NEW r \in Roles, Crash(r) PROVE Kept
  BY <1>0, <1>14, TwoRoles DEF Crash
<1>15. CASE UNCHANGED pc
  BY <1>15
<1>16. QED
  BY NextCases, <1>3, <1>4, <1>5, <1>6, <1>7, <1>8, <1>9, <1>10, <1>11, <1>12, <1>13,
     <1>14, <1>15, ExitFrame, WorkerFrame, ListenerFrame, StrangerFrame
     DEF CollectOne, CtrlC, ctrlVars

\* stream_index moves only when a stream is registered.
LEMMA IndexSteps ==
  ASSUME IndInv, Next
  PROVE  /\ \/ index'["client"] = index["client"]
            \/ /\ AwaitWelcome /\ Register("client", index["client"])
               /\ index'["client"] = index["client"] + 1
         /\ \/ index'["server"] = index["server"]
            \/ AcceptStream /\ index'["server"] = index["server"] + 1
         /\ index["client"] \in 0 .. Total /\ index'["client"] \in 0 .. Total
         /\ index["server"] \in 0 .. Total /\ index'["server"] \in 0 .. Total
         /\ index["client"] <= index'["client"] /\ index["server"] <= index'["server"]
<1>0. WorkTypeOK /\ WorkTypeOK'
  BY WorkTypeStep DEF IndInv, TypeOK
<1>1. /\ index["client"] \in 0 .. Total /\ index'["client"] \in 0 .. Total
      /\ index["server"] \in 0 .. Total /\ index'["server"] \in 0 .. Total
  BY <1>0, TwoRoles DEF WorkTypeOK
<1> DEFINE Moved == /\ \/ index'["client"] = index["client"]
                       \/ /\ AwaitWelcome /\ Register("client", index["client"])
                          /\ index'["client"] = index["client"] + 1
                    /\ \/ index'["server"] = index["server"]
                       \/ AcceptStream /\ index'["server"] = index["server"] + 1
<1>2. ASSUME NEW r \in Roles, NEW c, Register(r, c)
      PROVE  index'[r] = index[r] + 1 /\ index'[Peer(r)] = index[Peer(r)]
  BY <1>0, <1>2, TwoRoles DEF Register, WorkTypeOK, Peer
<1>3. ASSUME AcceptStream PROVE Moved
  <2>1. index'["server"] = index["server"] + 1 /\ index'["client"] = index["client"]
    BY <1>2, <1>3, TwoRoles DEF AcceptStream, Peer
  <2>2. QED
    BY <1>3, <2>1
<1>4. ASSUME AwaitWelcome, Register("client", index["client"]) PROVE Moved
  <2>1. index'["client"] = index["client"] + 1 /\ index'["server"] = index["server"]
    BY <1>2, <1>4, TwoRoles DEF Peer
  <2>2. QED
    BY <1>4, <2>1
<1>5. Moved
  BY WorkFrame, <1>3, <1>4, WorkerFrame
     DEF workVars, OnStreamTerminated, CollectOne, Crash
<1>6. index["client"] <= index'["client"] /\ index["server"] <= index'["server"]
  BY <1>1, <1>5, IdsNat
<1>7. QED
  BY <1>1, <1>5, <1>6

\* A Hello is not taken back, an answer is given once.
LEMMA HelloReplySteps ==
  ASSUME IndInv, Next, NEW c \in Ids
  PROVE  /\ hello[c] # "idle" => hello'[c] # "idle"
         /\ hello[c] = "idle" => \/ hello'[c] = "idle"
                                 \/ ConnectStream /\ Goto("client", "hello")
                                    /\ c = index["client"]
                                 \/ SendHello /\ c = index["client"]
         /\ reply[c] # "none" => reply'[c] = reply[c]
         /\ reply'[c] # reply[c] => hello[c] # "idle"
<1>0. ListenerTypeOK /\ BacklogInv /\ c \in Conns
  BY StrangersApart DEF IndInv, TypeOK
<1>1. CASE UNCHANGED lstVars
  BY <1>1 DEF lstVars
<1>2. CASE ConnectStream /\ Goto("client", "hello")
  BY <1>0, <1>2 DEF ConnectStream, ListenerTypeOK
<1>3. CASE SendHello
  BY <1>0, <1>3 DEF SendHello, ListenerTypeOK
<1>4. ASSUME CloseListener, UNCHANGED hello, reply'[c] # reply[c]
      PROVE  reply[c] = "none" /\ hello[c] # "idle"
  BY <1>0, <1>4 DEF CloseListener, BacklogInv
<1>5. ASSUME NEW r \in Roles, Crash(r)
      PROVE  /\ hello[c] # "idle" <=> hello'[c] # "idle"
             /\ reply'[c] # reply[c] => reply[c] = "none" /\ hello[c] # "idle"
  <2>1. CASE CloseListener /\ UNCHANGED hello
    BY <1>4, <2>1
  <2>2. CASE CloseClientConns /\ UNCHANGED reply
    BY <1>0, <2>2 DEF CloseClientConns
  <2>3. QED
    BY <1>5, <2>1, <2>2 DEF Crash
<1>6. ASSUME ListenerStep, reply'[c] # reply[c]
      PROVE  reply[c] = "none" /\ hello[c] # "idle"
  <2>1. CASE AcceptInFlight
    <3>1. c = backlog[1] /\ 1 \in DOMAIN backlog
      BY <1>0, <1>6, <2>1, HeadTailType DEF AcceptInFlight, Answer, ListenerTypeOK
    <3>2. QED
      BY <1>0, <3>1 DEF BacklogInv
  <2>2. CASE WelcomeStream \/ RejectStranger \/ HandshakeFailed \/ FreshHello
    <3>1. c = lconn /\ Handling
      BY <1>0, <1>6, <2>2 DEF WelcomeStream, RejectStranger, HandshakeFailed, FreshHello,
                              Answer, ListenerTypeOK, Handling
    <3>2. QED
      BY <1>0, <3>1 DEF BacklogInv
  <2>3. CASE ListenerShutdown
    BY <1>4, <1>6, <2>3 DEF ListenerShutdown
  <2>4. QED
    BY <1>6, <2>1, <2>2, <2>3 DEF ListenerStep, AcceptFresh, FreshGiveUp
<1>7. CASE ListenerStep
  BY <1>6, <1>7, ListenerFrame
<1>8. ASSUME NEW s \in Strangers, StrangerConnect(s) \/ StrangerSpeaks(s)
      PROVE  UNCHANGED reply /\ hello'[c] = hello[c]
  BY <1>0, <1>8, StrangersApart DEF StrangerConnect, StrangerSpeaks, ListenerTypeOK
<1>9. QED
  BY LstFrame, <1>1, <1>2, <1>3, <1>5, <1>7, <1>8

\* How a step changes the inbox of a controller.
LEMMA InboxSteps ==
  ASSUME IndInv, Next, NEW q \in Roles
  PROVE  \/ inbox'[q] = inbox[q]
         \/ /\ inbox[q] # <<>> /\ inbox'[q] = Tail(inbox[q])
            /\ Head(inbox[q]).kind = "CreateStream" => q = "server" /\ AcceptStream
         \/ /\ inbox'[q] = Append(inbox[q], TerminateMsg)
            /\ (Poll(q) /\ shutdown[q] = "pending") \/ (q = "server" /\ HandshakeFailed)
         \/ \E i \in Ids : /\ task[q][i] = "running" /\ task'[q][i] = "ok"
                           /\ inbox'[q] = Append(inbox[q], StreamTerminated(i))
         \/ /\ WelcomeStream /\ q = "server" /\ lconn \in Ids
            /\ inbox'[q] = Append(inbox[q], CreateStream(lconn))
<1> DEFINE Goal == \/ inbox'[q] = inbox[q]
                   \/ /\ inbox[q] # <<>> /\ inbox'[q] = Tail(inbox[q])
                      /\ Head(inbox[q]).kind = "CreateStream" => q = "server" /\ AcceptStream
                   \/ /\ inbox'[q] = Append(inbox[q], TerminateMsg)
                      /\ (Poll(q) /\ shutdown[q] = "pending") \/ (q = "server" /\ HandshakeFailed)
                   \/ \E i \in Ids : /\ task[q][i] = "running" /\ task'[q][i] = "ok"
                                     /\ inbox'[q] = Append(inbox[q], StreamTerminated(i))
                   \/ /\ WelcomeStream /\ q = "server" /\ lconn \in Ids
                      /\ inbox'[q] = Append(inbox[q], CreateStream(lconn))
<1>0. ChanTypeOK /\ WorkTypeOK
  BY DEF IndInv, TypeOK
<1>1. CASE UNCHANGED inbox
  BY <1>1
<1>2. ASSUME NEW r \in Roles, NEW m, TrySend(r, m)
      PROVE  inbox'[q] = inbox[q] \/ (r = q /\ inbox'[q] = Append(inbox[q], m))
  BY <1>0, <1>2 DEF TrySend, ChanTypeOK
<1>3. ASSUME NEW r \in Roles, NEW k, NextMsg(r, k),
             k = "CreateStream" => r = "server" /\ AcceptStream
      PROVE  Goal
  BY <1>0, <1>3 DEF NextMsg, ChanTypeOK
<1>4. ASSUME NEW r \in Roles, Poll(r) PROVE Goal
  BY <1>2, <1>4 DEF Poll
<1>5. ASSUME NEW r \in Roles, NEW i \in Ids, WorkerStep(r, i) PROVE Goal
  <2>1. \/ UNCHANGED inbox
        \/ Return(r, i, "err")
        \/ task[r][i] = "running" /\ Return(r, i, "ok")
    BY <1>5 DEF WorkerStep, AwaitStart, CheckSignal, TimeUp, StreamClosed, ClosedOutcome
  <2>2. CASE task[r][i] = "running" /\ Return(r, i, "ok")
    <3>1. task'[r][i] = "ok"
      BY <1>0, <2>2 DEF Return, WorkTypeOK
    <3>2. QED
      BY <1>2, <2>2, <3>1 DEF Return
  <2>3. QED
    BY <2>1, <2>2 DEF Return
<1>6. CASE ListenerStep
  <2>1. CASE WelcomeStream
    BY <1>2, <2>1, TwoRoles DEF WelcomeStream, CookieMatches
  <2>2. CASE HandshakeFailed
    BY <1>2, <2>2, TwoRoles DEF HandshakeFailed
  <2>3. QED
    BY <1>6, <2>1, <2>2 DEF ListenerStep, AcceptInFlight, RejectStranger, AcceptFresh,
       FreshHello, FreshGiveUp, ListenerShutdown, chanVars
<1>7. QED
  BY NextCases, <1>1, <1>3, <1>4, <1>5, <1>6, ExitFrame, StrangerFrame, TwoRoles
     DEF Assign, TopStart, TopCreateStreams, ConnectStream, SendHello, AwaitWelcome,
         AcceptStream, StreamsCreated, OnServerMessage, TopRunning, TopStopWorkers,
         TopNothing, OnStreamTerminated, OnTerminate, OnShutdown, CollectOne,
         AllCollected, SendResults, ReadResults, CtrlC, Crash, chanVars

-----------------------------------------------------------------------------
(* ConnectingInv and BacklogInv.                                           *)

LEMMA ConnectingStep ==
  ASSUME IndInv, Next
  PROVE  ConnectingInv'
<1>0. ConnectingInv /\ CtrlTypeOK /\ WorkTypeOK /\ ListenerTypeOK
  BY DEF IndInv, TypeOK
<1>1. pc'["client"] \in {"hello", "welcome"} => index'["client"] < Total
  <2>1. CASE AwaitWelcome /\ Register("client", index["client"])
    BY <1>0, <2>1, TwoRoles DEF AwaitWelcome, Goto, CtrlTypeOK
  <2>2. CASE SendHello \/ ConnectStream
    BY <1>0, <2>2 DEF SendHello, ConnectStream, ConnectingInv, workVars
  <2>3. QED
    BY <1>0, <2>1, <2>2, ClientPc, IndexSteps DEF ConnectingInv
<1>2. ASSUME NEW c \in Ids, c > index'["client"] PROVE hello'[c] = "idle"
  <2>1. c > index["client"] /\ c # index["client"]
    BY <1>2, IndexSteps, IdsNat
  <2>2. QED
    BY <1>0, <2>1, HelloReplySteps DEF ConnectingInv
<1>3. ASSUME NEW c \in Ids, c = index'["client"],
             pc'["client"] \notin {"hello", "welcome", "done", "aborted"}
      PROVE  hello'[c] = "idle"
  <2>1. CASE AwaitWelcome /\ Register("client", index["client"])
    <3>1. index'["client"] = index["client"] + 1
      BY <1>0, <2>1, TwoRoles DEF Register, WorkTypeOK
    <3>2. c > index["client"]
      BY <1>3, <3>1, IndexSteps, IdsNat
    <3>3. UNCHANGED hello
      BY <2>1 DEF AwaitWelcome, lstVars
    <3>4. QED
      BY <1>0, <3>2, <3>3 DEF ConnectingInv
  <2>2. CASE (ConnectStream /\ Goto("client", "hello")) \/ SendHello
    BY <1>0, <1>3, <2>2, TwoRoles DEF SendHello, Goto, CtrlTypeOK
  <2>3. CASE /\ ~(AwaitWelcome /\ Register("client", index["client"]))
             /\ ~(ConnectStream /\ Goto("client", "hello")) /\ ~SendHello
    <3>1. c = index["client"]
      BY <1>3, <2>3, IndexSteps
    <3>2. pc["client"] \notin {"hello", "welcome", "done", "aborted"}
      BY <1>3, <2>3, ClientPc
    <3>3. hello[c] = "idle"
      BY <1>0, <3>1, <3>2 DEF ConnectingInv
    <3>4. QED
      BY <2>3, <3>3, HelloReplySteps
  <2>4. QED
    BY <2>1, <2>2, <2>3
<1>4. ASSUME NEW c \in Ids, hello'[c] = "idle" PROVE reply'[c] = "none"
  BY <1>0, <1>4, HelloReplySteps DEF ConnectingInv
<1>5. QED
  BY <1>1, <1>2, <1>3, <1>4 DEF ConnectingInv

LEMMA BacklogStep ==
  ASSUME IndInv, Next
  PROVE  BacklogInv'
<1>0. ConnectingInv /\ BacklogInv /\ ListenerTypeOK /\ CtrlTypeOK
  BY DEF IndInv, TypeOK
<1>1. CASE UNCHANGED lstVars
  \* The only step that moves the client's index leaves an answered connection behind.
  <2>1. CASE index'["client"] = index["client"]
    BY <1>0, <1>1, <2>1 DEF BacklogInv, lstVars, Handling
  <2>2. CASE AwaitWelcome /\ index'["client"] = index["client"] + 1
    <3>0. index'["client"] # index["client"]
      BY <2>2, IndexSteps, IdsNat
    <3>1. reply[index["client"]] = "welcome"
      BY <2>2, <3>0 DEF AwaitWelcome, workVars
    <3>2. /\ \A k \in DOMAIN backlog : backlog[k] \notin Ids
          /\ Handling => lconn \notin Ids
      BY <1>0, <3>1 DEF BacklogInv
    <3>3. QED
      BY <1>0, <1>1, <3>2 DEF BacklogInv, lstVars, Handling
  <2>3. QED
    BY <2>1, <2>2, IndexSteps
<1>2. CASE ConnectStream /\ Goto("client", "hello")
  <2> DEFINE c == index["client"]
  <2>1. c \in Ids /\ hello[c] = "idle" /\ reply[c] = "none"
    BY <1>0, <1>2, RoomToConnect DEF ConnectStream, ConnectingInv
  <2>2. /\ \A k \in DOMAIN backlog : backlog[k] \notin Ids
        /\ lconn \in Ids => lconn # c
        /\ ~(Handling /\ lconn \in Ids)
    BY <1>0, <2>1 DEF BacklogInv
  <2>3. /\ backlog' = Append(backlog, c) /\ hello' = [hello EXCEPT ![c] = "open"]
        /\ UNCHANGED <<lpc, lconn, reply>> /\ index' = index
    BY <1>0, <1>2, TwoRoles DEF ConnectStream, Goto, CtrlTypeOK, workVars
  <2>4. hello'[c] # "idle"
    BY <1>0, <2>1, <2>3, StrangersApart DEF ListenerTypeOK
  <2>5. backlog \in Seq(Conns)
    BY <1>0 DEF ListenerTypeOK
  <2>6. \A k \in DOMAIN backlog' : backlog'[k] \in Ids => k = Len(backlog) + 1 /\ backlog'[k] = c
    BY <2>2, <2>3, <2>5
  <2>7. lconn' \in Ids => hello'[lconn'] # "idle"
    BY <1>0, <2>3, HelloReplySteps DEF BacklogInv
  <2>8. QED
    BY <2>1, <2>2, <2>3, <2>4, <2>6, <2>7 DEF BacklogInv, Handling
\* From here on the client's index stays, and no Hello becomes idle again.
<1>3. ASSUME index'["client"] = index["client"], UNCHANGED <<lpc, lconn, backlog>>,
             \A c \in Ids : reply'[c] = reply[c]
      PROVE  BacklogInv'
  BY <1>0, <1>3, HelloReplySteps DEF BacklogInv, Handling
<1>4. CASE SendHello
  BY <1>4, <1>3 DEF SendHello, workVars
<1>5. ASSUME CloseListener, index'["client"] = index["client"] PROVE BacklogInv'
  BY <1>5, StrangersApart DEF CloseListener, BacklogInv, Handling
<1>6. ASSUME NEW r \in Roles, Crash(r) PROVE BacklogInv'
  BY <1>6, <1>3, <1>5 DEF Crash
<1>7. CASE ListenerStep
  <2>0. index' = index
    BY <1>7, ListenerFrame DEF workVars
  <2>1. CASE AcceptInFlight \/ AcceptFresh
    <3>0. backlog # <<>> /\ backlog' = Tail(backlog)
      BY <2>1 DEF AcceptInFlight, AcceptFresh
    <3>1. /\ 1 \in DOMAIN backlog /\ Head(backlog) = backlog[1]
          /\ \A k \in DOMAIN backlog' : /\ k \in Nat /\ k + 1 \in DOMAIN backlog /\ k + 1 # 1
                                        /\ backlog'[k] = backlog[k + 1]
      BY <1>0, <3>0, TailIndex, HeadTailType DEF ListenerTypeOK
    <3>2. \A k \in DOMAIN backlog' : backlog'[k] \in Ids => backlog'[k] # backlog[1]
      BY <1>0, <3>1 DEF BacklogInv
    <3>3. \A c \in Ids : c # backlog[1] => reply'[c] = reply[c]
      BY <1>0, <2>1, <3>1, StrangersApart DEF AcceptInFlight, AcceptFresh, Answer, ListenerTypeOK
    <3>4. \A k \in DOMAIN backlog' :
            backlog'[k] \in Ids =>
              /\ backlog'[k] = index'["client"]
              /\ hello'[backlog'[k]] # "idle" /\ reply'[backlog'[k]] = "none"
              /\ \A l \in DOMAIN backlog' : backlog'[l] = backlog'[k] => l = k
      BY <1>0, <2>0, <3>1, <3>2, <3>3, HelloReplySteps DEF BacklogInv
    <3>5. \/ lconn' = lconn /\ lpc' = "accept"
          \/ lconn' = backlog[1] /\ reply' = reply /\ lpc' \in {"hello", "cookie"}
      BY <2>1, <3>1 DEF AcceptInFlight, AcceptFresh
    <3>6. CASE lconn' = lconn /\ lpc' = "accept"
      BY <1>0, <3>4, <3>6, HelloReplySteps DEF BacklogInv, Handling
    <3>7. CASE lconn' = backlog[1] /\ reply' = reply
      BY <1>0, <2>0, <3>1, <3>2, <3>4, <3>7, HelloReplySteps DEF BacklogInv, Handling
    <3>8. QED
      BY <3>5, <3>6, <3>7
  <2>2. ASSUME Answer(lconn, "welcome") \/ Answer(lconn, "busy") \/ Answer(lconn, "closed"),
               Handling, UNCHANGED backlog,
               lconn' = NoStream \/ (lconn' = lconn /\ ~Handling')
        PROVE  BacklogInv'
    <3>1. \A k \in DOMAIN backlog : backlog[k] \in Ids => backlog[k] # lconn
      BY <1>0, <2>2 DEF BacklogInv
    <3>2. \A c \in Ids : c # lconn => reply'[c] = reply[c]
      BY <1>0, <2>2, StrangersApart DEF Answer, ListenerTypeOK
    <3>3. QED
      BY <1>0, <2>0, <2>2, <3>1, <3>2, StrangersApart, HelloReplySteps DEF BacklogInv
  <2>3. CASE WelcomeStream \/ RejectStranger \/ HandshakeFailed
    BY <2>2, <2>3 DEF WelcomeStream, RejectStranger, HandshakeFailed, BackToAccept, Handling
  <2>4. CASE FreshHello
    BY <2>2, <2>4 DEF FreshHello, BackToAccept, Handling
  <2>5. CASE FreshGiveUp
    BY <1>0, <2>0, <2>5, StrangersApart, HelloReplySteps
       DEF FreshGiveUp, BackToAccept, BacklogInv, Handling
  <2>6. CASE ListenerShutdown
    BY <1>5, <2>0, <2>6 DEF ListenerShutdown
  <2>7. QED
    BY <1>7, <2>1, <2>3, <2>4, <2>5, <2>6 DEF ListenerStep
<1>8. ASSUME NEW s \in Strangers, StrangerConnect(s) PROVE BacklogInv'
  <2>1. /\ UNCHANGED <<lpc, lconn, reply>> /\ index' = index
        /\ backlog' = Append(backlog, s) /\ s \notin Ids
    BY <1>8, StrangersApart DEF StrangerConnect, workVars
  <2>2. backlog \in Seq(Conns)
    BY <1>0 DEF ListenerTypeOK
  <2>3. \A k \in DOMAIN backlog' :
          backlog'[k] \in Ids => k \in DOMAIN backlog /\ backlog'[k] = backlog[k]
    BY <2>1, <2>2
  <2>4. QED
    BY <1>0, <2>1, <2>3, HelloReplySteps DEF BacklogInv, Handling
<1>9. ASSUME NEW s \in Strangers, StrangerSpeaks(s) PROVE BacklogInv'
  BY <1>9, <1>3 DEF StrangerSpeaks, workVars
<1>10. QED
  BY LstFrame, <1>1, <1>2, <1>4, <1>6, <1>7, <1>8, <1>9

-----------------------------------------------------------------------------
(* QueueInv, NumberingInv and WorkersInv.                                  *)

\* What may stand in the server's inbox after a step: an old message, in the old
\* order, or the stream that was just welcomed, behind all the others.
LEMMA QueueSteps ==
  ASSUME IndInv, Next
  PROVE  LET q  == inbox["server"]
             q2 == inbox'["server"]
         IN  \/ \E d \in {0, 1} : \A k \in DOMAIN q2 :
                  q2[k].kind = "CreateStream" =>
                    k \in Nat /\ k + d \in DOMAIN q /\ q2[k] = q[k + d]
             \/ /\ WelcomeStream /\ lconn \in Ids
                /\ \A k \in DOMAIN q2 :
                     \/ k \in DOMAIN q /\ k < Len(q) + 1 /\ q2[k] = q[k]
                     \/ k = Len(q) + 1 /\ q2[k] = CreateStream(lconn)
<1> DEFINE q  == inbox["server"]
           q2 == inbox'["server"]
<1>0. q \in Seq(InboxMsgs) /\ "server" \in Roles
  BY TwoRoles DEF IndInv, TypeOK, ChanTypeOK
<1>1. CASE q2 = q
  <2>1. \A k \in DOMAIN q2 : k \in Nat /\ k + 0 \in DOMAIN q /\ q2[k] = q[k + 0]
    BY <1>0, <1>1
  <2>2. QED
    BY <2>1
<1>2. CASE q # <<>> /\ q2 = Tail(q)
  <2>1. \A k \in DOMAIN q2 : k \in Nat /\ k + 1 \in DOMAIN q /\ q2[k] = q[k + 1]
    BY <1>0, <1>2, TailIndex
  <2>2. QED
    BY <2>1
<1>3. ASSUME NEW m, q2 = Append(q, m)
      PROVE  \A k \in DOMAIN q2 : /\ k \in Nat
                                  /\ \/ k \in DOMAIN q /\ k < Len(q) + 1 /\ q2[k] = q[k]
                                     \/ k = Len(q) + 1 /\ q2[k] = m
  BY <1>0, <1>3, AppendIndex
<1>4. ASSUME NEW m, m.kind # "CreateStream", q2 = Append(q, m)
      PROVE  \A k \in DOMAIN q2 : q2[k].kind = "CreateStream" =>
               k \in Nat /\ k + 0 \in DOMAIN q /\ q2[k] = q[k + 0]
  <2>1. \A k \in DOMAIN q2 : k \in Nat /\ ((k \in DOMAIN q /\ q2[k] = q[k]) \/ q2[k] = m)
    BY <1>3, <1>4
  <2>2. QED
    BY <1>4, <2>1
<1>5. CASE q2 = Append(q, TerminateMsg)
  BY <1>4, <1>5 DEF TerminateMsg
<1>6. ASSUME NEW i \in Ids, q2 = Append(q, StreamTerminated(i))
      PROVE  \A k \in DOMAIN q2 : q2[k].kind = "CreateStream" =>
               k \in Nat /\ k + 0 \in DOMAIN q /\ q2[k] = q[k + 0]
  BY <1>4, <1>6 DEF StreamTerminated
<1>7. CASE WelcomeStream /\ lconn \in Ids /\ q2 = Append(q, CreateStream(lconn))
  BY <1>3, <1>7
<1>8. QED
  BY <1>0, <1>1, <1>2, <1>5, <1>6, <1>7, InboxSteps

\* The stream being welcomed is the client's current one, and new to the server.
LEMMA Welcomed ==
  ASSUME IndInv, WelcomeStream, lconn \in Ids
  PROVE  /\ lconn = index["client"] /\ index' = index /\ conn' = conn
         /\ reply[lconn] = "none" /\ reply'[lconn] = "welcome"
  BY StrangersApart DEF IndInv, TypeOK, ListenerTypeOK, BacklogInv, Handling,
     WelcomeStream, Answer, workVars

LEMMA QueuedIds ==
  ASSUME IndInv, NEW k \in DOMAIN inbox["server"],
         inbox["server"][k].kind = "CreateStream"
  PROVE  inbox["server"][k].id \in Ids
<1>1. inbox["server"] \in Seq(InboxMsgs)
  BY TwoRoles DEF IndInv, TypeOK, ChanTypeOK
<1>2. QED
  BY <1>1, MessageTypes

LEMMA QueueStep ==
  ASSUME IndInv, Next
  PROVE  QueueInv'
<1> DEFINE q  == inbox["server"]
           q2 == inbox'["server"]
<1>0. QueueInv
  BY DEF IndInv
<1>1. ASSUME NEW d \in {0, 1},
             \A k \in DOMAIN q2 : q2[k].kind = "CreateStream" =>
               k \in Nat /\ k + d \in DOMAIN q /\ q2[k] = q[k + d]
      PROVE  QueueInv'
  <2>1. ASSUME NEW k \in DOMAIN q2, q2[k].kind = "CreateStream"
        PROVE  /\ k \in Nat /\ k + d \in DOMAIN q /\ q2[k] = q[k + d] /\ q2[k].id \in Ids
               /\ reply'[q2[k].id] = "welcome" /\ q2[k].id <= index'["client"]
    <3>1. k \in Nat /\ k + d \in DOMAIN q /\ q2[k] = q[k + d] /\ q2[k].id \in Ids
      BY <1>1, <2>1, QueuedIds
    <3>2. reply[q2[k].id] = "welcome" /\ q2[k].id <= index["client"]
      BY <1>0, <2>1, <3>1 DEF QueueInv, CreateAt
    <3>3. QED
      BY <3>1, <3>2, HelloReplySteps, IndexSteps, IdsNat
  <2>2. ASSUME NEW k \in DOMAIN q2, q2[k].kind = "CreateStream",
               NEW l \in DOMAIN q2, q2[l].kind = "CreateStream", k < l
        PROVE  q2[k].id < q2[l].id
    <3>1. k + d < l + d
      BY <2>1, <2>2
    <3>2. QED
      BY <1>0, <2>1, <2>2, <3>1 DEF QueueInv, CreateAt
  <2>3. QED
    BY <2>1, <2>2 DEF QueueInv, CreateAt
<1>2. ASSUME WelcomeStream, lconn \in Ids,
             \A k \in DOMAIN q2 : \/ k \in DOMAIN q /\ k < Len(q) + 1 /\ q2[k] = q[k]
                                  \/ k = Len(q) + 1 /\ q2[k] = CreateStream(lconn)
      PROVE  QueueInv'
  <2>0. /\ lconn = index["client"] /\ index' = index
        /\ reply[lconn] = "none" /\ reply'[lconn] = "welcome"
        /\ CreateStream(lconn).id = lconn
    BY <1>2, Welcomed DEF CreateStream
  <2>1. ASSUME NEW k \in DOMAIN q2, q2[k].kind = "CreateStream", k \in DOMAIN q, q2[k] = q[k]
        PROVE  /\ q2[k].id \in Ids /\ reply'[q2[k].id] = "welcome" /\ q2[k].id < lconn
    <3>1. q2[k].id \in Ids /\ reply[q2[k].id] = "welcome" /\ q2[k].id <= index["client"]
      BY <1>0, <2>1, QueuedIds DEF QueueInv, CreateAt
    <3>2. q2[k].id # lconn
      BY <2>0, <3>1
    <3>3. QED
      BY <1>2, <2>0, <3>1, <3>2, HelloReplySteps, IdsNat
  <2>2. ASSUME NEW k \in DOMAIN q2, q2[k].kind = "CreateStream"
        PROVE  reply'[q2[k].id] = "welcome" /\ q2[k].id <= index'["client"]
    BY <1>2, <2>0, <2>1, <2>2, IdsNat
  <2>3. ASSUME NEW k \in DOMAIN q2, q2[k].kind = "CreateStream",
               NEW l \in DOMAIN q2, q2[l].kind = "CreateStream", k < l
        PROVE  q2[k].id < q2[l].id
    <3>1. Len(q) \in Nat
      BY TwoRoles DEF IndInv, TypeOK, ChanTypeOK
    <3>2. k \in DOMAIN q /\ q2[k] = q[k]
      BY <1>2, <2>3, <3>1
    <3>3. CASE l \in DOMAIN q /\ q2[l] = q[l]
      BY <1>0, <2>3, <3>2, <3>3 DEF QueueInv, CreateAt
    <3>4. CASE q2[l] = CreateStream(lconn)
      BY <2>0, <2>1, <2>3, <3>2, <3>4
    <3>5. QED
      BY <1>2, <3>3, <3>4
  <2>4. QED
    BY <2>2, <2>3 DEF QueueInv, CreateAt
<1>3. QED
  BY <1>1, <1>2, QueueSteps

LEMMA NumberingStep ==
  ASSUME IndInv, Next
  PROVE  NumberingInv'
<1> DEFINE q  == inbox["server"]
           q2 == inbox'["server"]
           C  == conn["server"]
           n  == index["server"]
<1>0. NumberingInv /\ WorkTypeOK /\ C \in [Ids -> Ids \cup {NoStream}] /\ n \in 0 .. Total
  BY TwoRoles DEF IndInv, TypeOK, WorkTypeOK
\* The streams registered before: what NumberingInv says of them is kept.
<1>1. ASSUME NEW j \in Ids, j < n
      PROVE  /\ C[j] \in Ids /\ j <= C[j] /\ C[j] <= index'["client"]
             /\ reply'[C[j]] = "welcome"
             /\ \A m \in Ids : j <= m /\ m < n => m - j <= C[m] - C[j]
             /\ \A k \in DOMAIN q2 : q2[k].kind = "CreateStream" => C[j] < q2[k].id
  <2>1. /\ C[j] \in Ids /\ j <= C[j] /\ C[j] <= index["client"] /\ reply[C[j]] = "welcome"
        /\ \A m \in Ids : j <= m /\ m < n => m - j <= C[m] - C[j]
        /\ \A k \in DOMAIN q : q[k].kind = "CreateStream" => C[j] < q[k].id
    BY <1>0, <1>1 DEF NumberingInv, CreateAt
  <2>2. C[j] <= index'["client"] /\ reply'[C[j]] = "welcome"
    BY <2>1, IndexSteps, HelloReplySteps, IdsNat
  <2>3. ASSUME WelcomeStream, lconn \in Ids PROVE C[j] < CreateStream(lconn).id
    BY <2>1, <2>3, Welcomed, IdsNat DEF CreateStream
  <2>4. \A k \in DOMAIN q2 : q2[k].kind = "CreateStream" => C[j] < q2[k].id
    BY <2>1, <2>3, QueueSteps
  <2>5. QED
    BY <2>1, <2>2, <2>4
<1>2. CASE index'["server"] = n /\ conn'["server"] = C
  BY <1>1, <1>2 DEF NumberingInv, CreateAt
<1>3. CASE AcceptStream /\ index'["server"] = n + 1
  <2> DEFINE c == Head(q).id
  <2>1. c \in Ids /\ n \in Ids /\ q[1].id = c /\ CreateAt(1) /\ 1 \in DOMAIN q /\ q2 = Tail(q)
    BY <1>0, <1>3, RoomForStream, TwoRoles
       DEF AcceptStream, CreateAt, NextMsg, IndInv, TypeOK, ChanTypeOK
  <2>2. conn'["server"] = [C EXCEPT ![n] = c]
    BY <1>0, <1>3, TwoRoles DEF AcceptStream, Register, WorkTypeOK
  <2>3. \A j \in Ids : j < n => C[j] < c
    BY <1>0, <2>1 DEF NumberingInv
  <2>4. n <= c
    BY <1>0, <2>1, <2>3, IdsNat DEF NumberingInv
  <2>5. c <= index'["client"] /\ reply'[c] = "welcome"
    BY <2>1, IndexSteps, HelloReplySteps, IdsNat DEF IndInv, QueueInv
  <2>6. \A k \in DOMAIN q2 : q2[k].kind = "CreateStream" => c < q2[k].id
    <3>1. q \in Seq(InboxMsgs) /\ q # <<>>
      BY <1>3, TwoRoles DEF AcceptStream, NextMsg, IndInv, TypeOK, ChanTypeOK
    <3>2. \A k \in DOMAIN q2 : k + 1 \in DOMAIN q /\ 1 < k + 1 /\ q2[k] = q[k + 1]
      BY <2>1, <3>1, TailIndex
    <3>3. QED
      BY <2>1, <3>2 DEF IndInv, QueueInv, CreateAt
  <2>7. ASSUME NEW j \in Ids, j < n PROVE n - j <= c - C[j]
    <3> DEFINE m == n - 1
    <3>1. m \in Ids /\ j <= m /\ m < n
      BY <2>1, <2>7, IdsNat
    <3>2. m - j <= C[m] - C[j] /\ C[m] \in Ids /\ C[j] \in Ids /\ C[m] < c
      BY <1>1, <2>3, <2>7, <3>1
    <3>3. QED
      BY <2>1, <2>7, <3>1, <3>2, IdsNat
  <2>8. ASSUME NEW j \in Ids, j < n + 1
        PROVE  /\ conn'["server"][j] \in Ids
               /\ j <= conn'["server"][j] /\ conn'["server"][j] <= index'["client"]
               /\ reply'[conn'["server"][j]] = "welcome"
               /\ \A m \in Ids : j <= m /\ m < n + 1 =>
                    m - j <= conn'["server"][m] - conn'["server"][j]
               /\ \A k \in DOMAIN q2 :
                    q2[k].kind = "CreateStream" => conn'["server"][j] < q2[k].id
    <3>1. j \in Nat /\ n \in Nat /\ c \in Nat /\ (j < n \/ j = n)
      BY <2>1, <2>8, IdsNat
    <3>2. CASE j = n
      <4>1. conn'["server"][j] = c
        BY <1>0, <2>1, <2>2, <3>2
      <4>2. \A m \in Ids : j <= m /\ m < n + 1 => m = j
        BY <3>1, <3>2, IdsNat
      <4>3. \A m \in Ids : j <= m /\ m < n + 1 =>
              m - j <= conn'["server"][m] - conn'["server"][j]
        BY <3>1, <4>1, <4>2
      <4>4. QED
        BY <2>1, <2>4, <2>5, <2>6, <3>2, <4>1, <4>3
    <3>3. CASE j < n
      <4>1. conn'["server"][j] = C[j] /\ C[j] \in Ids
        BY <1>0, <1>1, <2>1, <2>2, <3>1, <3>3
      <4>2. ASSUME NEW m \in Ids, j <= m, m < n + 1
            PROVE  m - j <= conn'["server"][m] - conn'["server"][j]
        <5>1. CASE m = n
          BY <1>0, <2>1, <2>2, <2>7, <3>3, <4>1, <5>1
        <5>2. CASE m < n
          <6>1. conn'["server"][m] = C[m]
            BY <1>0, <2>2, <3>1, <4>2, <5>2, IdsNat
          <6>2. QED
            BY <1>1, <3>3, <4>1, <4>2, <5>2, <6>1
        <5>3. QED
          BY <3>1, <4>2, <5>1, <5>2, IdsNat
      <4>3. QED
        BY <1>1, <3>3, <4>1, <4>2
    <3>4. QED
      BY <3>1, <3>2, <3>3
  <2>9. QED
    BY <1>3, <2>8 DEF NumberingInv, CreateAt
<1>4. CASE AcceptStream
  <2>1. index'["server"] = n + 1
    BY <1>0, <1>4, TwoRoles DEF AcceptStream, Register, WorkTypeOK
  <2>2. QED
    BY <1>3, <1>4, <2>1
<1>5. CASE ~AcceptStream
  <2>1. index'["server"] = n
    BY <1>5, IndexSteps
  <2>2. UNCHANGED conn \/ Register("client", index["client"])
    BY <1>5, WorkFrame, WorkerFrame DEF workVars, OnStreamTerminated, CollectOne, Crash
  <2>3. conn'["server"] = C
    BY <1>0, <2>2, TwoRoles DEF Register, WorkTypeOK
  <2>4. QED
    BY <1>2, <2>1, <2>3
<1>6. QED
  BY <1>4, <1>5

LEMMA WorkersStep ==
  ASSUME IndInv, Next
  PROVE  WorkersInv'
<1>0. WorkersInv /\ WorkTypeOK
  BY DEF IndInv, TypeOK
<1>1. ASSUME NEW r \in Roles, NEW c, Register(r, c) PROVE WorkersInv'
  <2>1. ASSUME NEW p \in Roles, NEW i \in workers'[p] PROVE i < index'[p]
    <3>1. CASE p = r
      <4>1. index'[p] = index[p] + 1 /\ (i \in workers[p] \/ i = index[p])
        BY <1>0, <1>1, <2>1, <3>1 DEF Register, WorkTypeOK
      <4>2. i \in workers[p] => i < index[p] /\ i \in Ids
        BY <1>0 DEF WorkersInv, WorkTypeOK
      <4>3. index[p] \in Nat
        BY <1>0, IdsNat DEF WorkTypeOK
      <4>4. QED
        BY <4>1, <4>2, <4>3, IdsNat
    <3>2. CASE p # r
      BY <1>0, <1>1, <2>1, <3>2 DEF Register, WorkTypeOK, WorkersInv
    <3>3. QED
      BY <3>1, <3>2
  <2>2. QED
    BY <2>1 DEF WorkersInv
<1>2. ASSUME NEW r \in Roles, NEW i, Collect(r, i), UNCHANGED index PROVE WorkersInv'
  BY <1>0, <1>2 DEF Collect, WorkTypeOK, WorkersInv
<1>3. CASE UNCHANGED <<workers, index>>
  BY <1>0, <1>3 DEF WorkersInv
<1>4. QED
  BY <1>1, <1>2, <1>3, WorkFrame, WorkerFrame, TwoRoles
     DEF workVars, AcceptStream, OnStreamTerminated, CollectOne, Crash

-----------------------------------------------------------------------------
(* RunningInv.                                                             *)

\* The workers map is within the numbers given out, so its size is at most their count.
LEMMA WorkersCount ==
  ASSUME IndInv, NEW r \in Roles
  PROVE  Cardinality(workers[r]) \in Nat /\ Cardinality(workers[r]) <= index[r]
<1>1. index[r] \in Nat
  BY IdsNat DEF IndInv, TypeOK, WorkTypeOK
<1>2. workers[r] \subseteq 0 .. index[r] - 1
  <2>1. \A i \in workers[r] : i \in Nat /\ i < index[r]
    BY IdsNat DEF IndInv, TypeOK, WorkTypeOK, WorkersInv
  <2>2. QED
    BY <1>1, <2>1
<1>3. IsFiniteSet(0 .. index[r] - 1) /\ Cardinality(0 .. index[r] - 1) = index[r]
  <2> DEFINE n == index[r]
  <2>1. n \in Nat /\ 0 \in Int /\ n - 1 \in Int /\ (n - 1) - 0 + 1 = n /\ (0 > n - 1 => n = 0)
    BY <1>1
  <2> HIDE DEF n
  <2>2. /\ IsFiniteSet(0 .. n - 1)
        /\ Cardinality(0 .. n - 1) = IF 0 > n - 1 THEN 0 ELSE (n - 1) - 0 + 1
    BY <2>1, FS_Interval
  <2>3. Cardinality(0 .. n - 1) = n
    BY <2>1, <2>2
  <2>4. QED
    BY <2>2, <2>3 DEF n
<1>4. QED
  BY <1>1, <1>2, <1>3, FS_Subset, FS_CardinalityType

\* When the last stream is accepted, every number has been given out.
LEMMA LastAccepted ==
  ASSUME IndInv, Next, AcceptStream, AllAccepted
  PROVE  index'["server"] = Total
<1>1. index["server"] \in Ids /\ index["server"] \in Nat
  BY RoomForStream, IdsNat DEF AcceptStream
<1>2. index["server"] + 1 >= Total
  BY <1>1, WorkersCount, TwoRoles, IdsNat DEF AllAccepted
<1>3. index'["server"] = index["server"] + 1
  BY <1>1, TwoRoles DEF AcceptStream, Register, IndInv, TypeOK, WorkTypeOK
<1>4. QED
  BY <1>1, <1>2, <1>3, IdsNat

\* The number of streams, once reached, is not left.
LEMMA TotalStays ==
  ASSUME IndInv, Next, NEW r \in Roles, index[r] = Total
  PROVE  index'[r] = Total
  BY IndexSteps, TwoRoles, IdsNat

\* Messages that are already on their way to the client, or are not SetState(Running).
LEMMA AppendNotRunning ==
  ASSUME NEW q \in Seq(CtlMsgs), NEW m, m # SetStateMsg("Running"),
         \E k \in DOMAIN Append(q, m) : Append(q, m)[k] = SetStateMsg("Running")
  PROVE  \E k \in DOMAIN q : q[k] = SetStateMsg("Running")
  BY AppendIndex

LEMMA TailNotRunning ==
  ASSUME NEW q \in Seq(CtlMsgs), q # <<>>,
         \E k \in DOMAIN Tail(q) : Tail(q)[k] = SetStateMsg("Running")
  PROVE  \E k \in DOMAIN q : q[k] = SetStateMsg("Running")
  BY TailIndex

\* SetState on either side, for what it does to Running.
LEMMA SetStateRunning ==
  ASSUME IndInv, NEW r \in Roles, NEW s \in States, SetState(r, s), s # "Running"
  PROVE  RunningKnown' => RunningKnown
<1>0. /\ ctl \in [Roles -> Seq(CtlMsgs)] /\ state \in [Roles -> States]
      /\ "client" \in Roles /\ "server" \in Roles
  BY TwoRoles DEF IndInv, TypeOK, ChanTypeOK, CtrlTypeOK
<1>1. CASE r = "client"
  BY <1>0, <1>1, TwoRoles DEF SetState, RunningKnown
<1>2. CASE r = "server" /\ Abort(r)
  BY <1>2 DEF Abort, RunningKnown
<1>3. CASE r = "server" /\ WriteCtl(r, SetStateMsg(s)) /\ target' = s /\ UNCHANGED state
  <2>1. ctl'["client"] = Append(ctl["client"], SetStateMsg(s))
    BY <1>0, <1>3 DEF WriteCtl, Peer
  <2>2. SetStateMsg(s) # SetStateMsg("Running")
    BY DEF SetStateMsg
  <2>3. QED
    BY <1>0, <1>3, <2>1, <2>2, AppendNotRunning DEF RunningKnown
<1>4. QED
  BY <1>1, <1>2, <1>3, TwoRoles DEF SetState

\* Running becomes known only when the server accepts its last stream.
LEMMA RunningKnownSteps ==
  ASSUME IndInv, Next, RunningKnown'
  PROVE  RunningKnown \/ (AcceptStream /\ AllAccepted)
<1>0. /\ ctl \in [Roles -> Seq(CtlMsgs)] /\ state \in [Roles -> States]
      /\ "client" \in Roles /\ "server" \in Roles
  BY TwoRoles DEF IndInv, TypeOK, ChanTypeOK, CtrlTypeOK
<1>1. ASSUME UNCHANGED <<target, state, ctl>> PROVE RunningKnown
  BY <1>1 DEF RunningKnown
<1>2. CASE Assign
  BY <1>0, <1>2, TwoRoles DEF Assign, RunningKnown, chanVars
<1>3. CASE TopStart
  BY <1>0, <1>3, SetStateRunning, Phases DEF TopStart
<1>4. CASE AcceptStream
  BY <1>1, <1>4 DEF AcceptStream
<1>5. ASSUME NEW r \in Roles, OnStreamTerminated(r) \/ OnTerminate(r) \/ OnShutdown(r)
      PROVE  RunningKnown
  BY <1>1, <1>5, SetStateRunning, Phases DEF OnStreamTerminated, OnTerminate, OnShutdown
<1>6. CASE OnServerMessage
  <2> DEFINE q == ctl["client"]
  <2>1. CASE Abort("client")
    BY <1>1, <1>6, <2>1 DEF OnServerMessage, Abort
  <2>2. CASE q # <<>> /\ ctl' = [ctl EXCEPT !["client"] = Tail(@)] /\ UNCHANGED target
    <3>1. q \in Seq(CtlMsgs) /\ Head(q) \in CtlMsgs /\ Head(q) = q[1] /\ 1 \in DOMAIN q
      BY <1>0, <2>2, HeadTailType
    <3>2. ctl'["client"] = Tail(q)
      BY <1>0, <2>2
    <3>3. Head(q).kind = "SetState" /\ Head(q).state = "Running" =>
            Head(q) = SetStateMsg("Running")
      BY <3>1 DEF CtlMsgs, SetStateMsg
    <3>4. \/ state'["client"] = state["client"]
          \/ Head(q).kind = "SetState" /\ state'["client"] = Head(q).state
      BY <1>0, <1>6, <2>2 DEF OnServerMessage, Abort
    <3>5. state'["server"] = state["server"]
      BY <1>0, <1>6, TwoRoles DEF OnServerMessage, Abort
    <3>6. QED
      BY <2>2, <3>1, <3>2, <3>3, <3>4, <3>5, TailNotRunning DEF RunningKnown
  <2>3. QED
    BY <1>6, <2>1, <2>2 DEF OnServerMessage
<1>7. ASSUME NEW r \in Roles, SendResults(r) PROVE RunningKnown
  <2>1. CASE WriteCtl(r, ResultsMsg(results[r]))
    <3>1. ResultsMsg(results[r]) # SetStateMsg("Running")
      BY DEF ResultsMsg, SetStateMsg
    <3>2. \/ ctl'["client"] = ctl["client"]
          \/ ctl'["client"] = Append(ctl["client"], ResultsMsg(results[r]))
      BY <1>0, <2>1 DEF WriteCtl, Peer
    <3>3. QED
      <4>1. \A k \in DOMAIN ctl'["client"] : ctl'["client"][k] = SetStateMsg("Running") =>
              \E l \in DOMAIN ctl["client"] : ctl["client"][l] = SetStateMsg("Running")
        BY <1>0, <3>1, <3>2, AppendNotRunning
      <4>2. UNCHANGED <<target, state>>
        BY <1>7 DEF SendResults
      <4>3. QED
        BY <4>1, <4>2 DEF RunningKnown
  <2>2. QED
    BY <1>1, <1>7, <2>1 DEF SendResults
<1>8. ASSUME NEW r \in Roles, ReadResults(r) PROVE RunningKnown
  <2>1. CASE ctl[r] # <<>> /\ ctl' = [ctl EXCEPT ![r] = Tail(@)]
    <3>1. \/ ctl'["client"] = ctl["client"]
          \/ ctl["client"] # <<>> /\ ctl'["client"] = Tail(ctl["client"])
      BY <1>0, <2>1
    <3>2. (\E k \in DOMAIN ctl'["client"] : ctl'["client"][k] = SetStateMsg("Running")) =>
             \E k \in DOMAIN ctl["client"] : ctl["client"][k] = SetStateMsg("Running")
      BY <1>0, <3>1, TailNotRunning
    <3>3. UNCHANGED <<target, state>>
      BY <1>8 DEF ReadResults
    <3>4. QED
      BY <1>0, <3>2, <3>3 DEF RunningKnown
  <2>2. QED
    BY <1>1, <1>8, <2>1 DEF ReadResults
<1>9. QED
  BY NextCases, <1>1, <1>2, <1>3, <1>4, <1>5, <1>6, <1>7, <1>8, ExitFrame, StrangerFrame,
     WorkerFrame, ListenerFrame
     DEF TopCreateStreams, ConnectStream, SendHello, AwaitWelcome, StreamsCreated,
         TopRunning, TopStopWorkers, TopNothing, Poll, CollectOne, AllCollected, CtrlC,
         Crash, ctrlVars, chanVars

\* The client's streams are all registered when the server's are and it is back at
\* the head of its loop: the last one was welcomed, so it is not still to connect.
LEMMA ClientHasAll ==
  ASSUME IndInv, index["server"] = Total, pc["client"] = "top"
  PROVE  index["client"] = Total
<1>0. index["client"] \in 0 .. Total
  BY TwoRoles DEF IndInv, TypeOK, WorkTypeOK
<1>1. CASE Total = 0
  BY <1>0, <1>1
<1>2. CASE Total > 0
  <2> DEFINE j == Total - 1
             c == conn["server"][j]
  <2>1. j \in Ids /\ j < index["server"]
    BY <1>2, IdsNat
  <2>2. c \in Ids /\ j <= c /\ c <= index["client"] /\ reply[c] = "welcome"
    BY <2>1 DEF IndInv, NumberingInv
  <2>3. c = j
    BY <2>1, <2>2, IdsNat
  <2>4. index["client"] # j
    BY <2>1, <2>2, <2>3 DEF IndInv, ConnectingInv
  <2>5. QED
    BY <1>0, <2>2, <2>3, <2>4, IdsNat
<1>3. QED
  BY <1>1, <1>2, IdsNat

\* How a step changes what a side has broadcast.
LEMMA PublishSteps ==
  ASSUME IndInv, Next, NEW q \in Roles
  PROVE  \/ published'[q] = published[q]
         \/ TopRunning(q) /\ published'[q] = Append(published[q], "StartLoad")
         \/ published'[q] = Append(published[q], "Terminate")
<1>0. published \in [Roles -> Seq(Signals)]
  BY DEF IndInv, TypeOK, ChanTypeOK
<1>1. ASSUME NEW r \in Roles, TopRunning(r)
      PROVE  published'[q] = published[q]
               \/ (TopRunning(q) /\ published'[q] = Append(published[q], "StartLoad"))
  <2>1. CASE q = r
    BY <1>0, <1>1, <2>1 DEF TopRunning
  <2>2. CASE q # r
    BY <1>0, <1>1, <2>2 DEF TopRunning
  <2>3. QED
    BY <2>1, <2>2
<1>2. ASSUME NEW r \in Roles, TopStopWorkers(r)
      PROVE  published'[q] = published[q] \/ published'[q] = Append(published[q], "Terminate")
  BY <1>0, <1>2 DEF TopStopWorkers
<1>3. CASE UNCHANGED published
  BY <1>3
<1>4. QED
  BY NextCases, <1>1, <1>2, <1>3, ExitFrame, StrangerFrame, WorkerFrame, ListenerFrame
     DEF Assign, TopStart, TopCreateStreams, ConnectStream, SendHello, AwaitWelcome,
         AcceptStream, StreamsCreated, OnServerMessage, TopNothing, Poll,
         OnStreamTerminated, OnTerminate, OnShutdown, CollectOne, AllCollected,
         SendResults, ReadResults, CtrlC, Crash, chanVars

\* StartLoad stays published, and TopRunning alone publishes it.
LEMMA StartedSteps ==
  ASSUME IndInv, Next, NEW q \in Roles
  PROVE  /\ Started(q) => Started(q)'
         /\ Started(q)' => Started(q) \/ TopRunning(q)
<1>0. published[q] \in Seq(Signals)
  BY DEF IndInv, TypeOK, ChanTypeOK
<1>1. ASSUME NEW g, published'[q] = Append(published[q], g)
      PROVE  /\ Started(q) => Started(q)'
             /\ Started(q)' => Started(q) \/ g = "StartLoad"
  <2>1. \A k \in DOMAIN published[q] : k \in DOMAIN published'[q]
                                       /\ published'[q][k] = published[q][k]
    BY <1>0, <1>1
  <2>2. \A k \in DOMAIN published'[q] :
          (k \in DOMAIN published[q] /\ published'[q][k] = published[q][k])
            \/ published'[q][k] = g
    BY <1>0, <1>1, AppendIndex
  <2>3. QED
    BY <2>1, <2>2 DEF Started
<1>2. CASE published'[q] = published[q]
  BY <1>2 DEF Started
<1>3. CASE TopRunning(q) /\ published'[q] = Append(published[q], "StartLoad")
  BY <1>1, <1>3
<1>4. CASE published'[q] = Append(published[q], "Terminate")
  BY <1>1, <1>4
<1>5. QED
  BY <1>2, <1>3, <1>4, PublishSteps

\* A worker runs only after StartLoad, and an Ok is final.
LEMMA TaskSteps ==
  ASSUME IndInv, Next, NEW q \in Roles, NEW j \in Ids
  PROVE  \/ task'[q][j] = task[q][j]
         \/ task'[q][j] = "waiting" /\ j = index[q]
         \/ task'[q][j] = "running" /\ task[q][j] = "waiting" /\ Started(q)
         \/ task'[q][j] = "ok" /\ task[q][j] = "running"
         \/ task'[q][j] = "err" /\ task[q][j] # "ok"
<1> DEFINE Goal == \/ task'[q][j] = task[q][j]
                   \/ task'[q][j] = "waiting" /\ j = index[q]
                   \/ task'[q][j] = "running" /\ task[q][j] = "waiting" /\ Started(q)
                   \/ task'[q][j] = "ok" /\ task[q][j] = "running"
                   \/ task'[q][j] = "err" /\ task[q][j] # "ok"
<1>0. task \in [Roles -> [Ids -> TaskStates]] /\ published \in [Roles -> Seq(Signals)]
      /\ seen \in [Roles -> [Ids -> Nat]]
  BY DEF IndInv, TypeOK, WorkTypeOK, ChanTypeOK
<1>1. ASSUME NEW r \in Roles, NEW i, NEW o, task' = [task EXCEPT ![r][i] = o]
      PROVE  task'[q][j] = task[q][j] \/ (r = q /\ i = j /\ task'[q][j] = o)
  BY <1>0, <1>1
<1>2. ASSUME NEW r \in Roles, NEW c, Register(r, c) PROVE Goal
  BY <1>1, <1>2 DEF Register
<1>3. ASSUME NEW r \in Roles, NEW i \in Ids, WorkerStep(r, i) PROVE Goal
  <2>1. ASSUME AwaitStart(r, i), Signal(r, i) = "StartLoad" PROVE Started(r)
    <3> DEFINE n == seen[r][i] + 1
    <3>1. Len(published[r]) \in Nat /\ seen[r][i] \in Nat
      BY <1>0
    <3>2. Len(published[r]) - seen[r][i] = 1 /\ published[r][n] = "StartLoad"
      BY <2>1, <3>1 DEF Signal
    <3>3. n \in DOMAIN published[r]
      BY <1>0, <3>1, <3>2
    <3>4. QED
      BY <3>2, <3>3 DEF Started
  <2>2. CASE AwaitStart(r, i)
    <3>1. task[r][i] = "waiting"
      BY <2>2 DEF AwaitStart
    <3>2. CASE Return(r, i, "err")
      BY <1>1, <3>1, <3>2 DEF Return
    <3>3. CASE Signal(r, i) = "StartLoad" /\ task' = [task EXCEPT ![r][i] = "running"]
      BY <1>1, <2>1, <2>2, <3>1, <3>3
    <3>4. QED
      BY <2>2, <3>2, <3>3 DEF AwaitStart
  <2>3. CASE task[r][i] = "running" /\ \E o \in {"ok", "err"} : Return(r, i, o)
    BY <1>1, <2>3 DEF Return
  <2>4. QED
    BY <1>3, <2>2, <2>3 DEF WorkerStep, CheckSignal, TimeUp, StreamClosed, ClosedOutcome
<1>4. ASSUME NEW r \in Roles, Crash(r) PROVE Goal
  BY <1>0, <1>4 DEF Crash, Live
<1>5. CASE UNCHANGED task
  BY <1>5
<1>6. QED
  BY WorkFrame, <1>2, <1>3, <1>4, <1>5, TwoRoles
     DEF workVars, AcceptStream, OnStreamTerminated, CollectOne

LEMMA RunningStep ==
  ASSUME IndInv, Next
  PROVE  RunningInv'
<1>0. RunningInv /\ WorkTypeOK
  BY DEF IndInv, TypeOK
<1>1. RunningKnown' => index'["server"] = Total
  BY <1>0, RunningKnownSteps, LastAccepted, TotalStays, TwoRoles DEF RunningInv
<1>2. ASSUME NEW r \in Roles, Started(r)'
      PROVE  index'[r] = Total /\ index'["server"] = Total
  <2>1. CASE Started(r)
    BY <1>0, <2>1, TotalStays, TwoRoles DEF RunningInv
  <2>2. CASE TopRunning(r)
    <3>1. state[r] = "Running" /\ pc[r] = "top"
      BY <2>2 DEF TopRunning, StartsLoad, AtTop
    <3>2. index["server"] = Total
      BY <1>0, <3>1, TwoRoles DEF RunningInv, RunningKnown
    <3>3. index[r] = Total
      BY <3>1, <3>2, ClientHasAll, TwoRoles
    <3>4. QED
      BY <3>2, <3>3, TotalStays, TwoRoles
  <2>3. QED
    BY <1>2, <2>1, <2>2, StartedSteps
<1>3. ASSUME NEW r \in Roles, NEW i \in Ids, task'[r][i] \in {"running", "ok"}
      PROVE  Started(r)'
  <2>1. Started(r)
    BY <1>0, <1>3, TaskSteps DEF RunningInv
  <2>2. QED
    BY <2>1, StartedSteps
<1>4. ASSUME NEW r \in Roles, NEW i \in Ids, task[r][i] = "ok" PROVE task'[r][i] = "ok"
  <2>1. index[r] = Total
    BY <1>0, <1>4 DEF RunningInv
  <2>2. i # index[r]
    BY <2>1, IdsNat
  <2>3. QED
    BY <1>4, <2>2, TaskSteps
<1>5. ASSUME NEW r \in Roles, NEW k \in DOMAIN inbox'[r],
             inbox'[r][k].kind = "StreamTerminated"
      PROVE  task'[r][inbox'[r][k].id] = "ok"
  <2>0. inbox[r] \in Seq(InboxMsgs)
    BY DEF IndInv, TypeOK, ChanTypeOK
  <2>1. \A l \in DOMAIN inbox[r] : inbox[r][l].kind = "StreamTerminated" =>
          task'[r][inbox[r][l].id] = "ok"
    <3>1. ASSUME NEW l \in DOMAIN inbox[r], inbox[r][l].kind = "StreamTerminated"
          PROVE  inbox[r][l].id \in Ids /\ task[r][inbox[r][l].id] = "ok"
      BY <1>0, <2>0, <3>1, MessageTypes DEF RunningInv
    <3>2. QED
      BY <1>4, <3>1
  <2>2. ASSUME NEW m, inbox'[r] = Append(inbox[r], m)
        PROVE  (\E l \in DOMAIN inbox[r] : inbox'[r][k] = inbox[r][l]) \/ inbox'[r][k] = m
    BY <1>5, <2>0, <2>2, AppendIndex
  <2>3. CASE inbox'[r] = inbox[r]
    BY <1>5, <2>1, <2>3
  <2>4. CASE inbox[r] # <<>> /\ inbox'[r] = Tail(inbox[r])
    BY <1>5, <2>0, <2>1, <2>4, TailIndex
  <2>5. CASE inbox'[r] = Append(inbox[r], TerminateMsg)
    BY <1>5, <2>1, <2>2, <2>5 DEF TerminateMsg
  <2>6. ASSUME NEW i \in Ids, task'[r][i] = "ok",
               inbox'[r] = Append(inbox[r], StreamTerminated(i))
        PROVE  task'[r][inbox'[r][k].id] = "ok"
    BY <1>5, <2>1, <2>2, <2>6 DEF StreamTerminated
  <2>7. CASE inbox'[r] = Append(inbox[r], CreateStream(lconn))
    BY <1>5, <2>1, <2>2, <2>7 DEF CreateStream
  <2>8. QED
    BY <2>3, <2>4, <2>5, <2>6, <2>7, InboxSteps
<1>6. QED
  BY <1>1, <1>2, <1>3, <1>5 DEF RunningInv

-----------------------------------------------------------------------------
(* PhaseInv and ResultsInv.                                                *)

\* The server's phase is stored by Assign alone.
LEMMA ServerState ==
  ASSUME IndInv, Next
  PROVE  Assign \/ state'["server"] = state["server"]
<1>0. state \in [Roles -> States]
  BY DEF IndInv, TypeOK, CtrlTypeOK
<1>1. ASSUME NEW r \in Roles, NEW s, SetState(r, s) PROVE state'["server"] = state["server"]
  BY <1>0, <1>1, TwoRoles DEF SetState, Abort
<1>2. CASE OnServerMessage
  BY <1>0, <1>2, TwoRoles DEF OnServerMessage, Abort
<1>3. CASE UNCHANGED state
  BY <1>3
<1>4. QED
  BY NextCases, <1>1, <1>2, <1>3, ExitFrame, StrangerFrame, WorkerFrame, ListenerFrame,
     TwoRoles
     DEF TopStart, TopCreateStreams, ConnectStream, SendHello, AwaitWelcome,
         AcceptStream, StreamsCreated, TopRunning, TopStopWorkers,
         TopNothing, Poll, OnStreamTerminated, OnTerminate, OnShutdown, CollectOne,
         AllCollected, SendResults, ReadResults, CtrlC, Crash, ctrlVars

\* The server announces ExchangeResults only after its last worker.
LEMMA TargetSteps ==
  ASSUME IndInv, Next
  PROVE  \/ target' = target
         \/ target' # "ExchangeResults"
         \/ /\ OnStreamTerminated("server")
            /\ LastWorkerDone("server", Head(inbox["server"]).id)
<1>1. ASSUME NEW r \in Roles, NEW s, SetState(r, s) PROVE target' = target \/ target' = s
  BY <1>1 DEF SetState, Abort
<1>2. ASSUME NEW r \in Roles, OnStreamTerminated(r)
      PROVE  \/ target' = target
             \/ /\ OnStreamTerminated("server")
                /\ LastWorkerDone("server", Head(inbox["server"]).id)
  <2>1. CASE LastWorkerDone(r, Head(inbox[r]).id)
    BY <1>2, <2>1 DEF LastWorkerDone
  <2>2. CASE ~LastWorkerDone(r, Head(inbox[r]).id)
    BY <1>2, <2>2 DEF OnStreamTerminated
  <2>3. QED
    BY <2>1, <2>2
<1>3. CASE UNCHANGED target
  BY <1>3
<1>4. CASE OnServerMessage
  BY <1>4 DEF OnServerMessage, Abort
<1>5. ASSUME NEW r \in Roles, OnTerminate(r) \/ OnShutdown(r)
      PROVE  target' = target \/ target' = "Terminate"
  BY <1>1, <1>5 DEF OnTerminate, OnShutdown
<1>6. CASE TopStart \/ AcceptStream
  <2>1. target' = target \/ target' \in {"CreateStreams", "Running"}
    BY <1>1, <1>6, TwoRoles DEF TopStart, AcceptStream
  <2>2. QED
    BY <2>1
<1>7. QED
  BY NextCases, <1>2, <1>3, <1>4, <1>5, <1>6, ExitFrame, StrangerFrame, WorkerFrame,
     ListenerFrame
     DEF Assign, TopCreateStreams, ConnectStream, SendHello, AwaitWelcome,
         StreamsCreated, TopRunning, TopStopWorkers, TopNothing, Poll, CollectOne,
         AllCollected, SendResults, ReadResults, CtrlC, Crash, ctrlVars

LEMMA PhaseStep ==
  ASSUME IndInv, Next
  PROVE  PhaseInv'
<1>0. PhaseInv /\ pc \in [Roles -> PCs]
  BY DEF IndInv, TypeOK, CtrlTypeOK
<1>1. ASSUME state'["server"] = state["server"], NEW r \in Roles, NEW l, Goto(r, l),
             r = "server" =>
               /\ l \in {"poll", "select"} => state[r] \in {"CreateStreams", "Running"}
               /\ l = "assign" => state[r] \in {"Start", "CreateStreams", "Running"}
               /\ l = "collect" => state[r] \in {"ExchangeResults", "Terminate"}
      PROVE  PhaseInv'
  BY <1>0, <1>1 DEF PhaseInv, Goto
<1>2. ASSUME state'["server"] = state["server"], NEW r \in Roles, NEW s, SetState(r, s),
             r = "server" => pc[r] = "select" \/ state[r] = "Start"
      PROVE  PhaseInv'
  <2>1. r = "server" => state[r] \in {"Start", "CreateStreams", "Running"}
    BY <1>0, <1>2 DEF PhaseInv
  <2>2. QED
    BY <1>1, <1>2, <2>1 DEF SetState, Abort
<1>3. CASE UNCHANGED pc /\ state'["server"] = state["server"]
  BY <1>0, <1>3 DEF PhaseInv
<1>4. CASE Assign
  BY <1>0, <1>4, TwoRoles DEF Assign, Goto, PhaseInv
<1>5. CASE state'["server"] = state["server"]
  <2>1. CASE TopStart
    BY <1>2, <1>5, <2>1, TwoRoles DEF TopStart
  <2>2. CASE AcceptStream
    BY <1>1, <1>2, <1>5, <2>2, TwoRoles DEF AcceptStream, NextMsg
  <2>3. CASE TopCreateStreams \/ ConnectStream \/ SendHello \/ AwaitWelcome
             \/ StreamsCreated \/ OnServerMessage
    BY <1>1, <1>5, <2>3, TwoRoles
       DEF TopCreateStreams, ConnectStream, SendHello, AwaitWelcome, StreamsCreated,
           OnServerMessage, Abort
  <2>4. ASSUME NEW r \in Roles, TopRunning(r) PROVE PhaseInv'
    BY <1>1, <1>5, <2>4 DEF TopRunning, StartsLoad
  <2>5. ASSUME NEW r \in Roles, TopStopWorkers(r) PROVE PhaseInv'
    BY <1>1, <1>5, <2>5 DEF TopStopWorkers, Stopping
  <2>6. ASSUME NEW r \in Roles, TopNothing(r) PROVE PhaseInv'
    BY <1>1, <1>5, <2>6, TwoRoles DEF TopNothing
  <2>7. ASSUME NEW r \in Roles, Poll(r) PROVE PhaseInv'
    BY <1>0, <1>1, <1>5, <2>7 DEF Poll, PhaseInv
  <2>8. ASSUME NEW r \in Roles, OnStreamTerminated(r) PROVE PhaseInv'
    BY <1>1, <1>2, <1>5, <2>8 DEF OnStreamTerminated, NextMsg
  <2>9. ASSUME NEW r \in Roles, OnTerminate(r) \/ OnShutdown(r) PROVE PhaseInv'
    BY <1>2, <1>5, <2>9 DEF OnTerminate, OnShutdown, NextMsg
  <2>10. ASSUME NEW r \in Roles, AllCollected(r) PROVE PhaseInv'
    BY <1>1, <1>5, <2>10 DEF AllCollected, AfterCollect
  <2>11. ASSUME NEW r \in Roles, SendResults(r) \/ ReadResults(r) PROVE PhaseInv'
    BY <1>1, <1>5, <2>11 DEF SendResults, ReadResults
  <2>12. ASSUME NEW r \in Roles, Crash(r) PROVE PhaseInv'
    BY <1>0, <1>5, <2>12, TwoRoles DEF Crash, PhaseInv
  <2>13. QED
    BY NextCases, <1>3, <1>4, <1>5, <2>1, <2>2, <2>3, <2>4, <2>5, <2>6, <2>7, <2>8, <2>9,
       <2>10, <2>11, <2>12, ExitFrame, StrangerFrame, WorkerFrame, ListenerFrame
       DEF CollectOne, CtrlC, ctrlVars
<1>6. QED
  BY <1>4, <1>5, ServerState

LEMMA ResultsGrow ==
  ASSUME IndInv, Next, NEW q \in Roles
  PROVE  results[q] \subseteq results'[q] /\ results'[q] \subseteq Ids
<1>0. results \in [Roles -> SUBSET Ids] /\ results' \in [Roles -> SUBSET Ids]
  BY CtrlTypeStep DEF IndInv, TypeOK, CtrlTypeOK
<1>1. ASSUME NEW r \in Roles, NEW i, Collect(r, i) PROVE results[q] \subseteq results'[q]
  BY <1>0, <1>1 DEF Collect
<1>2. CASE UNCHANGED results
  BY <1>0, <1>2
<1>3. QED
  BY NextCases, <1>0, <1>1, <1>2, ExitFrame, StrangerFrame, WorkerFrame, ListenerFrame
     DEF Assign, TopStart, TopCreateStreams, ConnectStream, SendHello, AwaitWelcome,
         AcceptStream, StreamsCreated, OnServerMessage, TopRunning, TopStopWorkers,
         TopNothing, Poll, OnStreamTerminated, OnTerminate, OnShutdown, CollectOne,
         AllCollected, SendResults, ReadResults, CtrlC, Crash, ctrlVars

\* A worker that reported is given up for its result; its number was given out.
LEMMA CollectKeeps ==
  ASSUME IndInv, NEW r \in Roles, OnStreamTerminated(r)
  PROVE  /\ workers[r] \cup results[r] \subseteq workers'[r] \cup results'[r]
         /\ workers'[r] = workers[r] \ {Head(inbox[r]).id}
         /\ index["server"] = Total
<1> DEFINE i == Head(inbox[r]).id
<1>1. /\ inbox[r][1].id = i /\ 1 \in DOMAIN inbox[r] /\ i \in Ids
      /\ inbox[r][1].kind = "StreamTerminated"
  BY NextMsgType, MessageTypes DEF OnStreamTerminated, IndInv, TypeOK
<1>2. task[r][i] = "ok"
  BY <1>1 DEF IndInv, RunningInv
<1>3. index["server"] = Total
  BY <1>1, <1>2 DEF IndInv, RunningInv
<1>4. /\ workers'[r] = workers[r] \ {i}
      /\ i \in workers[r] => results'[r] = results[r] \cup {i}
      /\ i \notin workers[r] => results'[r] = results[r]
  BY <1>2 DEF OnStreamTerminated, Collect, IndInv, TypeOK, CtrlTypeOK, WorkTypeOK
<1>5. QED
  BY <1>3, <1>4

LEMMA ResultsStep ==
  ASSUME IndInv, Next
  PROVE  ResultsInv'
<1> DEFINE Kept == \A j \in Ids : j < index["server"] =>
                     j \in workers["server"] \cup results["server"]
<1>0. ResultsInv /\ PhaseInv /\ WorkTypeOK /\ "server" \in Roles
  BY TwoRoles DEF IndInv, TypeOK
<1>1. ASSUME state'["server"] \notin {"ExchangeResults", "Terminate"} PROVE Kept'
  <2>1. state["server"] \notin {"ExchangeResults", "Terminate"}
    BY <1>0, <1>1, ServerState DEF Assign, PhaseInv
  <2>2. Kept
    BY <1>0, <2>1 DEF ResultsInv
  <2>3. CASE workers'["server"] = workers["server"] /\ index'["server"] = index["server"]
    BY <1>0, <2>2, <2>3, ResultsGrow
  <2>4. CASE AcceptStream
    <3>1. /\ workers'["server"] = workers["server"] \cup {index["server"]}
          /\ index'["server"] = index["server"] + 1
      BY <1>0, <2>4 DEF AcceptStream, Register, WorkTypeOK
    <3>2. \A j \in Ids : j < index["server"] + 1 => j < index["server"] \/ j = index["server"]
      <4>1. index["server"] \in Nat
        BY <1>0, IdsNat DEF WorkTypeOK
      <4>2. QED
        BY <4>1, IdsNat
    <3>3. QED
      BY <1>0, <2>2, <3>1, <3>2, ResultsGrow
  <2>5. ASSUME OnStreamTerminated("server") PROVE Kept'
    <3>1. index' = index
      BY <2>5 DEF OnStreamTerminated
    <3>2. QED
      BY <1>0, <2>2, <2>5, <3>1, CollectKeeps
  <2>6. ASSUME NEW i \in Ids, CollectOne("server", i) PROVE FALSE
    BY <1>0, <2>1, <2>6 DEF CollectOne, PhaseInv
  <2>7. ASSUME NEW i, Collect("client", i), UNCHANGED index
        PROVE  workers'["server"] = workers["server"] /\ index'["server"] = index["server"]
    BY <1>0, <2>7, TwoRoles DEF Collect, WorkTypeOK
  <2>8. ASSUME NEW r \in Roles, OnStreamTerminated(r) PROVE Kept'
    BY <2>3, <2>5, <2>7, <2>8, TwoRoles DEF OnStreamTerminated
  <2>9. ASSUME NEW r \in Roles, NEW i \in Ids, CollectOne(r, i) PROVE Kept'
    BY <2>3, <2>6, <2>7, <2>9, TwoRoles DEF CollectOne
  <2>10. CASE Register("client", index["client"])
    BY <1>0, <2>3, <2>10, TwoRoles DEF Register, WorkTypeOK
  <2>11. CASE UNCHANGED <<workers, index>>
    BY <2>3, <2>11
  <2>12. QED
    BY WorkFrame, <2>4, <2>8, <2>9, <2>10, <2>11, WorkerFrame DEF workVars, Crash
<1>2. ASSUME "ExchangeResults" \in {target', state'["server"]}
      PROVE  results'["server"] = Ids
  <2>1. CASE "ExchangeResults" \in {target, state["server"]}
    BY <1>0, <2>1, ResultsGrow DEF ResultsInv
  <2>2. CASE /\ OnStreamTerminated("server")
             /\ LastWorkerDone("server", Head(inbox["server"]).id)
    <3>1. state["server"] \notin {"ExchangeResults", "Terminate"}
      BY <1>0, <2>2 DEF OnStreamTerminated, NextMsg, PhaseInv
    <3>2. workers'["server"] = {} /\ index["server"] = Total
      BY <1>0, <2>2, CollectKeeps DEF LastWorkerDone
    <3>3. \A j \in Ids : j \in workers["server"] \cup results["server"]
      BY <1>0, <3>1, <3>2, IdsNat DEF ResultsInv
    <3>4. QED
      BY <1>0, <2>2, <3>2, <3>3, CollectKeeps, ResultsGrow
  <2>3. Assign => state'["server"] = target /\ target' = target
    BY <1>0 DEF Assign, IndInv, TypeOK, CtrlTypeOK
  <2>4. QED
    BY <1>2, <2>1, <2>2, <2>3, ServerState, TargetSteps
<1>3. QED
  BY <1>1, <1>2 DEF ResultsInv

-----------------------------------------------------------------------------
(* The theorems.                                                           *)

LEMMA InitHolds == Init => IndInv
<1> SUFFICES ASSUME Init PROVE IndInv
  OBVIOUS
<1> USE DEF Init
<1>1. TypeOK
  <2>1. CtrlTypeOK
    BY DEF CtrlTypeOK, PCs, States
  <2>2. ChanTypeOK
    BY DEF ChanTypeOK
  <2>3. WorkTypeOK
    BY IdsNat DEF WorkTypeOK, TaskStates
  <2>4. ListenerTypeOK
    BY DEF ListenerTypeOK
  <2>5. QED
    BY <2>1, <2>2, <2>3, <2>4 DEF TypeOK
<1>2. ConnectingInv /\ BacklogInv
  BY StrangersApart, TwoRoles, IdsNat DEF ConnectingInv, BacklogInv, Handling
<1>3. QueueInv /\ NumberingInv
  BY TwoRoles, IdsNat DEF QueueInv, NumberingInv, CreateAt
<1>4. WorkersInv /\ PhaseInv
  BY TwoRoles DEF WorkersInv, PhaseInv
<1>5. RunningInv
  BY TwoRoles DEF RunningInv, RunningKnown, Started
<1>6. ResultsInv
  BY TwoRoles, IdsNat DEF ResultsInv
<1>7. QED
  BY <1>1, <1>2, <1>3, <1>4, <1>5, <1>6 DEF IndInv

LEMMA StutterHolds ==
  ASSUME IndInv, UNCHANGED vars
  PROVE  IndInv'
<1> USE DEF vars, ctrlVars, chanVars, workVars, lstVars
<1>1. TypeOK'
  BY DEF IndInv, TypeOK, CtrlTypeOK, ChanTypeOK, WorkTypeOK, ListenerTypeOK
<1>2. ConnectingInv' /\ BacklogInv'
  BY DEF IndInv, ConnectingInv, BacklogInv, Handling
<1>3. QueueInv' /\ NumberingInv' /\ WorkersInv'
  BY DEF IndInv, QueueInv, NumberingInv, WorkersInv, CreateAt
<1>4. RunningInv' /\ PhaseInv' /\ ResultsInv'
  BY DEF IndInv, RunningInv, RunningKnown, Started, PhaseInv, ResultsInv
<1>5. QED
  BY <1>1, <1>2, <1>3, <1>4 DEF IndInv

\* The inductive invariant: every step of either process, of its workers, of the
\* listener and of the environment keeps the two numberings of the streams, the
\* queues between the tasks and the phases in step.
THEOREM Invariance == Spec => []IndInv
<1>1. IndInv /\ [Next]_vars => IndInv'
  <2> SUFFICES ASSUME IndInv, [Next]_vars PROVE IndInv'
    OBVIOUS
  <2>1. CASE Next
    BY <2>1, TypeStep, ConnectingStep, BacklogStep, QueueStep, NumberingStep, WorkersStep,
       RunningStep, PhaseStep, ResultsStep DEF IndInv
  <2>2. CASE UNCHANGED vars
    BY <2>2, StutterHolds
  <2>3. QED
    BY <2>1, <2>2
<1>2. QED
  BY <1>1, InitHolds, PTL DEF Spec

\* Every variable keeps to its set of values; in particular stream_index never
\* passes the number of streams, whatever arrives in whatever order.
THEOREM TypeCorrect == Spec => []TypeOK
<1>1. IndInv => TypeOK
  BY DEF IndInv
<1>2. QED
  BY <1>1, Invariance, PTL

\* Neither side broadcasts StartLoad before every stream is accepted by the server
\* and registered on the side that broadcasts (accept_stream, run_controller).
THEOREM StartsWhole == Spec => []LoadStartsWhole
<1>1. IndInv => LoadStartsWhole
  <2> SUFFICES ASSUME IndInv, NEW r \in Roles, Loaded(r)
               PROVE  index[r] = Total /\ index["server"] = Total
    BY DEF LoadStartsWhole
  <2>1. published[r] \in Seq(Signals)
    BY DEF IndInv, TypeOK, ChanTypeOK
  <2>2. Started(r)
    BY <2>1 DEF Loaded, Started
  <2>3. QED
    BY <2>2 DEF IndInv, RunningInv
<1>2. QED
  BY <1>1, Invariance, PTL

\* Once the load starts, stream j of the server is stream j of the client and one
\* of its ends sends: the numbering is gapless and the flip of a bidirectional
\* server matches it (create_and_register_stream_worker on both sides).
THEOREM Pairing == Spec => []StreamsPaired
<1>1. IndInv => StreamsPaired
  <2> SUFFICES ASSUME IndInv, Loaded("server"), NEW j \in Ids
               PROVE  conn["server"][j] = j /\ Sends("server", j) # Sends("client", j)
    BY DEF StreamsPaired
  <2>1. published["server"] \in Seq(Signals)
    BY TwoRoles DEF IndInv, TypeOK, ChanTypeOK
  <2>2. index["server"] = Total
    BY <2>1, TwoRoles DEF Loaded, Started, IndInv, RunningInv
  <2> DEFINE m == Total - 1
             C == conn["server"]
  <2>3. m \in Ids /\ j <= m /\ m < index["server"] /\ j < index["server"]
    BY <2>2, IdsNat
  <2>4. /\ C[j] \in Ids /\ C[m] \in Ids /\ j <= C[j]
        /\ m - j <= C[m] - C[j]
    BY <2>3 DEF IndInv, NumberingInv
  <2>5. C[j] = j
    BY <2>3, <2>4, IdsNat
  <2>6. Sends("server", j) # Sends("client", j)
    BY ExactlyOneEndSends, ConstantsAssumption DEF Sends, Ids, Total
  <2>7. QED
    BY <2>5, <2>6
<1>2. QED
  BY <1>1, Invariance, PTL

\* The server goes on to ExchangeResults only with the results of every stream.
THEOREM ExchangeIsComplete == Spec => []ExchangeComplete
<1>1. IndInv => ExchangeComplete
  BY DEF IndInv, ResultsInv, ExchangeComplete
<1>2. QED
  BY <1>1, Invariance, PTL
=============================================================================
