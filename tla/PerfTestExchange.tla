-------------------------- MODULE PerfTestExchange --------------------------
(***************************************************************************)
(* The two ends of a test, for every value of the constants: what the two  *)
(* sides exchange; that a test with its listener, workers, channels and    *)
(* faults lives the life that TestLife describes; and, if its channel has  *)
(* room, that no stream is lost on its way to the server's controller.     *)
(***************************************************************************)
EXTENDS PerfTestOrder

-----------------------------------------------------------------------------
(* What a step does to the phases, the control socket and the results.     *)

\* Places where the controller is in its loop and not between two stores.
Loop == {"top", "connect", "hello", "welcome", "poll", "select"}

Wander(r) ==
  /\ pc[r] \in Loop /\ \E l \in Loop : Goto(r, l)
  /\ UNCHANGED <<state, target, ctl, results, peerResults>>

\* The result of one more stream, or none.
Gathers(r) ==
  results' = results \/ \E i \in Ids : results' = [results EXCEPT ![r] = @ \cup {i}]

Gathered(r) ==
  /\ pc[r] \in {"select", "collect"} /\ Gathers(r)
  /\ pc' = pc \/ (pc[r] = "select" /\ Goto(r, "top"))
  /\ UNCHANGED <<state, target, ctl, peerResults>>

GivesUp(r) ==
  /\ Alive(r) /\ Goto(r, "aborted")
  /\ results' = results \/ (pc[r] = "select" /\ Gathers(r))
  /\ UNCHANGED <<state, target, ctl, peerResults>>

\* set_state on the server, up to the lock.
Says(s) ==
  /\ pc["server"] \in {"top", "select"} /\ target = state["server"]
  /\ target \in DOMAIN Life!After /\ s \in {Life!After[target], "Terminate"}
  /\ results' = results \/ (pc["server"] = "select" /\ Gathers("server"))
  /\ s = "ExchangeResults" => results'["server"] = Ids
  /\ WriteCtl("server", SetStateMsg(s)) /\ target' = s /\ Goto("server", "assign")
  /\ UNCHANGED <<state, peerResults>>

Quits ==
  /\ pc["client"] = "select"
  /\ state' = [state EXCEPT !["client"] = "Terminate"] /\ Goto("client", "top")
  /\ UNCHANGED <<target, ctl, results, peerResults>>

Hears ==
  /\ pc["client"] = "select" /\ ctl["client"] # <<>>
  /\ ctl' = [ctl EXCEPT !["client"] = Tail(@)]
  /\ state' = IF Announces(1) THEN [state EXCEPT !["client"] = ctl["client"][1].state]
                              ELSE state
  /\ Goto("client", "top")
  /\ UNCHANGED <<target, results, peerResults>>

HandsIn(r) ==
  /\ pc[r] = "xsend" /\ WriteCtl(r, ResultsMsg(results[r]))
  /\ Goto(r, IF r = "client" THEN "xread" ELSE "done")
  /\ UNCHANGED <<state, target, results, peerResults>>

Takes(r) ==
  /\ pc[r] = "xread" /\ ctl[r] # <<>>
  /\ ctl' = [ctl EXCEPT ![r] = Tail(@)]
  /\ ctl[r][1].kind = "SendResults"
  /\ peerResults' = [peerResults EXCEPT ![r] = ctl[r][1].ids]
  /\ Goto(r, IF r = "client" THEN "done" ELSE "xsend")
  /\ UNCHANGED <<state, target, results>>

\* A message of another kind ends the exchange.
Misreads(r) ==
  /\ pc[r] = "xread" /\ ctl[r] # <<>>
  /\ ctl' = [ctl EXCEPT ![r] = Tail(@)] /\ Goto(r, "aborted")
  /\ UNCHANGED <<state, target, results, peerResults>>

Stops(r) ==
  /\ pc[r] = "top" /\ Stopping(r) /\ Goto(r, "collect")
  /\ UNCHANGED <<state, target, ctl, results, peerResults>>

Stores ==
  /\ pc["server"] = "assign" /\ Goto("server", "top")
  /\ state' = [state EXCEPT !["server"] = target]
  /\ UNCHANGED <<target, ctl, results, peerResults>>

Leaves(r) ==
  /\ pc[r] = "collect" /\ Goto(r, AfterCollect(r))
  /\ UNCHANGED <<state, target, ctl, results, peerResults>>

RoleSteps(r) ==
  \/ Wander(r) \/ Gathered(r) \/ GivesUp(r) \/ HandsIn(r) \/ Takes(r) \/ Misreads(r)
  \/ Stops(r) \/ Leaves(r)

LEMMA AfterFacts ==
  /\ DOMAIN Life!After = {"Start", "CreateStreams", "Running"}
  /\ Life!After["Start"] = "CreateStreams" /\ Life!After["CreateStreams"] = "Running"
  /\ Life!After["Running"] = "ExchangeResults"
  BY DEF Life!After

\* The types the exchange needs.
LEMMA ExchangeTypes ==
  ASSUME IndInv
  PROVE  /\ pc \in [Roles -> PCs] /\ state \in [Roles -> States] /\ target \in States
         /\ results \in [Roles -> SUBSET Ids] /\ peerResults \in [Roles -> SUBSET Ids]
         /\ ctl \in [Roles -> Seq(CtlMsgs)]
         /\ ctl["client"] \in Seq(CtlMsgs) /\ ctl["server"] \in Seq(CtlMsgs)
  BY TwoRoles DEF IndInv, TypeOK, CtrlTypeOK, ChanTypeOK

\* The three ways set_state goes.
LEMMA SetStateCases ==
  ASSUME NEW r \in Roles, NEW s, SetState(r, s)
  PROVE  \/ /\ r = "client" /\ state' = [state EXCEPT !["client"] = s]
            /\ Goto("client", "top") /\ UNCHANGED <<target, ctl>>
         \/ /\ r = "server" /\ WriteCtl("server", SetStateMsg(s)) /\ target' = s
            /\ Goto("server", "assign") /\ UNCHANGED state
         \/ Goto(r, "aborted") /\ UNCHANGED <<state, target, ctl>>
  BY DEF SetState, Abort

\* A worker's message comes to the server in Running only.
LEMMA TerminatedRunning ==
  ASSUME IndInv, OrderInv, OnStreamTerminated("server")
  PROVE  state["server"] = "Running"
<1>1. /\ inbox["server"][1].kind = "StreamTerminated" /\ 1 \in DOMAIN inbox["server"]
      /\ inbox["server"][1].id \in Ids /\ pc["server"] = "select"
  BY NextMsgType, MessageTypes, TwoRoles DEF OnStreamTerminated, NextMsg, IndInv, TypeOK
<1>2. Started("server")
  BY <1>1, TwoRoles DEF IndInv, RunningInv
<1>3. published["server"] # <<>>
  BY <1>2 DEF Started
<1>4. Rank(state["server"]) >= 2
  BY <1>1, <1>3, TwoRoles DEF OrderInv, SignalsInv, Stopped
<1>5. state["server"] \in {"CreateStreams", "Running"}
  BY <1>1 DEF IndInv, PhaseInv
<1>6. QED
  BY <1>4, <1>5, RankFacts

\* The last stream comes to the server in CreateStreams only.
LEMMA AcceptedCreating ==
  ASSUME IndInv, AcceptStream
  PROVE  state["server"] = "CreateStreams"
<1>1. pc["server"] = "select"
  BY DEF AcceptStream, NextMsg
<1>2. index["server"] # Total
  BY RoomForStream, IdsNat DEF AcceptStream
<1>3. state["server"] # "Running"
  BY <1>2 DEF IndInv, RunningInv, RunningKnown
<1>4. QED
  BY <1>1, <1>3 DEF IndInv, PhaseInv

\* Every step is one of those, or leaves all of it alone.
LEMMA TestSteps ==
  ASSUME IndInv, OrderInv, Next
  PROVE  \/ UNCHANGED <<pc, state, target, ctl, results, peerResults>>
         \/ Stores \/ Quits \/ Hears
         \/ \E s \in States : Says(s)
         \/ \E r \in Roles : RoleSteps(r)
<1>0. pc \in [Roles -> PCs] /\ ctl \in [Roles -> Seq(CtlMsgs)] /\ "server" \in Roles /\ "client" \in Roles
  BY ExchangeTypes, TwoRoles
<1>a. pc["server"] \in {"top", "select"} => target = state["server"]
  BY DEF OrderInv, AnnouncedInv
<1>b. pc["server"] = "select" => state["server"] \in DOMAIN Life!After
  BY AfterFacts DEF IndInv, PhaseInv
<1>1. CASE Assign
  BY <1>1 DEF Assign, Stores, chanVars
<1>2. CASE TopStart
  <2>1. /\ pc["server"] = "top" /\ state["server"] = "Start" /\ SetState("server", "CreateStreams")
        /\ UNCHANGED <<results, peerResults>>
    BY <1>2 DEF TopStart, AtTop
  <2>2. CASE Goto("server", "aborted") /\ UNCHANGED <<state, target, ctl>>
    BY <1>0, <2>1, <2>2 DEF RoleSteps, GivesUp, Alive, Ended
  <2>3. CASE /\ WriteCtl("server", SetStateMsg("CreateStreams")) /\ target' = "CreateStreams"
             /\ Goto("server", "assign") /\ UNCHANGED state
    BY <1>a, <2>1, <2>3, AfterFacts, Phases DEF Says
  <2>4. QED
    BY <1>0, <2>1, <2>2, <2>3, SetStateCases, TwoRoles
<1>3. CASE AcceptStream
  <2>1. pc["server"] = "select" /\ UNCHANGED <<results, peerResults>>
    BY <1>3 DEF AcceptStream, NextMsg
  <2>2. CASE Goto("server", "top") /\ UNCHANGED <<state, target, ctl>>
    BY <1>0, <2>1, <2>2 DEF RoleSteps, Wander, Loop
  <2>3. CASE Goto("server", "aborted") /\ UNCHANGED <<state, target, ctl>>
    BY <1>0, <2>1, <2>3 DEF RoleSteps, GivesUp, Alive, Ended
  <2>4. CASE /\ WriteCtl("server", SetStateMsg("Running")) /\ target' = "Running"
             /\ Goto("server", "assign") /\ UNCHANGED state
    BY <1>3, <1>a, <2>1, <2>4, AcceptedCreating, AfterFacts, Phases DEF Says
  <2>5. QED
    BY <1>0, <1>3, <2>2, <2>3, <2>4, SetStateCases, TwoRoles DEF AcceptStream
<1>4. CASE TopCreateStreams \/ ConnectStream \/ SendHello \/ AwaitWelcome \/ StreamsCreated
  BY <1>0, <1>4
     DEF TopCreateStreams, ConnectStream, SendHello, AwaitWelcome, StreamsCreated, chanVars, AtTop,
         RoleSteps, Wander, Loop, GivesUp, Alive, Ended
<1>5. CASE OnServerMessage
  <2>1. CASE Abort("client")
    BY <1>0, <1>5, <2>1 DEF OnServerMessage, Abort, RoleSteps, GivesUp, Alive, Ended
  <2>2. CASE ~Abort("client")
    <3>1. ctl["client"] # <<>> /\ Head(ctl["client"]) = ctl["client"][1]
      BY <1>0, <1>5, <2>2, HeadTailType DEF OnServerMessage
    <3>2. QED
      BY <1>5, <2>2, <3>1 DEF OnServerMessage, Hears, Announces
  <2>3. QED
    BY <2>1, <2>2
<1>6. ASSUME NEW r \in Roles, TopRunning(r) \/ TopNothing(r) \/ Poll(r) PROVE RoleSteps(r)
  BY <1>0, <1>6 DEF TopRunning, TopNothing, Poll, AtTop, chanVars, RoleSteps, Wander, Loop, GivesUp, Alive,
                    Ended
<1>7. ASSUME NEW r \in Roles, TopStopWorkers(r) PROVE RoleSteps(r)
  BY <1>7 DEF TopStopWorkers, AtTop, RoleSteps, Stops
<1>8. ASSUME NEW r \in Roles, NEW i, Collect(r, i), i \in Ids PROVE Gathers(r)
  BY <1>8 DEF Collect, Gathers
<1>9. ASSUME NEW r \in Roles, OnStreamTerminated(r)
      PROVE  RoleSteps(r) \/ \E s \in States : Says(s)
  <2> DEFINE i == Head(inbox[r]).id
  <2>1. pc[r] = "select" /\ Gathers(r) /\ UNCHANGED peerResults
    <3>1. i \in Ids
      BY <1>9, NextMsgType, MessageTypes DEF OnStreamTerminated, IndInv, TypeOK
    <3>2. QED
      BY <1>8, <1>9, <3>1 DEF OnStreamTerminated, NextMsg
  <2>2. CASE Goto(r, "top") /\ UNCHANGED <<state, target, ctl>>
    BY <2>1, <2>2 DEF RoleSteps, Gathered
  <2>3. CASE Goto(r, "aborted") /\ UNCHANGED <<state, target, ctl>>
    BY <2>1, <2>3 DEF RoleSteps, GivesUp, Alive, Ended
  <2>4. CASE /\ r = "server" /\ WriteCtl("server", SetStateMsg("ExchangeResults"))
             /\ target' = "ExchangeResults" /\ Goto("server", "assign") /\ UNCHANGED state
    <3>1. state["server"] = "Running"
      BY <1>9, <2>4, TerminatedRunning
    <3>2. results'["server"] = Ids
      BY <2>4, ResultsStep DEF ResultsInv
    <3>3. QED
      BY <1>a, <2>1, <2>4, <3>1, <3>2, AfterFacts, Phases DEF Says
  <2>5. \/ Goto(r, "top") /\ UNCHANGED <<state, target, ctl>>
        \/ r = "server" /\ SetState(r, "ExchangeResults")
    BY <1>9 DEF OnStreamTerminated, LastWorkerDone
  <2>6. QED
    BY <2>2, <2>3, <2>4, <2>5, SetStateCases, TwoRoles
<1>10. ASSUME NEW r \in Roles, OnTerminate(r) \/ OnShutdown(r)
       PROVE  Quits \/ RoleSteps(r) \/ \E s \in States : Says(s)
  <2>1. pc[r] = "select" /\ SetState(r, "Terminate") /\ UNCHANGED <<results, peerResults>>
    BY <1>10 DEF OnTerminate, OnShutdown, NextMsg
  <2>2. CASE Goto(r, "aborted") /\ UNCHANGED <<state, target, ctl>>
    BY <2>1, <2>2 DEF RoleSteps, GivesUp, Alive, Ended
  <2>3. CASE /\ r = "client" /\ state' = [state EXCEPT !["client"] = "Terminate"]
             /\ Goto("client", "top") /\ UNCHANGED <<target, ctl>>
    BY <2>1, <2>3 DEF Quits
  <2>4. CASE /\ r = "server" /\ WriteCtl("server", SetStateMsg("Terminate"))
             /\ target' = "Terminate" /\ Goto("server", "assign") /\ UNCHANGED state
    BY <1>a, <1>b, <2>1, <2>4, Phases DEF Says
  <2>5. QED
    BY <2>1, <2>2, <2>3, <2>4, SetStateCases
<1>11. ASSUME NEW r \in Roles, NEW i \in Ids, CollectOne(r, i) PROVE RoleSteps(r)
  BY <1>8, <1>11 DEF CollectOne, RoleSteps, Gathered, chanVars
<1>12. ASSUME NEW r \in Roles, AllCollected(r) PROVE RoleSteps(r)
  BY <1>12 DEF AllCollected, RoleSteps, Leaves, chanVars
<1>13. ASSUME NEW r \in Roles, SendResults(r) PROVE RoleSteps(r)
  BY <1>13 DEF SendResults, RoleSteps, HandsIn, GivesUp, Alive, Ended
<1>14. ASSUME NEW r \in Roles, ReadResults(r) PROVE RoleSteps(r)
  <2>1. ctl[r] # <<>> => Head(ctl[r]) = ctl[r][1]
    BY <1>0, HeadTailType
  <2>2. QED
    BY <1>14, <2>1 DEF ReadResults, RoleSteps, Takes, Misreads, GivesUp, Alive, Ended
<1>15. ASSUME NEW r \in Roles, Crash(r)
       PROVE  RoleSteps(r) \/ UNCHANGED <<pc, state, target, ctl, results, peerResults>>
  BY <1>0, <1>15 DEF Crash, RoleSteps, GivesUp, Goto, chanVars
<1>16. QED
  BY NextCases, <1>1, <1>2, <1>3, <1>4, <1>5, <1>6, <1>7, <1>9, <1>10, <1>11, <1>12, <1>13,
     <1>14, <1>15, ExitFrame, StrangerFrame, WorkerFrame, ListenerFrame
     DEF CtrlC, ctrlVars, chanVars

-----------------------------------------------------------------------------
(* What stays: a completed test, and results that were handed in.          *)

\* What the labels of TestSteps mean for one place.
LEMMA PlaceOf ==
  ASSUME IndInv, NEW r \in Roles, NEW l, Goto(r, l)
  PROVE  pc'[r] = l /\ \A q \in Roles : q # r => pc'[q] = pc[q]
  BY ExchangeTypes DEF Goto

\* Results are gathered on one side, before its exchange.
LEMMA ResultsKept ==
  ASSUME IndInv, OrderInv, Next, NEW q \in Roles, pc[q] \notin {"select", "collect"}
  PROVE  results'[q] = results[q]
<1>1. ASSUME NEW r \in Roles, r # q, Gathers(r) PROVE results'[q] = results[q]
  BY <1>1, ExchangeTypes DEF Gathers
<1>2. QED
  BY <1>1, TestSteps, TwoRoles
     DEF Stores, Quits, Hears, Says, RoleSteps, Wander, Gathered, GivesUp, HandsIn, Takes, Misreads,
         Stops, Leaves

\* A side that has completed the test has done so for good.
LEMMA CompletedStays ==
  ASSUME IndInv, OrderInv, Next, NEW q \in Roles, Completed(q)
  PROVE  Completed(q)'
<1>1. pc[q] = "done" /\ state[q] = "ExchangeResults"
  BY DEF Completed, Outcome, Alive
<1>2. pc'[q] = "done"
  <2>1. ASSUME NEW r \in Roles, NEW l, Goto(r, l), pc[r] # "done" PROVE pc'[q] = "done"
    BY <1>1, <2>1, PlaceOf
  <2>2. QED
    BY <1>1, <2>1, TestSteps, TwoRoles
       DEF Stores, Quits, Hears, Says, RoleSteps, Wander, Gathered, GivesUp, HandsIn, Takes, Misreads,
           Stops, Leaves, Loop, Alive, Ended
<1>3. state'[q] = "ExchangeResults"
  <2>1. ASSUME NEW r \in Roles, NEW s, state' = [state EXCEPT ![r] = s], pc[r] # "done"
        PROVE  state'[q] = "ExchangeResults"
    BY <1>1, <2>1, ExchangeTypes
  <2>2. CASE UNCHANGED state
    BY <1>1, <2>2
  <2>3. QED
    BY <2>1, <2>2, TestSteps, TwoRoles
       DEF Stores, Quits, Hears, Says, RoleSteps, Wander, Gathered, GivesUp, HandsIn, Takes, Misreads,
           Stops, Leaves
<1>4. QED
  BY <1>2, <1>3 DEF Completed, Outcome, Alive, Ended

\* What the client has handed in is not called back.
LEMMA HandedInStays ==
  ASSUME IndInv, OrderInv, Next, HandedIn
  PROVE  HandedIn' /\ results'["client"] = results["client"]
<1>1. pc["client"] \in {"xread", "done", "aborted"} /\ state["client"] = "ExchangeResults"
  BY DEF HandedIn
<1>2. pc'["client"] \in {"xread", "done", "aborted"}
  <2>1. ASSUME NEW r \in Roles, NEW l, Goto(r, l), r = "client" => l \in {"done", "aborted"}
        PROVE  pc'["client"] \in {"xread", "done", "aborted"}
    BY <1>1, <2>1, PlaceOf, TwoRoles
  <2>2. QED
    BY <1>1, <2>1, TestSteps, TwoRoles
       DEF Stores, Quits, Hears, Says, RoleSteps, Wander, Gathered, GivesUp, HandsIn, Takes, Misreads,
           Stops, Leaves, Loop
<1>3. state'["client"] = "ExchangeResults"
  BY <1>1, TestSteps, ExchangeTypes, TwoRoles
     DEF Stores, Quits, Hears, Says, RoleSteps, Wander, Gathered, GivesUp, HandsIn, Takes, Misreads,
         Stops, Leaves
<1>4. QED
  BY <1>1, <1>2, <1>3, ResultsKept, TwoRoles DEF HandedIn

-----------------------------------------------------------------------------
(* ExchangeInv.                                                            *)

\* Every step keeps the exchange within the phase.
LEMMA StopPhaseStep ==
  ASSUME IndInv, OrderInv, StopPhaseInv, Next
  PROVE  StopPhaseInv'
<1> DEFINE Fits(q) == /\ pc'[q] = "collect" => state'[q] \in {"ExchangeResults", "Terminate"}
                      /\ pc'[q] \in {"xsend", "xread"} => state'[q] = "ExchangeResults"
<1> SUFFICES ASSUME NEW q \in Roles PROVE Fits(q)
  BY DEF StopPhaseInv
<1>0. /\ pc[q] = "collect" => state[q] \in {"ExchangeResults", "Terminate"}
      /\ pc[q] \in {"xsend", "xread"} => state[q] = "ExchangeResults"
  BY DEF StopPhaseInv
<1>1. ASSUME pc'[q] = pc[q], state'[q] = state[q] PROVE Fits(q)
  BY <1>0, <1>1
<1>2. ASSUME NEW r \in Roles, UNCHANGED state, NEW l, Goto(r, l),
             l \in {"xsend", "xread"} => state[r] = "ExchangeResults",
             l = "collect" => state[r] \in {"ExchangeResults", "Terminate"}
      PROVE  Fits(q)
  BY <1>1, <1>2, PlaceOf
<1>3. CASE Stores \/ Quits \/ Hears
  BY <1>1, <1>3, PlaceOf, ExchangeTypes, TwoRoles DEF Stores, Quits, Hears
<1>4. ASSUME NEW s \in States, Says(s) PROVE Fits(q)
  BY <1>2, <1>4, TwoRoles DEF Says
<1>5. ASSUME NEW r \in Roles, RoleSteps(r) PROVE Fits(q)
  <2>1. CASE Wander(r) \/ GivesUp(r) \/ Misreads(r)
    BY <1>2, <2>1 DEF Wander, Loop, GivesUp, Misreads
  <2>2. CASE Gathered(r)
    BY <1>1, <1>2, <2>2 DEF Gathered
  <2>3. CASE HandsIn(r) \/ Takes(r)
    BY <1>2, <2>3 DEF HandsIn, Takes, StopPhaseInv
  <2>4. CASE Stops(r)
    BY <1>2, <2>4 DEF Stops, Stopping
  <2>5. CASE Leaves(r)
    BY <1>2, <2>5 DEF Leaves, AfterCollect, StopPhaseInv
  <2>6. QED
    BY <1>5, <2>1, <2>2, <2>3, <2>4, <2>5 DEF RoleSteps
<1>6. CASE UNCHANGED <<pc, state>>
  BY <1>1, <1>6
<1>7. QED
  BY <1>3, <1>4, <1>5, <1>6, TestSteps

\* What a step does to the messages on their way.
LEMMA WrittenTo ==
  ASSUME IndInv, NEW r \in Roles, NEW m, WriteCtl(r, m)
  PROVE  /\ ctl'[Peer(r)] = Append(ctl[Peer(r)], m) /\ ctl'[r] = ctl[r]
  BY ExchangeTypes, TwoRoles DEF WriteCtl, Peer

\* What a step does to the messages on their way to a side.
LEMMA OnTheWay ==
  ASSUME IndInv, OrderInv, Next, NEW q \in Roles
  PROVE  \/ ctl'[q] = ctl[q]
         \/ ctl[q] # <<>> /\ ctl'[q] = Tail(ctl[q])
         \/ /\ HandsIn(Peer(q)) /\ UNCHANGED state
            /\ ctl'[q] = Append(ctl[q], ResultsMsg(results[Peer(q)]))
         \/ /\ q = "client"
            /\ \E s \in States : Says(s) /\ ctl'[q] = Append(ctl[q], SetStateMsg(s))
<1>0. ctl \in [Roles -> Seq(CtlMsgs)] /\ \A r \in Roles : Peer(r) \in Roles /\ Peer(Peer(r)) = r
  BY ExchangeTypes, TwoRoles DEF Peer
<1>1. ASSUME NEW r \in Roles, ctl[r] # <<>>, ctl' = [ctl EXCEPT ![r] = Tail(@)]
      PROVE  ctl'[q] = ctl[q] \/ (ctl[q] # <<>> /\ ctl'[q] = Tail(ctl[q]))
  BY <1>0, <1>1
<1>2. CASE UNCHANGED ctl
  BY <1>2
<1>3. CASE Hears
  BY <1>1, <1>3, TwoRoles DEF Hears
<1>4. ASSUME NEW r \in Roles, Takes(r) \/ Misreads(r)
      PROVE  ctl'[q] = ctl[q] \/ (ctl[q] # <<>> /\ ctl'[q] = Tail(ctl[q]))
  BY <1>1, <1>4 DEF Takes, Misreads
<1>5. ASSUME NEW r \in Roles, HandsIn(r)
      PROVE  \/ ctl'[q] = ctl[q]
             \/ /\ HandsIn(Peer(q)) /\ UNCHANGED state
                /\ ctl'[q] = Append(ctl[q], ResultsMsg(results[Peer(q)]))
  <2>1. CASE r = q
    BY <1>5, <2>1, WrittenTo DEF HandsIn
  <2>2. CASE r # q
    <3>1. r = Peer(q) /\ Peer(r) = q
      BY <2>2, TwoRoles DEF Peer
    <3>2. QED
      BY <1>5, <3>1, WrittenTo DEF HandsIn
  <2>3. QED
    BY <2>1, <2>2
<1>6. ASSUME NEW s \in States, Says(s)
      PROVE  \/ ctl'[q] = ctl[q]
             \/ q = "client" /\ ctl'[q] = Append(ctl[q], SetStateMsg(s))
  <2>1. Peer("server") = "client" /\ "server" \in Roles
    BY TwoRoles DEF Peer
  <2>2. QED
    BY <1>6, <2>1, WrittenTo, TwoRoles DEF Says
<1>7. QED
  BY <1>2, <1>3, <1>4, <1>5, <1>6, TestSteps
     DEF Stores, Quits, RoleSteps, Wander, Gathered, GivesUp, Stops, Leaves

\* A side that hands in its results and is then done has completed the test.
LEMMA HandingIn ==
  ASSUME IndInv, StopPhaseInv, NEW r \in Roles, HandsIn(r), UNCHANGED state
  PROVE  /\ r = "server" => Completed("server")'
         /\ r = "client" => HandedIn'
         /\ results' = results
<1>1. state[r] = "ExchangeResults"
  BY DEF StopPhaseInv, HandsIn
<1>2. pc'[r] = IF r = "client" THEN "xread" ELSE "done"
  BY PlaceOf DEF HandsIn
<1>3. QED
  BY <1>1, <1>2, TwoRoles DEF HandsIn, HandedIn, Completed, Outcome, Alive, Ended

\* Every step keeps results on their way to the server.
LEMMA SentToServer ==
  ASSUME IndInv, OrderInv, StopPhaseInv, SentInv, Next, NEW k \in DOMAIN ctl'["server"]
  PROVE  HandedIn' /\ ctl'["server"][k] = ResultsMsg(results'["client"])
<1>0. /\ ctl["server"] \in Seq(CtlMsgs) /\ "client" \in Roles /\ "server" \in Roles
      /\ Peer("server") = "client"
  BY ExchangeTypes, TwoRoles DEF Peer
<1>1. ASSUME NEW j \in DOMAIN ctl["server"]
      PROVE  HandedIn' /\ ctl["server"][j] = ResultsMsg(results'["client"])
  BY <1>1, HandedInStays DEF SentInv
<1>2. CASE ctl'["server"] = ctl["server"]
  BY <1>1, <1>2
<1>3. CASE ctl["server"] # <<>> /\ ctl'["server"] = Tail(ctl["server"])
  <2>1. k + 1 \in DOMAIN ctl["server"] /\ ctl'["server"][k] = ctl["server"][k + 1]
    BY <1>0, <1>3, TailIndex
  <2>2. QED
    BY <1>1, <2>1
<1>4. CASE /\ HandsIn("client") /\ UNCHANGED state
           /\ ctl'["server"] = Append(ctl["server"], ResultsMsg(results["client"]))
  <2>1. HandedIn' /\ results' = results
    BY <1>0, <1>4, HandingIn
  <2>2. k \in DOMAIN Append(ctl["server"], ResultsMsg(results["client"]))
    BY <1>4
  <2>3. \/ k \in DOMAIN ctl["server"] /\ ctl'["server"][k] = ctl["server"][k]
        \/ ctl'["server"][k] = ResultsMsg(results["client"])
    BY <1>0, <1>4, <2>2, AppendIndex
  <2>4. QED
    BY <1>1, <2>1, <2>3
<1>5. QED
  BY <1>0, <1>2, <1>3, <1>4, OnTheWay, TwoRoles

\* Every step keeps results on their way to the client.
LEMMA SentToClient ==
  ASSUME IndInv, OrderInv, StopPhaseInv, SentInv, Next, NEW k \in DOMAIN ctl'["client"],
         ctl'["client"][k].kind # "SetState"
  PROVE  Completed("server")' /\ ctl'["client"][k] = ResultsMsg(results'["server"])
<1>0. /\ ctl["client"] \in Seq(CtlMsgs) /\ "client" \in Roles /\ "server" \in Roles
      /\ Peer("client") = "server"
  BY ExchangeTypes, TwoRoles DEF Peer
<1>1. ASSUME NEW j \in DOMAIN ctl["client"], ctl["client"][j].kind # "SetState"
      PROVE  Completed("server")' /\ ctl["client"][j] = ResultsMsg(results'["server"])
  <2>1. Completed("server") /\ ctl["client"][j] = ResultsMsg(results["server"])
    BY <1>1 DEF SentInv, Announces
  <2>2. pc["server"] = "done"
    BY <2>1 DEF Completed, Outcome, Alive
  <2>3. QED
    BY <1>0, <2>1, <2>2, CompletedStays, ResultsKept
<1>2. CASE ctl'["client"] = ctl["client"]
  BY <1>1, <1>2
<1>3. CASE ctl["client"] # <<>> /\ ctl'["client"] = Tail(ctl["client"])
  <2>1. k + 1 \in DOMAIN ctl["client"] /\ ctl'["client"][k] = ctl["client"][k + 1]
    BY <1>0, <1>3, TailIndex
  <2>2. QED
    BY <1>1, <2>1
<1>4. ASSUME NEW m, ctl'["client"] = Append(ctl["client"], m)
      PROVE  \/ k \in DOMAIN ctl["client"] /\ ctl'["client"][k] = ctl["client"][k]
             \/ ctl'["client"][k] = m
  <2>1. k \in DOMAIN Append(ctl["client"], m)
    BY <1>4
  <2>2. QED
    BY <1>0, <1>4, <2>1, AppendIndex
<1>5. CASE /\ HandsIn("server") /\ UNCHANGED state
           /\ ctl'["client"] = Append(ctl["client"], ResultsMsg(results["server"]))
  BY <1>0, <1>1, <1>4, <1>5, HandingIn
<1>6. ASSUME NEW s \in States, ctl'["client"] = Append(ctl["client"], SetStateMsg(s))
      PROVE  Completed("server")' /\ ctl'["client"][k] = ResultsMsg(results'["server"])
  <2>1. SetStateMsg(s).kind = "SetState"
    BY DEF SetStateMsg
  <2>2. QED
    BY <1>1, <1>4, <1>6, <2>1
<1>7. QED
  BY <1>0, <1>2, <1>3, <1>5, <1>6, OnTheWay, TwoRoles

LEMMA SentStep ==
  ASSUME IndInv, OrderInv, StopPhaseInv, SentInv, Next
  PROVE  SentInv'
  BY SentToServer, SentToClient DEF SentInv, Announces

\* How a side comes to send, and to complete the test.
LEMMA Finishing ==
  ASSUME IndInv, OrderInv, StopPhaseInv, Next, NEW q \in Roles
  PROVE  /\ pc'[q] = "xsend" /\ q = "server" => pc[q] = "xsend" \/ Takes(q)
         /\ Completed(q)' => \/ Completed(q)
                             \/ q = "server" /\ HandsIn(q)
                             \/ q = "client" /\ Takes(q)
<1> DEFINE Does == /\ pc'[q] = "xsend" /\ q = "server" => pc[q] = "xsend" \/ Takes(q)
                   /\ pc'[q] = "done" /\ state'[q] = "ExchangeResults" =>
                        \/ pc[q] = "done" /\ state[q] = "ExchangeResults"
                        \/ q = "server" /\ HandsIn(q)
                        \/ q = "client" /\ Takes(q)
<1> SUFFICES Does
  BY DEF Completed, Outcome, Alive, Ended
<1>1. ASSUME pc'[q] = pc[q], state'[q] = state[q] PROVE Does
  BY <1>1
<1>2. ASSUME NEW r \in Roles, UNCHANGED state, NEW l, Goto(r, l), l \notin {"xsend", "done"}
      PROVE  Does
  BY <1>1, <1>2, PlaceOf
<1>3. CASE Stores \/ Quits \/ Hears
  BY <1>1, <1>3, PlaceOf, ExchangeTypes, TwoRoles DEF Stores, Quits, Hears
<1>4. ASSUME NEW s \in States, Says(s) PROVE Does
  BY <1>2, <1>4, TwoRoles DEF Says
<1>5. ASSUME NEW r \in Roles, RoleSteps(r) PROVE Does
  <2>1. CASE Wander(r) \/ GivesUp(r) \/ Misreads(r) \/ Stops(r)
    BY <1>2, <2>1 DEF Wander, Loop, GivesUp, Misreads, Stops
  <2>2. CASE Gathered(r)
    BY <1>1, <1>2, <2>2 DEF Gathered
  <2>3. CASE HandsIn(r)
    BY <1>1, <2>3, PlaceOf, TwoRoles DEF HandsIn
  <2>4. CASE Takes(r)
    <3>1. UNCHANGED state /\ Goto(r, IF r = "client" THEN "done" ELSE "xsend")
      BY <2>4 DEF Takes
    <3>2. CASE q # r
      BY <1>1, <3>1, <3>2, PlaceOf
    <3>3. CASE q = r /\ r = "client"
      BY <2>4, <3>1, <3>3, PlaceOf DEF Takes
    <3>4. CASE q = r /\ r = "server"
      BY <2>4, <3>1, <3>4, PlaceOf, TwoRoles DEF Takes
    <3>5. QED
      BY <3>2, <3>3, <3>4, TwoRoles
  <2>5. CASE Leaves(r)
    BY <1>1, <2>5, PlaceOf, TwoRoles DEF Leaves, AfterCollect
  <2>6. QED
    BY <1>5, <2>1, <2>2, <2>3, <2>4, <2>5 DEF RoleSteps
<1>6. CASE UNCHANGED <<pc, state>>
  BY <1>1, <1>6
<1>7. QED
  BY <1>3, <1>4, <1>5, <1>6, TestSteps

\* What a side knows of the other's results comes with the message it takes.
LEMMA Learning ==
  ASSUME IndInv, OrderInv, SentInv, Next, NEW q \in Roles
  PROVE  \/ peerResults'[q] = peerResults[q] /\ ~Takes(q)
         \/ /\ Takes(q) /\ peerResults'[q] = results[Peer(q)]
            /\ q = "server" => HandedIn
            /\ q = "client" => Completed("server")
<1>1. CASE Takes(q)
  <2>1. ctl[q] # <<>> /\ ctl[q][1].kind = "SendResults" /\ peerResults'[q] = ctl[q][1].ids
    BY <1>1, ExchangeTypes DEF Takes
  <2>2. 1 \in DOMAIN ctl[q]
    BY <2>1, ExchangeTypes, HeadTailType
  <2>3. ctl[q][1] = ResultsMsg(results[Peer(q)])
    BY <2>1, <2>2, TwoRoles DEF SentInv, Announces, Peer
  <2>4. peerResults'[q] = results[Peer(q)]
    BY <2>1, <2>3 DEF ResultsMsg
  <2>5. (q = "server" => HandedIn) /\ (q = "client" => Completed("server"))
    BY <2>1, <2>2 DEF SentInv, Announces
  <2>6. QED
    BY <1>1, <2>4, <2>5
<1>2. CASE ~Takes(q)
  <2>1. ASSUME NEW r \in Roles, Takes(r) PROVE peerResults'[q] = peerResults[q]
    BY <1>2, <2>1, ExchangeTypes DEF Takes
  <2>2. QED
    BY <1>2, <2>1, TestSteps
       DEF Stores, Quits, Hears, Says, RoleSteps, Wander, Gathered, GivesUp, HandsIn, Misreads,
           Stops, Leaves
<1>3. QED
  BY <1>1, <1>2

\* Every step keeps what has arrived.
LEMMA ReceivedStep ==
  ASSUME IndInv, OrderInv, StopPhaseInv, SentInv, ReceivedInv, Next
  PROVE  ReceivedInv'
<1>0. /\ "client" \in Roles /\ "server" \in Roles
      /\ Peer("client") = "server" /\ Peer("server") = "client"
  BY TwoRoles DEF Peer
<1>1. ASSUME pc'["server"] = "xsend" \/ Completed("server")'
      PROVE  HandedIn' /\ peerResults'["server"] = results'["client"]
  <2>1. CASE Takes("server")
    BY <1>0, <2>1, Learning, HandedInStays
  <2>2. CASE ~Takes("server")
    <3>1. pc["server"] = "xsend" \/ Completed("server")
      BY <1>0, <1>1, <2>2, Finishing, TwoRoles DEF HandsIn
    <3>2. HandedIn /\ peerResults["server"] = results["client"]
      BY <3>1 DEF ReceivedInv
    <3>3. QED
      BY <1>0, <2>2, <3>2, Learning, HandedInStays
  <2>3. QED
    BY <2>1, <2>2
<1>2. ASSUME Completed("client")'
      PROVE  Completed("server")' /\ peerResults'["client"] = results'["server"]
  <2>1. ASSUME Completed("server") PROVE Completed("server")' /\ results'["server"] = results["server"]
    <3>1. pc["server"] = "done"
      BY <2>1 DEF Completed, Outcome, Alive
    <3>2. QED
      BY <1>0, <2>1, <3>1, CompletedStays, ResultsKept
  <2>2. CASE Takes("client")
    BY <1>0, <2>1, <2>2, Learning
  <2>3. CASE ~Takes("client")
    <3>1. Completed("client")
      BY <1>0, <1>2, <2>3, Finishing, TwoRoles
    <3>2. Completed("server") /\ peerResults["client"] = results["server"]
      BY <3>1 DEF ReceivedInv
    <3>3. QED
      BY <1>0, <2>1, <2>3, <3>2, Learning
  <2>4. QED
    BY <2>2, <2>3
<1>3. QED
  BY <1>1, <1>2 DEF ReceivedInv

-----------------------------------------------------------------------------
(* The chain of announcements, as a predicate of the queue.                *)

\* ChainInv of the queue q, the announced phase t and the client's phase c; `over'
\* when the server has completed the test.
Chain(q, t, c, over) ==
  /\ \A k \in DOMAIN q : q[k].kind = "SetState" /\ q[k].state = "Terminate" => t = "Terminate"
  /\ \A k \in DOMAIN q : q[k].kind # "SetState" \/ q[k].state = "Terminate" => k = Len(q)
  /\ c # "Terminate" =>
       /\ \A k \in DOMAIN q : q[k].kind = "SetState" /\ q[k].state # "Terminate" =>
            Rank(q[k].state) = Rank(c) + k
       /\ t # "Terminate" /\ ~over => Rank(t) = Rank(c) + Len(q)

LEMMA ChainIs == ChainInv <=> Chain(ctl["client"], target, state["client"], Completed("server"))
  BY DEF ChainInv, Chain, Announces

LEMMA ChainIsPrimed ==
  Chain(ctl'["client"], target', state'["client"], Completed("server")') => ChainInv'
  BY DEF ChainInv, Chain, Announces

\* Phases other than Terminate rank below it.
LEMMA RankBelow == \A s \in States : s # "Terminate" => Rank(s) <= 3
  BY DEF Rank, States

LEMMA CtlMsgState ==
  ASSUME NEW q \in Seq(CtlMsgs), NEW k \in DOMAIN q, q[k].kind = "SetState"
  PROVE  q[k].state \in States
<1>1. q[k] \in CtlMsgs
  OBVIOUS
<1>2. QED
  BY <1>1 DEF CtlMsgs

\* The server says what comes after the announced phase, or Terminate.
LEMMA ChainSays ==
  ASSUME NEW q \in Seq(CtlMsgs), NEW t \in DOMAIN Life!After, NEW c \in States,
         NEW s \in {Life!After[t], "Terminate"}, Chain(q, t, c, FALSE),
         \A k \in DOMAIN q : q[k].kind = "SetState"
  PROVE  Chain(Append(q, SetStateMsg(s)), s, c, FALSE)
<1> DEFINE m == SetStateMsg(s)  p == Append(q, m)
<1>1. /\ t \in States /\ t # "Terminate" /\ s \in States /\ m.kind = "SetState" /\ m.state = s
      /\ s # "Terminate" => Rank(s) = Rank(t) + 1
  BY AfterFacts, RankFacts, Phases DEF SetStateMsg, States
<1>2. /\ Len(p) = Len(q) + 1 /\ Len(q) \in Nat
      /\ \A k \in DOMAIN p : k \in Nat /\ ((k \in DOMAIN q /\ p[k] = q[k]) \/ (k = Len(q) + 1 /\ p[k] = m))
  <2>1. Len(p) = Len(q) + 1 /\ Len(q) \in Nat
    OBVIOUS
  <2>2. QED
    BY <2>1, AppendIndex
<1>3. \A k \in DOMAIN q : q[k].kind = "SetState" /\ q[k].state # "Terminate"
  BY <1>1 DEF Chain
<1>4. c # "Terminate" =>
        /\ \A k \in DOMAIN q : Rank(q[k].state) = Rank(c) + k
        /\ Rank(t) = Rank(c) + Len(q)
  BY <1>1, <1>3 DEF Chain
<1>5. Rank(c) \in Nat /\ Rank(t) \in Nat /\ Rank(s) \in Nat
  BY <1>1, RankFacts
<1> HIDE DEF m, p
<1>6. ASSUME NEW k \in DOMAIN p
      PROVE  /\ p[k].kind = "SetState" /\ (p[k].state = "Terminate" => k = Len(p) /\ s = "Terminate")
             /\ c # "Terminate" /\ p[k].state # "Terminate" => Rank(p[k].state) = Rank(c) + k
  BY <1>1, <1>2, <1>3, <1>4, <1>5
<1>7. c # "Terminate" /\ s # "Terminate" => Rank(s) = Rank(c) + Len(p)
  BY <1>1, <1>2, <1>4, <1>5
<1>8. Chain(p, s, c, FALSE)
  BY <1>6, <1>7 DEF Chain
<1>9. QED
  BY <1>8 DEF p, m

\* The client hears the first of the announcements.
LEMMA ChainHears ==
  ASSUME NEW q \in Seq(CtlMsgs), q # <<>>, NEW t \in States, NEW c \in States, NEW over \in BOOLEAN,
         Chain(q, t, c, over), c # "Terminate", q[1].kind = "SetState"
  PROVE  Chain(Tail(q), t, q[1].state, over)
<1> DEFINE p == Tail(q)
<1>1. 1 \in DOMAIN q /\ Len(q) \in Nat /\ Len(p) = Len(q) - 1
  OBVIOUS
<1>2. \A k \in DOMAIN p : k \in Nat /\ k + 1 \in DOMAIN q /\ p[k] = q[k + 1]
  BY TailIndex
<1>3. q[1].state \in States /\ Rank(q[1].state) \in Nat /\ Rank(c) \in Nat /\ Rank(t) \in Nat
  BY <1>1, CtlMsgState, RankFacts
<1> HIDE DEF p
<1>4. q[1].state # "Terminate" => Rank(q[1].state) = Rank(c) + 1
  BY <1>1 DEF Chain
<1>5. ASSUME NEW k \in DOMAIN p
      PROVE  /\ p[k].kind = "SetState" /\ p[k].state = "Terminate" => t = "Terminate"
             /\ p[k].kind # "SetState" \/ p[k].state = "Terminate" => k = Len(p)
             /\ p[k].kind = "SetState" /\ p[k].state # "Terminate" => Rank(p[k].state) = Rank(c) + (k + 1)
  BY <1>1, <1>2, <1>5 DEF Chain
<1>6. q[1].state # "Terminate" /\ t # "Terminate" /\ ~over => Rank(t) = Rank(c) + Len(q)
  BY DEF Chain
<1>7. q[1].state # "Terminate" =>
        /\ \A k \in DOMAIN p : p[k].kind = "SetState" /\ p[k].state # "Terminate" =>
             Rank(p[k].state) = Rank(q[1].state) + k
        /\ t # "Terminate" /\ ~over => Rank(t) = Rank(q[1].state) + Len(p)
  <2> SUFFICES ASSUME q[1].state # "Terminate"
               PROVE  /\ \A k \in DOMAIN p : p[k].kind = "SetState" /\ p[k].state # "Terminate" =>
                           Rank(p[k].state) = Rank(q[1].state) + k
                      /\ t # "Terminate" /\ ~over => Rank(t) = Rank(q[1].state) + Len(p)
    OBVIOUS
  <2>1. Rank(q[1].state) = Rank(c) + 1
    BY <1>4
  <2>2. ASSUME NEW k \in DOMAIN p, p[k].kind = "SetState", p[k].state # "Terminate"
        PROVE  Rank(p[k].state) = Rank(q[1].state) + k
    <3>1. Rank(p[k].state) = Rank(c) + (k + 1) /\ k \in Nat
      BY <1>2, <1>5, <2>2
    <3>2. QED
      BY <1>3, <2>1, <3>1
  <2>3. ASSUME t # "Terminate", ~over PROVE Rank(t) = Rank(q[1].state) + Len(p)
    <3>1. Rank(t) = Rank(c) + Len(q)
      BY <1>6, <2>3
    <3>2. QED
      BY <1>1, <1>3, <2>1, <3>1
  <2>4. QED
    BY <2>2, <2>3
<1>8. Chain(p, t, q[1].state, over)
  BY <1>5, <1>7 DEF Chain
<1>9. QED
  BY <1>8 DEF p

\* In the exchange the client only reads what comes after all announcements.
LEMMA ChainReads ==
  ASSUME NEW q \in Seq(CtlMsgs), q # <<>>, NEW t \in States, NEW over \in BOOLEAN,
         Chain(q, t, "ExchangeResults", over)
  PROVE  Chain(Tail(q), t, "ExchangeResults", over)
<1> DEFINE p == Tail(q)
<1>1. Len(q) \in Nat /\ Len(q) >= 1 /\ Len(p) = Len(q) - 1 /\ \A k \in DOMAIN q : k \in Nat /\ k >= 1
  OBVIOUS
<1>2. \A k \in DOMAIN p : k \in Nat /\ k + 1 \in DOMAIN q /\ p[k] = q[k + 1]
  BY TailIndex
<1>3. \A k \in DOMAIN q : ~(q[k].kind = "SetState" /\ q[k].state # "Terminate")
  <2> SUFFICES ASSUME NEW k \in DOMAIN q, q[k].kind = "SetState", q[k].state # "Terminate" PROVE FALSE
    OBVIOUS
  <2>1. Rank(q[k].state) = 3 + k
    BY RankFacts DEF Chain
  <2>2. Rank(q[k].state) <= 3 /\ Rank(q[k].state) \in Nat
    BY CtlMsgState, RankBelow, RankFacts
  <2>3. QED
    BY <1>1, <2>1, <2>2
<1>4. ~(t # "Terminate" /\ ~over)
  <2> SUFFICES ASSUME t # "Terminate", ~over PROVE FALSE
    OBVIOUS
  <2>1. Rank(t) = 3 + Len(q)
    BY RankFacts DEF Chain
  <2>2. Rank(t) <= 3 /\ Rank(t) \in Nat
    BY RankBelow, RankFacts
  <2>3. QED
    BY <1>1, <2>1, <2>2
<1> HIDE DEF p
<1>5. ASSUME NEW k \in DOMAIN p
      PROVE  /\ p[k].kind = "SetState" /\ p[k].state = "Terminate" => t = "Terminate"
             /\ p[k].kind # "SetState" \/ p[k].state = "Terminate" => k = Len(p)
             /\ ~(p[k].kind = "SetState" /\ p[k].state # "Terminate")
  BY <1>1, <1>2, <1>3, <1>5 DEF Chain
<1>6. Chain(p, t, "ExchangeResults", over)
  BY <1>4, <1>5 DEF Chain
<1>7. QED
  BY <1>6 DEF p

\* The server's results come after all announcements.
LEMMA ChainResults ==
  ASSUME NEW q \in Seq(CtlMsgs), NEW t, t # "Terminate", NEW c, NEW m, m.kind = "SendResults",
         Chain(q, t, c, FALSE), \A k \in DOMAIN q : q[k].kind = "SetState"
  PROVE  Chain(Append(q, m), t, c, TRUE)
<1> DEFINE p == Append(q, m)
<1>1. \A k \in DOMAIN p : (k \in DOMAIN q /\ p[k] = q[k]) \/ (k = Len(p) /\ p[k] = m)
  <2>1. Len(p) = Len(q) + 1
    OBVIOUS
  <2>2. QED
    BY <2>1, AppendIndex
<1> HIDE DEF p
<1>2. ASSUME NEW k \in DOMAIN p
      PROVE  /\ p[k].kind = "SetState" /\ p[k].state = "Terminate" => t = "Terminate"
             /\ p[k].kind # "SetState" \/ p[k].state = "Terminate" => k = Len(p)
             /\ c # "Terminate" /\ p[k].kind = "SetState" /\ p[k].state # "Terminate" =>
                  Rank(p[k].state) = Rank(c) + k
  BY <1>1, <1>2 DEF Chain
<1>3. Chain(p, t, c, TRUE)
  BY <1>2 DEF Chain
<1>4. QED
  BY <1>3 DEF p

LEMMA ChainOver ==
  ASSUME NEW q, NEW t, NEW c, NEW over, NEW later, Chain(q, t, c, over), over => later
  PROVE  Chain(q, t, c, later)
  BY DEF Chain

\* While the server has not completed the test, only announcements are on their way.
LEMMA OnlyAnnouncements ==
  ASSUME SentInv, ~Completed("server")
  PROVE  \A k \in DOMAIN ctl["client"] : ctl["client"][k].kind = "SetState"
  BY DEF SentInv, Announces

\* What comes to the client in its loop is an announcement.
LEMMA HearsAnnouncement ==
  ASSUME IndInv, ExchangeInv, Hears
  PROVE  1 \in DOMAIN ctl["client"] /\ Announces(1)
<1>1. 1 \in DOMAIN ctl["client"]
  BY ExchangeTypes, HeadTailType DEF Hears
<1>2. ASSUME ~Announces(1) PROVE FALSE
  <2>1. Completed("server")
    BY <1>1, <1>2 DEF ExchangeInv, SentInv
  <2>2. pc["client"] \in {"xread", "done", "aborted"}
    BY <2>1 DEF ExchangeInv, ReceivedInv, HandedIn
  <2>3. QED
    BY <2>2 DEF Hears
<1>3. QED
  BY <1>1, <1>2

\* Every step keeps the chain.
LEMMA ChainStep ==
  ASSUME IndInv, OrderInv, ExchangeInv, Next
  PROVE  ChainInv'
<1> DEFINE q == ctl["client"]
<1>0. /\ q \in Seq(CtlMsgs) /\ target \in States /\ state["client"] \in States
      /\ "client" \in Roles /\ "server" \in Roles /\ Completed("server") \in BOOLEAN
      /\ Peer("server") = "client" /\ Peer("client") = "server"
  BY OrderTypes, TwoRoles DEF Completed, Peer
<1>1. Chain(q, target, state["client"], Completed("server"))
  BY ChainIs DEF ExchangeInv
<1>2. Completed("server") => Completed("server")'
  BY <1>0, CompletedStays
<1>3. StopPhaseInv /\ SentInv /\ ReceivedInv
  BY DEF ExchangeInv
<1> HIDE DEF q
<1>4. ASSUME ctl'["client"] = q, UNCHANGED target, state'["client"] = state["client"]
      PROVE  ChainInv'
  BY <1>1, <1>2, <1>4, ChainOver, ChainIsPrimed
<1>5. CASE Stores
  BY <1>4, <1>5, OrderTypes, TwoRoles DEF Stores, q
<1>6. CASE Quits
  <2>1. state'["client"] = "Terminate" /\ ctl'["client"] = q /\ target' = target
    BY <1>6, OrderTypes, TwoRoles DEF Quits, q
  <2>2. Chain(q, target, "Terminate", Completed("server")')
    BY <1>1 DEF Chain
  <2>3. QED
    BY <2>1, <2>2, ChainIsPrimed
<1>7. ASSUME NEW s \in States, Says(s) PROVE ChainInv'
  <2>1. ~Completed("server")
    BY <1>7 DEF Says, Completed, Outcome, Alive, Ended
  <2>2. \A k \in DOMAIN q : q[k].kind = "SetState"
    BY <1>3, <2>1, OnlyAnnouncements DEF q
  <2>3. Chain(q, target, state["client"], FALSE)
    BY <1>1, <2>1 DEF Chain
  <2>4. Chain(Append(q, SetStateMsg(s)), s, state["client"], FALSE)
    BY <1>0, <1>7, <2>2, <2>3, ChainSays DEF Says
  <2>5. Chain(Append(q, SetStateMsg(s)), s, state["client"], Completed("server")')
    BY <2>4, ChainOver
  <2>6. ctl'["client"] = Append(q, SetStateMsg(s)) /\ target' = s /\ UNCHANGED state
    BY <1>0, <1>7, WrittenTo DEF Says, q
  <2>7. QED
    BY <2>5, <2>6, ChainIsPrimed
<1>8. CASE Hears
  <2>1. pc["client"] = "select" /\ q # <<>> /\ target' = target /\ ctl'["client"] = Tail(q)
        /\ state["client"] # "Terminate"
    BY <1>0, <1>8, OrderTypes DEF Hears, OrderInv, ClientPhaseInv, q
  <2>2. q[1].kind = "SetState"
    BY <1>8, HearsAnnouncement DEF Announces, q
  <2>3. state'["client"] = q[1].state
    BY <1>0, <1>8, <2>2, OrderTypes DEF Hears, Announces, q
  <2>4. Chain(Tail(q), target, q[1].state, Completed("server"))
    BY <1>0, <1>1, <2>1, <2>2, ChainHears
  <2>5. Chain(Tail(q), target, q[1].state, Completed("server")')
    BY <1>2, <2>4, ChainOver
  <2>6. QED
    BY <2>1, <2>3, <2>5, ChainIsPrimed
<1>9. CASE HandsIn("server")
  <2>1. pc["server"] = "xsend" /\ state["server"] = "ExchangeResults" /\ ~Completed("server")
    BY <1>0, <1>3, <1>9 DEF HandsIn, StopPhaseInv, Completed, Outcome, Alive, Ended
  <2>2. target = "ExchangeResults"
    BY <2>1 DEF OrderInv, AnnouncedInv
  <2>3. \A k \in DOMAIN q : q[k].kind = "SetState"
    BY <1>3, <2>1, OnlyAnnouncements DEF q
  <2>4. ctl'["client"] = Append(q, ResultsMsg(results["server"])) /\ UNCHANGED <<state, target>>
    BY <1>0, <1>9, WrittenTo DEF HandsIn, q
  <2>5. ResultsMsg(results["server"]).kind = "SendResults"
    BY DEF ResultsMsg
  <2>6. Chain(q, target, state["client"], FALSE)
    BY <1>1, <2>1 DEF Chain
  <2>7. Chain(Append(q, ResultsMsg(results["server"])), target, state["client"], TRUE)
    BY <1>0, <2>2, <2>3, <2>5, <2>6, ChainResults
  <2>8. Completed("server")'
    BY <1>0, <1>3, <1>9, <2>4, HandingIn
  <2>9. QED
    BY <2>4, <2>7, <2>8, ChainOver, ChainIsPrimed
<1>10. CASE Takes("client") \/ Misreads("client")
  <2>1. /\ state["client"] = "ExchangeResults" /\ q # <<>> /\ ctl'["client"] = Tail(q)
        /\ UNCHANGED <<state, target>>
    BY <1>0, <1>3, <1>10, OrderTypes DEF Takes, Misreads, StopPhaseInv, q
  <2>2. Chain(Tail(q), target, "ExchangeResults", Completed("server"))
    BY <1>0, <1>1, <2>1, ChainReads
  <2>3. QED
    BY <1>2, <2>1, <2>2, ChainOver, ChainIsPrimed
<1>11. CASE HandsIn("client") \/ Takes("server") \/ Misreads("server")
  <2>1. ctl'["client"] = q
    BY <1>0, <1>11, OrderTypes, WrittenTo, TwoRoles DEF HandsIn, Takes, Misreads, q
  <2>2. UNCHANGED <<state, target>>
    BY <1>11 DEF HandsIn, Takes, Misreads
  <2>3. QED
    BY <1>4, <2>1, <2>2
<1>12. ASSUME UNCHANGED <<ctl, target, state>> PROVE ChainInv'
  BY <1>4, <1>12 DEF q
<1>13. ASSUME NEW r \in Roles, RoleSteps(r) PROVE ChainInv'
  BY <1>9, <1>10, <1>11, <1>12, <1>13, TwoRoles
     DEF RoleSteps, Wander, Gathered, GivesUp, Stops, Leaves
<1>14. QED
  BY <1>5, <1>6, <1>7, <1>8, <1>12, <1>13, TestSteps

\* Every step keeps ExchangeResults the last phase.
LEMMA LastPhaseStep ==
  ASSUME IndInv, OrderInv, LastPhaseInv, Next
  PROVE  LastPhaseInv'
<1> DEFINE Last(m) == m = SetStateMsg("ExchangeResults")
<1>0. /\ ctl["client"] \in Seq(CtlMsgs) /\ "client" \in Roles /\ "server" \in Roles
      /\ Peer("server") = "client" /\ state \in [Roles -> States]
  BY ExchangeTypes, TwoRoles DEF Peer
<1>1. CASE \E s \in States : Says(s)
  <2>1. PICK s \in States : Says(s)
    BY <1>1
  <2>2. target \notin {"ExchangeResults"} /\ target' = s /\ UNCHANGED state
    BY <2>1, AfterFacts DEF Says
  <2>3. ctl'["client"] = Append(ctl["client"], SetStateMsg(s))
    BY <1>0, <2>1, WrittenTo DEF Says
  <2>4. \A k \in DOMAIN ctl["client"] : ~Last(ctl["client"][k])
    BY <2>2 DEF LastPhaseInv
  <2>5. ASSUME NEW k \in DOMAIN ctl'["client"], Last(ctl'["client"][k]) PROVE s = "ExchangeResults"
    <3>1. k \in DOMAIN Append(ctl["client"], SetStateMsg(s))
      BY <2>3, <2>5
    <3>2. ctl'["client"][k] = SetStateMsg(s)
      BY <1>0, <2>3, <2>4, <2>5, <3>1, AppendIndex
    <3>3. SetStateMsg(s).state = SetStateMsg("ExchangeResults").state
      BY <2>5, <3>2
    <3>4. QED
      BY <3>3 DEF SetStateMsg
  <2>6. QED
    BY <2>2, <2>5 DEF LastPhaseInv
<1>2. CASE ~\E s \in States : Says(s)
  <2>1. target' = target
    BY <1>2, TestSteps
       DEF Stores, Quits, Hears, RoleSteps, Wander, Gathered, GivesUp, HandsIn, Takes, Misreads,
           Stops, Leaves
  <2>2. \A k \in DOMAIN ctl'["client"] : Last(ctl'["client"][k]) =>
           \E l \in DOMAIN ctl["client"] : Last(ctl["client"][l])
    <3> SUFFICES ASSUME NEW k \in DOMAIN ctl'["client"], Last(ctl'["client"][k])
                 PROVE  \E l \in DOMAIN ctl["client"] : Last(ctl["client"][l])
      OBVIOUS
    <3>1. CASE ctl'["client"] = ctl["client"]
      BY <3>1
    <3>2. CASE ctl["client"] # <<>> /\ ctl'["client"] = Tail(ctl["client"])
      BY <1>0, <3>2, TailIndex
    <3>3. ASSUME NEW ids, ctl'["client"] = Append(ctl["client"], ResultsMsg(ids))
          PROVE  \E l \in DOMAIN ctl["client"] : Last(ctl["client"][l])
      <4>1. k \in DOMAIN Append(ctl["client"], ResultsMsg(ids))
        BY <3>3
      <4>2. \/ k \in DOMAIN ctl["client"] /\ ctl'["client"][k] = ctl["client"][k]
            \/ ctl'["client"][k] = ResultsMsg(ids)
        BY <1>0, <3>3, <4>1, AppendIndex
      <4>3. SetStateMsg("ExchangeResults").kind # ResultsMsg(ids).kind
        BY DEF SetStateMsg, ResultsMsg
      <4>4. QED
        BY <4>2, <4>3
    <3>4. QED
      BY <1>0, <1>2, <3>1, <3>2, <3>3, OnTheWay
  <2>3. "ExchangeResults" \in {state'["server"], state'["client"]} =>
          \/ "ExchangeResults" \in {state["server"], state["client"], target}
          \/ \E l \in DOMAIN ctl["client"] : Last(ctl["client"][l])
    <3>1. CASE UNCHANGED state
      BY <3>1
    <3>2. CASE Stores \/ Quits
      BY <1>0, <3>2, TwoRoles DEF Stores, Quits
    <3>3. CASE Hears
      <4>1. CASE Announces(1)
        <5>1. 1 \in DOMAIN ctl["client"] /\ ctl["client"][1] \in CtlMsgs
          BY <1>0, <3>3, HeadTailType DEF Hears
        <5>2. ctl["client"][1] = SetStateMsg(ctl["client"][1].state)
          BY <4>1, <5>1 DEF Announces, CtlMsgs, SetStateMsg
        <5>3. QED
          BY <1>0, <3>3, <4>1, <5>1, <5>2, TwoRoles DEF Hears
      <4>2. CASE ~Announces(1)
        BY <3>3, <4>2 DEF Hears
      <4>3. QED
        BY <4>1, <4>2
    <3>4. QED
      BY <1>2, <3>1, <3>2, <3>3, TestSteps
         DEF RoleSteps, Wander, Gathered, GivesUp, HandsIn, Takes, Misreads, Stops, Leaves
  <2>4. QED
    BY <2>1, <2>2, <2>3 DEF LastPhaseInv
<1>3. QED
  BY <1>1, <1>2

\* Every state keeps the exchange in order: the phases on their way to the client
\* are those between its own and the announced one, ExchangeResults is the last of
\* them, results that were sent or have arrived no longer change, and the client
\* completes the test only after the server.
THEOREM ExchangeInvariance == Spec => []ExchangeInv
<1>1. Init => ExchangeInv
  <2> SUFFICES ASSUME Init PROVE ExchangeInv
    OBVIOUS
  <2>1. \A r \in Roles : pc[r] = "top" /\ state[r] = "Start" /\ ctl[r] = <<>>
    BY DEF Init
  <2>2. target = "Start" /\ "client" \in Roles /\ "server" \in Roles
    BY TwoRoles DEF Init
  <2>3. StopPhaseInv /\ SentInv /\ ReceivedInv
    BY <2>1, <2>2 DEF StopPhaseInv, SentInv, ReceivedInv, Completed, Outcome, Alive, Ended
  <2>4. ChainInv /\ LastPhaseInv
    BY <2>1, <2>2, RankFacts DEF ChainInv, LastPhaseInv
  <2>5. QED
    BY <2>3, <2>4 DEF ExchangeInv
<1>2. IndInv /\ OrderInv /\ ExchangeInv /\ [Next]_vars => ExchangeInv'
  <2> SUFFICES ASSUME IndInv, OrderInv, ExchangeInv, [Next]_vars PROVE ExchangeInv'
    OBVIOUS
  <2>1. CASE Next
    BY <2>1, StopPhaseStep, ChainStep, SentStep, ReceivedStep, LastPhaseStep DEF ExchangeInv
  <2>2. CASE UNCHANGED vars
    <3>1. UNCHANGED <<pc, state, target, ctl, results, peerResults>>
      BY <2>2 DEF vars, ctrlVars, chanVars
    <3>2. (Completed("server") <=> Completed("server")') /\ (Completed("client") <=> Completed("client")')
          /\ (HandedIn <=> HandedIn')
      BY <3>1 DEF Completed, Outcome, Alive, Ended, HandedIn
    <3>3. StopPhaseInv' /\ SentInv' /\ ReceivedInv'
      BY <3>1, <3>2 DEF ExchangeInv, StopPhaseInv, SentInv, ReceivedInv, Announces
    <3>4. ChainInv' /\ LastPhaseInv'
      BY <3>1, <3>2 DEF ExchangeInv, ChainInv, LastPhaseInv, Announces
    <3>5. QED
      BY <3>3, <3>4 DEF ExchangeInv
  <2>3. QED
    BY <2>1, <2>2
<1>3. QED
  BY <1>1, <1>2, Invariance, OrderInvariance, PTL DEF Spec

\* A side that completed the exchange holds exactly the results the other side has
\* collected, and the client holds those of every stream (exchange_results).
THEOREM ResultsExchanged == Spec => []ResultsAgree
<1>1. IndInv /\ ExchangeInv => ResultsAgree
  <2> SUFFICES ASSUME IndInv, ExchangeInv, NEW r \in Roles, pc[r] = "done",
                      state[r] = "ExchangeResults"
               PROVE  peerResults[r] = results[Peer(r)] /\ (r = "client" => peerResults[r] = Ids)
    BY DEF ResultsAgree
  <2>1. Completed(r)
    BY DEF Completed, Outcome, Alive, Ended
  <2>2. CASE r = "server"
    BY <2>1, <2>2, TwoRoles DEF ExchangeInv, ReceivedInv, Peer
  <2>3. CASE r = "client"
    <3>1. Completed("server") /\ peerResults["client"] = results["server"]
      BY <2>1, <2>3 DEF ExchangeInv, ReceivedInv
    <3>2. state["server"] = "ExchangeResults"
      BY <3>1 DEF Completed, Outcome, Alive
    <3>3. results["server"] = Ids
      BY <3>2 DEF IndInv, ResultsInv
    <3>4. QED
      BY <2>3, <3>1, <3>3 DEF Peer
  <2>4. QED
    BY <2>2, <2>3, TwoRoles
<1>2. QED
  BY <1>1, Invariance, ExchangeInvariance, PTL

-----------------------------------------------------------------------------
(* The test lives as TestLife describes.                                   *)

Outcomes == [r \in Roles |-> Outcome(r)]

\* A step of a controller that goes on leaves the outcomes as they are.
LEMMA GoesOn ==
  ASSUME IndInv, NEW r \in Roles, Alive(r), NEW l, l \notin {"done", "aborted"}, Goto(r, l),
         \A q \in Roles : q # r => state'[q] = state[q]
  PROVE  Outcomes' = Outcomes
<1> SUFFICES ASSUME NEW q \in Roles PROVE Outcome(q)' = Outcome(q)
  BY DEF Outcomes
<1>1. CASE q = r
  BY <1>1, PlaceOf DEF Outcome, Alive, Ended
<1>2. CASE q # r
  BY <1>2, PlaceOf DEF Outcome, Alive, Ended
<1>3. QED
  BY <1>1, <1>2

\* A step that ends a controller decides the outcome on its side.
LEMMA Ends ==
  ASSUME IndInv, NEW r \in Roles, NEW l \in {"done", "aborted"}, Goto(r, l), UNCHANGED state
  PROVE  Outcomes' = [Outcomes EXCEPT ![r] =
                        IF l = "done" /\ state[r] = "ExchangeResults" THEN "complete" ELSE "cut"]
<1> DEFINE e == IF l = "done" /\ state[r] = "ExchangeResults" THEN "complete" ELSE "cut"
<1>1. \A q \in Roles : Outcome(q)' = IF q = r THEN e ELSE Outcome(q)
  BY PlaceOf DEF Outcome, Alive, Ended
<1> HIDE DEF e
<1>2. Outcomes' = [Outcomes EXCEPT ![r] = e]
  BY <1>1 DEF Outcomes
<1>3. QED
  BY <1>2 DEF e

\* Gathering is over once the other side has completed the test.
LEMMA GathersInLife ==
  ASSUME IndInv, ExchangeInv, NEW r \in Roles, pc[r] \in {"select", "collect"}, Gathers(r)
  PROVE  UNCHANGED results \/ Life!Gather(r)
<1>1. Life!Other(r) \in Roles /\ Life!Other(r) # r
  BY TwoRoles DEF Life!Other
<1>2. ~Completed(Life!Other(r))
  <2>1. CASE r = "server"
    <3>1. ~Completed("server")
      BY <2>1 DEF Completed, Outcome, Alive, Ended
    <3>2. QED
      BY <1>1, <2>1, <3>1, TwoRoles DEF ExchangeInv, ReceivedInv
  <2>2. CASE r = "client"
    BY <1>1, <2>2, TwoRoles DEF ExchangeInv, ReceivedInv, HandedIn
  <2>3. QED
    BY <2>1, <2>2, TwoRoles
<1>3. Outcomes[Life!Other(r)] # "complete"
  BY <1>1, <1>2 DEF Outcomes, Completed
<1>4. QED
  BY <1>3 DEF Gathers, Life!Gather, Outcomes

\* The moves of a side that is in the test.
LEMMA LifeMoves ==
  ASSUME NEW r \in Roles, Alive(r), UNCHANGED results \/ Life!Gather(r),
         \/ r = "server" /\ (Life!Lead \/ \E s \in States : Life!Announce(s))
         \/ r = "client" /\ \E s \in States : Life!Follow(s)
         \/ Life!Learn(r) /\ UNCHANGED <<target, state, Outcomes>>
         \/ Life!Complete(r) /\ (UNCHANGED peerResults \/ Life!Learn(r))
         \/ Life!CutShort(r)
         \/ UNCHANGED <<target, state, peerResults, Outcomes>>
  PROVE  Life!Next
<1>1. r \in Life!Sides /\ Outcomes[r] = "open"
  BY TwoRoles DEF Life!Sides, Outcomes, Outcome, Alive, Ended
<1>2. States = DOMAIN Life!Rank
  BY DEF States, Life!Rank
<1>3. Life!Step(r)
  BY <1>1, <1>2 DEF Life!Step, Outcomes
<1>4. QED
  BY <1>1, <1>3 DEF Life!Next

\* Every step of the test is a step of its life, or invisible there.
LEMMA LifeStep ==
  ASSUME IndInv, OrderInv, ExchangeInv, Next
  PROVE  Life!Next \/ UNCHANGED <<target, state, results, peerResults, Outcomes>>
<1> DEFINE Goal == Life!Next \/ UNCHANGED <<target, state, results, peerResults, Outcomes>>
<1> SUFFICES Goal
  OBVIOUS
<1>0. /\ "client" \in Roles /\ "server" \in Roles
      /\ Peer("client") = "server" /\ Peer("server") = "client"
      /\ Life!Other("client") = "server" /\ Life!Other("server") = "client"
      /\ Life!Sides = Roles /\ \A s \in States : Life!Rank[s] = Rank(s)
  BY TwoRoles DEF Peer, Life!Other, Life!Sides, Life!Rank, States, Rank
<1>t. /\ state \in [Roles -> States] /\ target \in States /\ ctl["client"] \in Seq(CtlMsgs)
      /\ peerResults \in [Roles -> SUBSET Ids] /\ results \in [Roles -> SUBSET Ids]
  BY ExchangeTypes
<1>1. CASE UNCHANGED <<pc, state, target, ctl, results, peerResults>>
  <2>1. Outcomes' = Outcomes
    BY <1>1 DEF Outcomes, Outcome, Alive, Ended
  <2>2. QED
    BY <1>1, <2>1
<1>2. CASE Stores
  <2>1. Alive("server") /\ Goto("server", "top") /\ \A q \in Roles : q # "server" => state'[q] = state[q]
    BY <1>2, <1>t DEF Stores, Alive, Ended
  <2>2. Outcomes' = Outcomes
    BY <1>0, <2>1, GoesOn
  <2>3. Life!Lead
    BY <1>2, <2>2 DEF Stores, Life!Lead, Outcomes
  <2>4. QED
    BY <1>0, <1>2, <2>1, <2>3, LifeMoves DEF Stores
<1>3. ASSUME NEW s \in States, Says(s) PROVE Goal
  <2>1. /\ Alive("server") /\ Goto("server", "assign") /\ UNCHANGED <<state, peerResults>>
        /\ \A q \in Roles : q # "server" => state'[q] = state[q]
    BY <1>3 DEF Says, Alive, Ended
  <2>2. Outcomes' = Outcomes
    BY <1>0, <2>1, GoesOn
  <2>3. UNCHANGED results \/ Life!Gather("server")
    BY <1>0, <1>3, GathersInLife DEF Says
  <2>4. Life!Announce(s)
    BY <1>3, <2>1, <2>2 DEF Says, Life!Announce, Outcomes
  <2>5. QED
    BY <1>0, <2>1, <2>3, <2>4, LifeMoves
<1>4. ASSUME NEW s \in States, s # "Terminate" => Rank(s) = Rank(state["client"]) + 1 /\ Rank(s) <= Rank(target),
             s = "ExchangeResults" => target = "ExchangeResults",
             pc["client"] = "select", state' = [state EXCEPT !["client"] = s], Goto("client", "top"),
             UNCHANGED <<target, results, peerResults>>
      PROVE  Goal
  <2>1. Alive("client") /\ \A q \in Roles : q # "client" => state'[q] = state[q]
    BY <1>4, <1>t DEF Alive, Ended
  <2>2. Outcomes' = Outcomes
    BY <1>0, <1>4, <2>1, GoesOn
  <2>3. state["client"] \in {"Start", "CreateStreams", "Running"}
    BY <1>4 DEF OrderInv, ClientPhaseInv
  <2>4. s \in {Life!After[state["client"]], "Terminate"}
    BY <1>4, <2>3, AfterFacts, RankFacts DEF States
  <2>5. s = "ExchangeResults" => results["server"] = Ids
    BY <1>4 DEF IndInv, ResultsInv
  <2>6. Life!Follow(s)
    BY <1>0, <1>t, <1>4, <2>2, <2>3, <2>4, <2>5, AfterFacts DEF Life!Follow, Outcomes
  <2>7. QED
    BY <1>0, <1>4, <2>1, <2>6, LifeMoves
<1>5. CASE Quits
  BY <1>4, <1>5, Phases DEF Quits
<1>6. CASE Hears
  <2> DEFINE m == ctl["client"][1]
  <2>1. 1 \in DOMAIN ctl["client"] /\ Announces(1) /\ pc["client"] = "select"
    BY <1>6, HearsAnnouncement DEF Hears
  <2>2. m.kind = "SetState" /\ m.state \in States /\ m = SetStateMsg(m.state)
    <3>1. m \in CtlMsgs
      BY <1>t, <2>1
    <3>2. QED
      BY <2>1, <3>1 DEF Announces, CtlMsgs, SetStateMsg
  <2>3. m.state = "ExchangeResults" => target = "ExchangeResults"
    BY <2>1, <2>2 DEF ExchangeInv, LastPhaseInv
  <2>4. m.state # "Terminate" => Rank(m.state) = Rank(state["client"]) + 1
    <3>1. state["client"] # "Terminate"
      BY <2>1 DEF OrderInv, ClientPhaseInv
    <3>2. QED
      BY <2>1, <3>1 DEF ExchangeInv, ChainInv
  <2>5. Rank(m.state) <= Rank(target)
    BY <2>1 DEF OrderInv, AnnouncedInv
  <2>6. QED
    BY <1>4, <1>6, <2>1, <2>2, <2>3, <2>4, <2>5 DEF Hears
<1>7. ASSUME NEW r \in Roles, Goto(r, "aborted") \/ (Goto(r, "done") /\ state[r] # "ExchangeResults"),
             Alive(r), UNCHANGED <<state, target, peerResults>>, UNCHANGED results \/ Life!Gather(r)
      PROVE  Goal
  <2>1. Outcomes' = [Outcomes EXCEPT ![r] = "cut"]
    BY <1>7, Ends
  <2>2. Life!CutShort(r)
    BY <1>7, <2>1 DEF Life!CutShort, Outcomes
  <2>3. QED
    BY <1>7, <2>2, LifeMoves
<1>8. ASSUME NEW r \in Roles, NEW l, Goto(r, l), l \notin {"done", "aborted"}, Alive(r),
             UNCHANGED <<state, target, peerResults>>, UNCHANGED results \/ Life!Gather(r)
      PROVE  Goal
  <2>1. Outcomes' = Outcomes
    BY <1>8, GoesOn
  <2>2. QED
    BY <1>8, <2>1, LifeMoves
<1>9. ASSUME NEW r \in Roles, Gathered(r) PROVE Goal
  <2>1. Alive(r) /\ UNCHANGED <<state, target, peerResults>>
    BY <1>9 DEF Gathered, Alive, Ended
  <2>2. UNCHANGED results \/ Life!Gather(r)
    BY <1>9, GathersInLife DEF Gathered
  <2>3. CASE pc' = pc
    <3>1. Outcomes' = Outcomes
      BY <2>1, <2>3 DEF Outcomes, Outcome, Alive, Ended
    <3>2. QED
      BY <2>1, <2>2, <3>1, LifeMoves
  <2>4. CASE Goto(r, "top")
    BY <1>8, <2>1, <2>2, <2>4
  <2>5. QED
    BY <1>9, <2>3, <2>4 DEF Gathered
<1>10. ASSUME NEW r \in Roles, GivesUp(r) PROVE Goal
  <2>1. UNCHANGED results \/ Life!Gather(r)
    BY <1>10, GathersInLife DEF GivesUp
  <2>2. QED
    BY <1>7, <1>10, <2>1 DEF GivesUp
<1>11. ASSUME NEW r \in Roles, Takes(r) PROVE Goal
  <2>1. /\ Alive(r) /\ state[r] = "ExchangeResults" /\ UNCHANGED <<state, target, results>>
        /\ Goto(r, IF r = "client" THEN "done" ELSE "xsend")
    BY <1>11 DEF Takes, Alive, Ended, ExchangeInv, StopPhaseInv
  <2>2. /\ peerResults'[r] = results[Peer(r)]
        /\ (r = "server" => HandedIn) /\ (r = "client" => Completed("server"))
    BY <1>11, Learning DEF ExchangeInv
  <2>3. state = [q \in Roles |-> "ExchangeResults"]
    BY <1>t, <2>1, <2>2, TwoRoles DEF HandedIn, Completed, Outcome
  <2>4. Life!Learn(r)
    BY <1>0, <1>t, <1>11, <2>2, <2>3, TwoRoles DEF Takes, Life!Learn
  <2>5. CASE r = "server"
    <3>1. Outcomes' = Outcomes
      BY <2>1, <2>5, GoesOn, TwoRoles
    <3>2. QED
      BY <2>1, <2>4, <3>1, LifeMoves
  <2>6. CASE r = "client"
    <3>1. Outcomes' = [Outcomes EXCEPT ![r] = "complete"]
      BY <2>1, <2>6, Ends
    <3>2. Outcomes["server"] = "complete"
      BY <1>0, <2>2, <2>6 DEF Completed, Outcomes
    <3>3. Life!Complete(r)
      BY <1>0, <2>1, <2>2, <2>6, <3>1, <3>2 DEF Life!Complete, Outcomes
    <3>4. QED
      BY <2>1, <2>4, <3>3, LifeMoves
  <2>7. QED
    BY <2>5, <2>6, TwoRoles
<1>12. ASSUME NEW r \in Roles, HandsIn(r) PROVE Goal
  <2>1. /\ Alive(r) /\ state[r] = "ExchangeResults" /\ UNCHANGED <<state, target, results, peerResults>>
        /\ Goto(r, IF r = "client" THEN "xread" ELSE "done") /\ pc[r] = "xsend"
    BY <1>12 DEF HandsIn, Alive, Ended, ExchangeInv, StopPhaseInv
  <2>2. CASE r = "client"
    BY <1>8, <2>1, <2>2
  <2>3. CASE r = "server"
    <3>1. peerResults["server"] = results["client"]
      BY <2>1, <2>3 DEF ExchangeInv, ReceivedInv
    <3>2. Outcomes' = [Outcomes EXCEPT ![r] = "complete"]
      BY <2>1, <2>3, Ends, TwoRoles
    <3>3. Life!Complete(r)
      BY <1>0, <2>1, <2>3, <3>1, <3>2, TwoRoles DEF Life!Complete, Outcomes
    <3>4. QED
      BY <2>1, <3>3, LifeMoves
  <2>4. QED
    BY <2>2, <2>3, TwoRoles
<1>13. ASSUME NEW r \in Roles, Leaves(r) PROVE Goal
  <2>1. pc[r] = "collect" /\ Alive(r) /\ UNCHANGED <<state, target, results, peerResults>>
    BY <1>13 DEF Leaves, Alive, Ended
  <2>2. CASE state[r] = "Terminate"
    BY <1>7, <1>13, <2>1, <2>2 DEF Leaves, AfterCollect
  <2>3. CASE state[r] # "Terminate"
    BY <1>8, <1>13, <2>1, <2>3 DEF Leaves, AfterCollect
  <2>4. QED
    BY <2>2, <2>3
<1>14. ASSUME NEW r \in Roles, Wander(r) \/ Stops(r) PROVE Goal
  <2>1. Alive(r) /\ UNCHANGED <<state, target, results, peerResults>>
    BY <1>14 DEF Wander, Loop, Stops, Alive, Ended
  <2>2. QED
    BY <1>8, <1>14, <2>1 DEF Wander, Loop, Stops
<1>15. ASSUME NEW r \in Roles, Misreads(r) PROVE Goal
  BY <1>7, <1>15 DEF Misreads, Alive, Ended
<1>16. QED
  BY <1>1, <1>2, <1>3, <1>5, <1>6, <1>9, <1>10, <1>11, <1>12, <1>13, <1>14, <1>15, TestSteps
     DEF RoleSteps

\* With its listener, workers, channels and faults, the test lives the life that
\* TestLife describes: the server leads through the phases one by one, the client
\* follows, and who completes it holds the other side's results (run_controller on
\* both sides).
THEOREM LifePromised == Spec => LivesAsPromised
<1>1. Init => Life!Init
  <2> SUFFICES ASSUME Init PROVE Life!Init
    OBVIOUS
  <2>1. Outcomes = [r \in Roles |-> "open"]
    BY DEF Init, Outcomes, Outcome, Alive, Ended
  <2>2. Life!Sides = Roles
    BY TwoRoles DEF Life!Sides
  <2>3. QED
    BY <2>1, <2>2 DEF Init, Life!Init, Outcomes
<1>2. IndInv /\ OrderInv /\ ExchangeInv /\ [Next]_vars => [Life!Next]_(Life!vars)
  <2> SUFFICES ASSUME IndInv, OrderInv, ExchangeInv, [Next]_vars
               PROVE  Life!Next \/ UNCHANGED <<target, state, results, peerResults, Outcomes>>
    BY DEF Life!vars, Outcomes
  <2>1. CASE Next
    BY <2>1, LifeStep
  <2>2. CASE UNCHANGED vars
    <3>1. UNCHANGED <<target, state, results, peerResults, pc>>
      BY <2>2 DEF vars, ctrlVars
    <3>2. Outcomes' = Outcomes
      BY <3>1 DEF Outcomes, Outcome, Alive, Ended
    <3>3. QED
      BY <3>1, <3>2
  <2>3. QED
    BY <2>1, <2>2
<1>3. QED
  BY <1>1, <1>2, Invariance, OrderInvariance, ExchangeInvariance, PTL
     DEF Spec, LivesAsPromised, Life!Spec

-----------------------------------------------------------------------------
(* OnceInv: connections and their answers.                                 *)

LEMMA ArrivalTypes ==
  ASSUME IndInv
  PROVE  /\ hello \in [Conns -> {"idle", "open", "sent", "closed"}]
         /\ reply \in [Conns -> {"none", "welcome", "busy", "closed"}]
         /\ backlog \in Seq(Conns) /\ lconn \in Conns \cup {NoStream} /\ NoStream \notin Conns
         /\ inbox["server"] \in Seq(InboxMsgs) /\ index["server"] \in 0 .. Total
         /\ \A c \in Ids : c \in Conns
<1>1. NoStream \notin Strangers
  BY ConstantsAssumption DEF NoStream
<1>2. QED
  BY <1>1, StrangersApart, TwoRoles
     DEF IndInv, TypeOK, ListenerTypeOK, ChanTypeOK, WorkTypeOK, Conns

\* An answer is final.
LEMMA AnswersOnce ==
  ASSUME IndInv, OnceInv, Next, NEW c \in Conns, reply'[c] # reply[c]
  PROVE  reply[c] = "none"
<1>0. /\ reply \in [Conns -> {"none", "welcome", "busy", "closed"}] /\ backlog \in Seq(Conns)
  BY ArrivalTypes
<1>1. ASSUME CloseListener PROVE reply[c] = "none"
  BY <1>0, <1>1 DEF CloseListener
<1>2. CASE ListenerStep
  <2>1. CASE AcceptInFlight
    <3>1. c = backlog[1] /\ 1 \in DOMAIN backlog
      BY <1>0, <2>1, HeadTailType DEF AcceptInFlight, Answer
    <3>2. QED
      BY <3>1 DEF OnceInv
  <2>2. CASE WelcomeStream \/ RejectStranger \/ HandshakeFailed \/ FreshHello
    <3>1. c = lconn /\ Handling
      BY <1>0, <2>2 DEF WelcomeStream, RejectStranger, HandshakeFailed, FreshHello, Answer, Handling
    <3>2. QED
      BY <3>1 DEF OnceInv
  <2>3. CASE ListenerShutdown
    BY <1>1, <2>3 DEF ListenerShutdown
  <2>4. QED
    BY <1>2, <2>1, <2>2, <2>3 DEF ListenerStep, AcceptFresh, FreshGiveUp
<1>3. QED
  BY LstFrame, <1>1, <1>2
     DEF lstVars, ConnectStream, SendHello, Crash, StrangerConnect, StrangerSpeaks

\* A new connection joins the backlog unanswered.
LEMMA Connects ==
  ASSUME IndInv, OnceInv, NEW c \in Conns, hello[c] = "idle", hello' = [hello EXCEPT ![c] = "open"],
         backlog' = Append(backlog, c), UNCHANGED <<lpc, lconn, reply>>
  PROVE  OnceInv'
<1>0. /\ hello \in [Conns -> {"idle", "open", "sent", "closed"}] /\ backlog \in Seq(Conns)
      /\ NoStream \notin Conns /\ lconn \in Conns \cup {NoStream} /\ Len(backlog) \in Nat
  BY ArrivalTypes
<1>1. \A d \in Conns : hello'[d] = IF d = c THEN "open" ELSE hello[d]
  BY <1>0
<1>2. reply[c] = "none" /\ \A k \in DOMAIN backlog : backlog[k] # c
  BY DEF OnceInv
<1>3. ASSUME NEW k \in DOMAIN backlog'
      PROVE  /\ k \in Nat /\ backlog'[k] \in Conns
             /\ (k \in DOMAIN backlog /\ k < Len(backlog) + 1 /\ backlog'[k] = backlog[k])
                \/ (k = Len(backlog) + 1 /\ backlog'[k] = c)
  <2>1. k \in DOMAIN Append(backlog, c)
    BY <1>3
  <2>2. k \in Nat /\ \/ k \in DOMAIN backlog /\ k < Len(backlog) + 1 /\ backlog'[k] = backlog[k]
                     \/ k = Len(backlog) + 1 /\ backlog'[k] = c
    BY <1>0, <2>1, AppendIndex
  <2>3. \A l \in DOMAIN backlog : backlog[l] \in Conns
    BY <1>0
  <2>4. QED
    BY <2>2, <2>3
<1>4. ASSUME NEW k \in DOMAIN backlog'
      PROVE  /\ hello'[backlog'[k]] # "idle" /\ reply'[backlog'[k]] = "none"
             /\ \A l \in DOMAIN backlog' : backlog'[l] = backlog'[k] => l = k
  <2>1. hello'[backlog'[k]] # "idle" /\ reply'[backlog'[k]] = "none"
    BY <1>1, <1>2, <1>3 DEF OnceInv
  <2>2. ASSUME NEW l \in DOMAIN backlog', backlog'[l] = backlog'[k] PROVE l = k
    BY <1>2, <1>3, <2>2 DEF OnceInv
  <2>3. QED
    BY <2>1, <2>2
<1>5. Handling' => /\ lconn' \in Conns /\ reply'[lconn'] = "none"
                   /\ \A k \in DOMAIN backlog' : backlog'[k] # lconn'
  <2>1. Handling => lconn \in Conns /\ lconn # c
    BY DEF OnceInv
  <2>2. QED
    BY <1>3, <2>1 DEF OnceInv, Handling
<1>6. (lconn' \in Conns => hello'[lconn'] # "idle") /\ \A d \in Conns : hello'[d] = "idle" => reply'[d] = "none"
  BY <1>1 DEF OnceInv
<1>7. QED
  BY <1>4, <1>5, <1>6 DEF OnceInv

\* The listener takes the next connection of the backlog.
LEMMA TakesNext ==
  ASSUME IndInv, OnceInv, backlog # <<>>, backlog' = Tail(backlog), UNCHANGED hello,
         \/ UNCHANGED reply /\ lconn' = Head(backlog)
         \/ reply' = [reply EXCEPT ![Head(backlog)] = "busy"] /\ UNCHANGED <<lpc, lconn>> /\ lpc = "accept"
  PROVE  OnceInv'
<1>0. /\ reply \in [Conns -> {"none", "welcome", "busy", "closed"}] /\ backlog \in Seq(Conns)
      /\ Head(backlog) = backlog[1] /\ 1 \in DOMAIN backlog /\ backlog[1] \in Conns
  BY ArrivalTypes, HeadTailType
<1>1. ASSUME NEW k \in DOMAIN backlog'
      PROVE  /\ k + 1 \in DOMAIN backlog /\ k + 1 # 1 /\ k \in Nat /\ backlog'[k] = backlog[k + 1]
             /\ backlog'[k] # backlog[1] /\ backlog'[k] \in Conns
  <2>1. k + 1 \in DOMAIN backlog /\ k + 1 # 1 /\ k \in Nat /\ backlog'[k] = backlog[k + 1]
    BY <1>0, <1>1, TailIndex
  <2>2. backlog[k + 1] \in Conns
    BY <1>0, <2>1
  <2>3. QED
    BY <1>0, <2>1, <2>2 DEF OnceInv
<1>2. \A d \in Conns : d # backlog[1] => reply'[d] = reply[d]
  BY <1>0
<1>3. ASSUME NEW k \in DOMAIN backlog'
      PROVE  /\ hello'[backlog'[k]] # "idle" /\ reply'[backlog'[k]] = "none"
             /\ \A l \in DOMAIN backlog' : backlog'[l] = backlog'[k] => l = k
  <2>1. hello'[backlog'[k]] # "idle" /\ reply'[backlog'[k]] = "none"
    BY <1>1, <1>2, <1>3 DEF OnceInv
  <2>2. ASSUME NEW l \in DOMAIN backlog', backlog'[l] = backlog'[k] PROVE l = k
    <3>1. l + 1 = k + 1
      BY <1>1, <1>3, <2>2 DEF OnceInv
    <3>2. QED
      BY <1>1, <1>3, <2>2, <3>1
  <2>3. QED
    BY <2>1, <2>2
<1>4. hello[backlog[1]] # "idle" /\ reply[backlog[1]] = "none"
  BY <1>0 DEF OnceInv
<1>5. \A d \in Conns : hello'[d] = "idle" => reply'[d] = "none"
  BY <1>2, <1>4 DEF OnceInv
<1>6. lconn' \in Conns => hello'[lconn'] # "idle"
  BY <1>0, <1>4 DEF OnceInv
<1>7. Handling' => /\ lconn' \in Conns /\ reply'[lconn'] = "none"
                   /\ \A k \in DOMAIN backlog' : backlog'[k] # lconn'
  BY <1>0, <1>1, <1>4 DEF Handling
<1>8. QED
  BY <1>3, <1>5, <1>6, <1>7 DEF OnceInv

\* Every step keeps answers single.
LEMMA OnceStep ==
  ASSUME IndInv, OnceInv, Next
  PROVE  OnceInv'
<1>0. /\ hello \in [Conns -> {"idle", "open", "sent", "closed"}] /\ backlog \in Seq(Conns)
      /\ reply \in [Conns -> {"none", "welcome", "busy", "closed"}]
      /\ NoStream \notin Conns /\ lconn \in Conns \cup {NoStream}
      /\ \A k \in DOMAIN backlog : backlog[k] \in Conns
  BY ArrivalTypes
<1>1. CASE UNCHANGED lstVars
  BY <1>1 DEF lstVars, OnceInv, Handling
<1>2. CASE ConnectStream /\ Goto("client", "hello")
  <2>1. index["client"] \in Conns /\ hello[index["client"]] = "idle"
    <3>1. index["client"] \in Ids /\ pc["client"] = "connect"
      BY <1>2, IdsNat, TwoRoles DEF ConnectStream, IndInv, TypeOK, WorkTypeOK
    <3>2. QED
      BY <3>1, StrangersApart DEF IndInv, ConnectingInv
  <2>2. hello' = [hello EXCEPT ![index["client"]] = "open"] /\ backlog' = Append(backlog, index["client"])
        /\ UNCHANGED <<lpc, lconn, reply>>
    <3>1. pc'["client"] = "hello"
      BY <1>2, PlaceOf, TwoRoles
    <3>2. ~Goto("client", "aborted")
      BY <3>1, PlaceOf, TwoRoles
    <3>3. QED
      BY <1>2, <3>2 DEF ConnectStream
  <2>3. QED
    BY <2>1, <2>2, Connects
<1>3. ASSUME NEW s \in Strangers, StrangerConnect(s) PROVE OnceInv'
  BY <1>3, StrangersApart, Connects DEF StrangerConnect
<1>4. ASSUME \A c \in Conns : hello[c] # "idle" => hello'[c] # "idle", UNCHANGED <<lpc, lconn, backlog, reply>>
      PROVE  OnceInv'
  BY <1>0, <1>4 DEF OnceInv, Handling
<1>5. CASE SendHello
  BY <1>0, <1>4, <1>5 DEF SendHello
<1>6. ASSUME NEW s \in Strangers, StrangerSpeaks(s) PROVE OnceInv'
  BY <1>0, <1>4, <1>6 DEF StrangerSpeaks
<1>7. ASSUME CloseListener, UNCHANGED hello PROVE OnceInv'
  <2>1. \A c \in Conns : hello'[c] = "idle" => reply'[c] = "none"
    BY <1>0, <1>7 DEF OnceInv, CloseListener
  <2>2. lpc' = "stopped" /\ lconn' \notin Conns /\ backlog' = <<>>
    BY <1>0, <1>7 DEF CloseListener
  <2>3. QED
    BY <2>1, <2>2 DEF OnceInv, Handling
<1>8. ASSUME NEW r \in Roles, Crash(r) PROVE OnceInv'
  BY <1>0, <1>4, <1>7, <1>8 DEF Crash, CloseClientConns
<1>9. CASE ListenerStep
  <2>1. CASE AcceptInFlight \/ AcceptFresh
    BY <2>1, TakesNext DEF AcceptInFlight, AcceptFresh, Answer
  <2>2. ASSUME NEW a, Answer(lconn, a), Handling, lpc' \notin {"hello", "cookie"},
               lconn' \in {lconn, NoStream}, UNCHANGED <<hello, backlog>>
        PROVE  OnceInv'
    <3>1. lconn \in Conns /\ hello[lconn] # "idle" /\ \A k \in DOMAIN backlog : backlog[k] # lconn
      BY <2>2 DEF OnceInv
    <3>2. \A c \in Conns : c # lconn => reply'[c] = reply[c]
      BY <1>0, <2>2 DEF Answer
    <3>3. \A k \in DOMAIN backlog' : reply'[backlog'[k]] = "none"
      BY <1>0, <2>2, <3>1, <3>2 DEF OnceInv
    <3>4. QED
      BY <1>0, <2>2, <3>1, <3>2, <3>3 DEF OnceInv, Handling
  <2>3. CASE WelcomeStream \/ RejectStranger \/ HandshakeFailed \/ FreshHello
    BY <2>2, <2>3
       DEF WelcomeStream, RejectStranger, HandshakeFailed, FreshHello, BackToAccept, Handling
  <2>4. CASE FreshGiveUp
    BY <1>0, <2>4 DEF FreshGiveUp, BackToAccept, OnceInv, Handling
  <2>5. CASE ListenerShutdown
    BY <1>7, <2>5 DEF ListenerShutdown
  <2>6. QED
    BY <1>9, <2>1, <2>3, <2>4, <2>5 DEF ListenerStep
<1>10. QED
  BY LstFrame, <1>1, <1>2, <1>3, <1>5, <1>6, <1>8, <1>9

-----------------------------------------------------------------------------
(* RoomInv: how many messages wait for the server's controller.            *)

LEMMA IdsCount == IsFiniteSet(Ids) /\ Cardinality(Ids) = Total
<1>1. Total \in Nat /\ Ids = 0 .. Total - 1
  BY TotalNat DEF Ids
<1>2. 0 \in Int /\ Total - 1 \in Int
  BY <1>1
<1>3. /\ IsFiniteSet(0 .. Total - 1)
      /\ Cardinality(0 .. Total - 1) = IF 0 > Total - 1 THEN 0 ELSE (Total - 1) - 0 + 1
  BY <1>2, FS_Interval
<1>4. QED
  BY <1>1, <1>3

\* Connections are as many as streams and strangers.
LEMMA ConnsCount ==
  ASSUME IsFiniteSet(Strangers)
  PROVE  IsFiniteSet(Conns) /\ Cardinality(Conns) = Total + Cardinality(Strangers)
<1>1. IsFiniteSet(Ids) /\ Cardinality(Ids) = Total
  BY IdsCount
<1>2. Ids \cap Strangers = {}
  BY StrangersApart
<1>3. Cardinality(Ids \cap Strangers) = 0 /\ Cardinality(Strangers) \in Nat
  BY <1>2, FS_EmptySet, FS_CardinalityType
<1>4. /\ IsFiniteSet(Ids \cup Strangers)
      /\ Cardinality(Ids \cup Strangers)
           = Cardinality(Ids) + Cardinality(Strangers) - Cardinality(Ids \cap Strangers)
  BY <1>1, FS_Union
<1>5. QED
  BY <1>1, <1>3, <1>4, IdsNat DEF Conns

\* Answers only become more.
LEMMA AnsweredGrows ==
  ASSUME IndInv, OnceInv, Next, IsFiniteSet(Strangers)
  PROVE  /\ Answered \subseteq Answered' /\ IsFiniteSet(Answered')
         /\ Cardinality(Answered) \in Nat /\ Cardinality(Answered') \in Nat
         /\ Cardinality(Answered) <= Cardinality(Answered')
         /\ \A c \in Conns : c \in Answered' \ Answered => Cardinality(Answered) + 1 <= Cardinality(Answered')
<1>1. Answered \subseteq Answered' /\ Answered' \subseteq Conns
  BY AnswersOnce DEF Answered
<1>2. IsFiniteSet(Answered') /\ IsFiniteSet(Answered)
  BY <1>1, ConnsCount, FS_Subset
<1>3. Cardinality(Answered) \in Nat /\ Cardinality(Answered') \in Nat
  BY <1>2, FS_CardinalityType
<1>4. Cardinality(Answered) <= Cardinality(Answered')
  BY <1>1, <1>2, FS_Subset
<1>5. ASSUME NEW c \in Conns, c \in Answered' \ Answered
      PROVE  Cardinality(Answered) + 1 <= Cardinality(Answered')
  <2>1. Answered \cup {c} \in SUBSET Answered'
    BY <1>1, <1>5
  <2>2. Cardinality(Answered \cup {c}) <= Cardinality(Answered')
    BY <1>2, <2>1, FS_Subset
  <2>3. Cardinality(Answered \cup {c}) = Cardinality(Answered) + 1
    BY <1>2, <1>5, FS_AddElement
  <2>4. QED
    BY <2>2, <2>3
<1>6. QED
  BY <1>1, <1>2, <1>3, <1>4, <1>5

\* The shutdown signal is seen once.
LEMMA SeenStays ==
  ASSUME IndInv, Next, NEW q \in Roles, shutdown[q] = "seen"
  PROVE  shutdown'[q] = "seen"
<1>0. shutdown \in [Roles -> {"none", "pending", "seen"}]
  BY DEF IndInv, TypeOK, CtrlTypeOK
<1>1. ASSUME NEW r \in Roles, Poll(r) \/ OnShutdown(r) \/ CtrlC(r) PROVE shutdown'[q] = "seen"
  BY <1>0, <1>1 DEF Poll, OnShutdown, CtrlC
<1>2. CASE UNCHANGED shutdown
  BY <1>2
<1>3. QED
  BY NextCases, <1>1, <1>2, ExitFrame, StrangerFrame, WorkerFrame, ListenerFrame
     DEF Assign, TopStart, TopCreateStreams, ConnectStream, SendHello, AwaitWelcome,
         AcceptStream, StreamsCreated, OnServerMessage, TopRunning, TopStopWorkers, TopNothing,
         OnStreamTerminated, OnTerminate, CollectOne, AllCollected, SendResults, ReadResults,
         Crash, ctrlVars

\* The workers that ended well only become more.
LEMMA FinishedGrows ==
  ASSUME IndInv, Next, NEW q \in Roles
  PROVE  /\ Cardinality(Finished(q)) \in Nat /\ Cardinality(Finished(q)') \in Nat
         /\ Cardinality(Finished(q)) <= Cardinality(Finished(q)')
         /\ \A i \in Finished(q)' \ Finished(q) :
              Cardinality(Finished(q)) + 1 <= Cardinality(Finished(q)')
<1>1. Finished(q) \subseteq Finished(q)' /\ Finished(q)' \subseteq Ids
  <2>1. ASSUME NEW i \in Ids, task[q][i] = "ok" PROVE task'[q][i] = "ok"
    <3>1. index[q] = Total
      BY <2>1 DEF IndInv, RunningInv
    <3>2. i # index[q]
      BY <3>1, IdsNat
    <3>3. QED
      BY <2>1, <3>2, TaskSteps
  <2>2. QED
    BY <2>1 DEF Finished
<1>2. IsFiniteSet(Ids)
  BY IdsCount
<1>3. IsFiniteSet(Finished(q)') /\ IsFiniteSet(Finished(q))
  BY <1>1, <1>2, FS_Subset
<1>4. Cardinality(Finished(q)) \in Nat /\ Cardinality(Finished(q)') \in Nat
  BY <1>3, FS_CardinalityType
<1>5. Cardinality(Finished(q)) <= Cardinality(Finished(q)')
  BY <1>1, <1>3, FS_Subset
<1>6. ASSUME NEW i \in Finished(q)' \ Finished(q)
      PROVE  Cardinality(Finished(q)) + 1 <= Cardinality(Finished(q)')
  <2>1. Finished(q) \cup {i} \in SUBSET Finished(q)'
    BY <1>1, <1>6
  <2>2. Cardinality(Finished(q) \cup {i}) <= Cardinality(Finished(q)')
    BY <1>3, <2>1, FS_Subset
  <2>3. Cardinality(Finished(q) \cup {i}) = Cardinality(Finished(q)) + 1
    BY <1>3, <1>6, FS_AddElement
  <2>4. QED
    BY <2>2, <2>3
<1>7. QED
  BY <1>4, <1>5, <1>6

\* An answer adds to what may arrive; numbering a stream takes away what it took out.
LEMMA ArrivalsGrow ==
  ASSUME IndInv, OnceInv, Next, NEW q \in Roles, IsFiniteSet(Strangers)
  PROVE  /\ Arrivals(q) \in Int /\ Arrivals(q)' \in Int
         /\ (q = "server" /\ AcceptStream) \/ Arrivals(q) <= Arrivals(q)'
         /\ Arrivals(q) <= Arrivals(q)' + 1
         /\ q = "server" /\ (WelcomeStream \/ HandshakeFailed) => Arrivals(q) + 1 <= Arrivals(q)'
<1>1. /\ Cardinality(Answered) \in Nat /\ Cardinality(Answered') \in Nat
      /\ Cardinality(Answered) <= Cardinality(Answered')
      /\ \A c \in Conns : c \in Answered' \ Answered => Cardinality(Answered) + 1 <= Cardinality(Answered')
  BY AnsweredGrows
<1>2. /\ index["server"] \in Nat /\ index'["server"] \in Nat
      /\ index'["server"] = index["server"] \/ (AcceptStream /\ index'["server"] = index["server"] + 1)
  BY IndexSteps, IdsNat
<1>3. ASSUME WelcomeStream \/ HandshakeFailed
      PROVE  /\ Cardinality(Answered) + 1 <= Cardinality(Answered')
             /\ index'["server"] = index["server"]
  <2>1. lconn \in Conns /\ reply[lconn] = "none"
    BY <1>3 DEF WelcomeStream, HandshakeFailed, OnceInv, Handling
  <2>2. reply'[lconn] \in {"welcome", "closed"}
    BY <1>3, <2>1, ArrivalTypes DEF WelcomeStream, HandshakeFailed, Answer
  <2>3. lconn \in Answered' \ Answered
    BY <2>1, <2>2 DEF Answered
  <2>4. index' = index
    BY <1>3 DEF WelcomeStream, HandshakeFailed, workVars
  <2>5. QED
    BY <1>1, <2>1, <2>3, <2>4
<1>4. CASE q = "server"
  <2>1. /\ Arrivals(q) = Cardinality(Answered) - index["server"]
        /\ Arrivals(q)' = Cardinality(Answered') - index'["server"]
    BY <1>4 DEF Arrivals
  <2>2. QED
    BY <1>1, <1>2, <1>3, <1>4, <2>1
<1>5. CASE q # "server"
  BY <1>5 DEF Arrivals
<1>6. QED
  BY <1>4, <1>5

\* A count that goes down by one, or up by one of its two sources.
LEMMA OneLess ==
  ASSUME NEW n \in Nat, NEW a \in Int, NEW k \in Nat, NEW f \in Nat, n <= a + k + f,
         NEW a2 \in Int, NEW k2 \in Nat, NEW f2 \in Nat, a <= a2 + 1, k <= k2, f <= f2
  PROVE  n - 1 <= a2 + k2 + f2
  OBVIOUS

LEMMA OneMore ==
  ASSUME NEW n \in Nat, NEW a \in Int, NEW k \in Nat, NEW f \in Nat, n <= a + k + f,
         NEW a2 \in Int, NEW k2 \in Nat, NEW f2 \in Nat, f <= f2,
         (a + 1 <= a2 /\ k <= k2) \/ (a <= a2 /\ k + 1 <= k2)
  PROVE  n + 1 <= a2 + k2 + f2
<1>1. CASE a + 1 <= a2 /\ k <= k2
  BY <1>1
<1>2. CASE a <= a2 /\ k + 1 <= k2
  BY <1>2
<1>3. QED
  BY <1>1, <1>2

\* Every step keeps the count.
LEMMA RoomStep ==
  ASSUME IndInv, OnceInv, RoomInv, Next, IsFiniteSet(Strangers)
  PROVE  RoomInv'
<1> SUFFICES ASSUME NEW q \in Roles
             PROVE  Len(inbox'[q]) <= Arrivals(q)' + Cardinality(Finished(q)')
                                        + (IF shutdown'[q] = "seen" THEN 1 ELSE 0)
  BY DEF RoomInv
<1> DEFINE n == Len(inbox[q])
           a == Arrivals(q)
           k == Cardinality(Finished(q))
           f == IF shutdown[q] = "seen" THEN 1 ELSE 0
<1> SUFFICES Len(inbox'[q]) <= a' + k' + f'
  OBVIOUS
<1>0. /\ inbox[q] \in Seq(InboxMsgs) /\ n \in Nat
      /\ shutdown \in [Roles -> {"none", "pending", "seen"}]
  BY DEF IndInv, TypeOK, CtrlTypeOK, ChanTypeOK
<1>1. n <= a + k + f
  BY DEF RoomInv
<1>2. /\ a \in Int /\ a' \in Int /\ a <= a' + 1
      /\ (q = "server" /\ AcceptStream) \/ a <= a'
      /\ q = "server" /\ (WelcomeStream \/ HandshakeFailed) => a + 1 <= a'
  BY ArrivalsGrow
<1>3. k \in Nat /\ k' \in Nat /\ k <= k' /\ \A i \in Finished(q)' \ Finished(q) : k + 1 <= k'
  BY FinishedGrows
<1>4. f \in {0, 1} /\ f' \in {0, 1} /\ f <= f'
  BY <1>0, SeenStays
<1> HIDE DEF a, k, f
<1>5. ASSUME NEW m, inbox'[q] = Append(inbox[q], m) PROVE Len(inbox'[q]) = n + 1
  BY <1>0, <1>5
<1>6. ASSUME inbox'[q] = inbox[q] \/ Len(inbox'[q]) = n + 1 PROVE a <= a'
  <2>1. ASSUME AcceptStream, q = "server" PROVE Len(inbox'[q]) = n - 1
    <3>1. inbox'[q] = Tail(inbox[q]) /\ inbox[q] # <<>>
      BY <2>1 DEF AcceptStream, NextMsg, IndInv, TypeOK, ChanTypeOK
    <3>2. QED
      BY <1>0, <3>1
  <2>2. QED
    BY <1>0, <1>2, <1>6, <2>1
<1>7. CASE inbox'[q] = inbox[q]
  BY <1>0, <1>1, <1>2, <1>3, <1>4, <1>6, <1>7
<1>8. CASE inbox[q] # <<>> /\ inbox'[q] = Tail(inbox[q])
  <2>1. Len(inbox'[q]) = n - 1
    BY <1>0, <1>8
  <2>2. a \in Int /\ a' \in Int /\ a <= a' + 1
    BY <1>2
  <2>3. k \in Nat /\ k' \in Nat /\ k <= k'
    BY <1>3
  <2>4. f \in Nat /\ f' \in Nat /\ f <= f' /\ n \in Nat
    BY <1>0, <1>4
  <2> HIDE DEF n
  <2>5. n - 1 <= a' + k' + f'
    BY <1>1, <2>2, <2>3, <2>4, OneLess
  <2>6. QED
    BY <2>1, <2>5
<1>9. CASE inbox'[q] = Append(inbox[q], TerminateMsg) /\ Poll(q) /\ shutdown[q] = "pending"
  <2>1. f = 0 /\ f' = 1
    BY <1>0, <1>9 DEF Poll, f
  <2>2. QED
    BY <1>0, <1>1, <1>2, <1>3, <1>5, <1>6, <1>9, <2>1
<1>10. CASE /\ q = "server" /\ (WelcomeStream \/ HandshakeFailed)
            /\ \E m : inbox'[q] = Append(inbox[q], m)
  <2>1. Len(inbox'[q]) = n + 1 /\ a + 1 <= a'
    BY <1>2, <1>5, <1>10
  <2>2. /\ a \in Int /\ a' \in Int /\ k \in Nat /\ k' \in Nat /\ k <= k'
        /\ f \in Nat /\ f' \in Nat /\ f <= f' /\ n \in Nat
    BY <1>0, <1>2, <1>3, <1>4
  <2> HIDE DEF n
  <2>3. n + 1 <= a' + k' + f'
    BY <1>1, <2>1, <2>2, OneMore
  <2>4. QED
    BY <2>1, <2>3
<1>11. ASSUME NEW i \in Ids, task[q][i] = "running", task'[q][i] = "ok",
              inbox'[q] = Append(inbox[q], StreamTerminated(i))
       PROVE  Len(inbox'[q]) <= a' + k' + f'
  <2>1. i \in Finished(q)' \ Finished(q)
    BY <1>11 DEF Finished
  <2>2. k + 1 <= k'
    BY <1>3, <2>1
  <2>3. Len(inbox'[q]) = n + 1 /\ a <= a'
    BY <1>5, <1>6, <1>11
  <2>4. /\ a \in Int /\ a' \in Int /\ k \in Nat /\ k' \in Nat
        /\ f \in Nat /\ f' \in Nat /\ f <= f' /\ n \in Nat
    BY <1>0, <1>2, <1>3, <1>4
  <2> HIDE DEF n
  <2>5. n + 1 <= a' + k' + f'
    BY <1>1, <2>2, <2>3, <2>4, OneMore
  <2>6. QED
    BY <2>3, <2>5
<1>12. QED
  BY <1>7, <1>8, <1>9, <1>10, <1>11, InboxSteps

-----------------------------------------------------------------------------
(* KeptInv: every welcomed stream is queued or registered.                 *)

\* Under the lock only WelcomeStream answers "welcome".
LEMMA WelcomingStep ==
  ASSUME IndInv, Next, NEW c \in Conns, reply[c] # "welcome", reply'[c] = "welcome", lpc = "hello"
  PROVE  WelcomeStream /\ c = lconn
<1>0. reply \in [Conns -> {"none", "welcome", "busy", "closed"}]
  BY ArrivalTypes
<1>1. CASE ListenerStep
  <2>1. WelcomeStream \/ RejectStranger \/ HandshakeFailed
    BY <1>1 DEF ListenerStep, AcceptInFlight, AcceptFresh, FreshHello, FreshGiveUp, ListenerShutdown
  <2>2. QED
    BY <1>0, <2>1 DEF WelcomeStream, RejectStranger, HandshakeFailed, Answer
<1>2. ASSUME NEW r \in Roles, Crash(r) PROVE FALSE
  BY <1>0, <1>2 DEF Crash, CloseListener
<1>3. QED
  BY LstFrame, <1>1, <1>2
     DEF lstVars, ConnectStream, SendHello, StrangerConnect, StrangerSpeaks

\* No more connections are answered than there are.
LEMMA AnsweredCount ==
  ASSUME IndInv, IsFiniteSet(Strangers)
  PROVE  /\ Cardinality(Answered) \in Nat /\ Cardinality(Strangers) \in Nat /\ Total \in Nat
         /\ Cardinality(Answered) <= Total + Cardinality(Strangers)
         /\ \A c \in Conns \ Answered : Cardinality(Answered) + 1 <= Total + Cardinality(Strangers)
<1>1. IsFiniteSet(Conns) /\ Cardinality(Conns) = Total + Cardinality(Strangers)
  BY ConnsCount
<1>2. Answered \subseteq Conns
  BY DEF Answered
<1>3. IsFiniteSet(Answered) /\ Cardinality(Answered) \in Nat /\ Cardinality(Answered) <= Cardinality(Conns)
  BY <1>1, <1>2, FS_Subset, FS_CardinalityType
<1>4. ASSUME NEW c \in Conns \ Answered PROVE Cardinality(Answered) + 1 <= Cardinality(Conns)
  <2>1. Answered \cup {c} \in SUBSET Conns
    BY <1>2, <1>4
  <2>2. Cardinality(Answered \cup {c}) <= Cardinality(Conns)
    BY <1>1, <2>1, FS_Subset
  <2>3. Cardinality(Answered \cup {c}) = Cardinality(Answered) + 1
    BY <1>3, <1>4, FS_AddElement
  <2>4. QED
    BY <2>2, <2>3
<1>5. Cardinality(Strangers) \in Nat /\ Total \in Nat
  BY IdsNat, FS_CardinalityType
<1>6. QED
  BY <1>1, <1>3, <1>4, <1>5

\* In CreateStreams no worker has ended well.
LEMMA NoneFinished ==
  ASSUME IndInv, OrderInv, ~Stopped("server"), state["server"] = "CreateStreams"
  PROVE  Cardinality(Finished("server")) = 0
<1>1. ASSUME NEW i \in Ids, task["server"][i] = "ok" PROVE FALSE
  <2>1. Started("server")
    BY <1>1, TwoRoles DEF IndInv, RunningInv
  <2>2. published["server"] # <<>>
    BY <2>1 DEF Started
  <2>3. Rank(state["server"]) >= 2
    BY <2>2, TwoRoles DEF OrderInv, SignalsInv
  <2>4. QED
    BY <2>3, RankFacts
<1>2. Finished("server") = {}
  BY <1>1 DEF Finished
<1>3. QED
  BY <1>2, FS_EmptySet

\* The listener finds room for the stream it has welcomed.
LEMMA RoomToWelcome ==
  ASSUME IndInv, OrderInv, StopPhaseInv, OnceInv, RoomInv, WelcomeStream, Alive("server"),
         IsFiniteSet(Strangers), ChanCap > Total + Cardinality(Strangers)
  PROVE  HasRoom("server")
<1>1. lconn \in Conns \ Answered
  BY DEF OnceInv, Handling, WelcomeStream, Answered
<1>2. /\ Cardinality(Answered) \in Nat /\ Cardinality(Strangers) \in Nat /\ Total \in Nat
      /\ Cardinality(Answered) + 1 <= Total + Cardinality(Strangers)
  BY <1>1, AnsweredCount
<1>3. state["server"] = "CreateStreams"
  BY DEF WelcomeStream, OrderInv, LockInv
<1>4. ~Stopped("server")
  BY <1>3, TwoRoles DEF Stopped, Alive, Ended, StopPhaseInv
<1>5. Cardinality(Finished("server")) = 0
  BY <1>3, <1>4, NoneFinished
<1>6. Len(inbox["server"]) <= Cardinality(Answered) - index["server"] + Cardinality(Finished("server"))
                                + (IF shutdown["server"] = "seen" THEN 1 ELSE 0)
  BY TwoRoles DEF RoomInv, Arrivals
<1>7. index["server"] \in Nat /\ Len(inbox["server"]) \in Nat /\ ChanCap \in Nat
  BY ArrivalTypes, IdsNat, ConstantsAssumption
<1>8. Len(inbox["server"]) < ChanCap
  BY <1>2, <1>5, <1>6, <1>7
<1>9. QED
  BY <1>8 DEF HasRoom

\* A queued stream stays queued until it is registered.
LEMMA QueuedSteps ==
  ASSUME IndInv, Next, NEW c \in Ids, Queued(c)
  PROVE  Queued(c)' \/ \E j \in Ids : j < index'["server"] /\ conn'["server"][j] = c
<1>0. inbox["server"] \in Seq(InboxMsgs) /\ "server" \in Roles
  BY ArrivalTypes, TwoRoles
<1>1. PICK k \in DOMAIN inbox["server"] : inbox["server"][k] = CreateStream(c)
  BY DEF Queued
<1>2. CASE inbox'["server"] = inbox["server"]
  BY <1>1, <1>2 DEF Queued
<1>3. ASSUME NEW m, inbox'["server"] = Append(inbox["server"], m) PROVE Queued(c)'
  <2>1. k \in DOMAIN Append(inbox["server"], m) /\ Append(inbox["server"], m)[k] = inbox["server"][k]
    BY <1>0, <1>1
  <2>2. QED
    BY <1>1, <1>3, <2>1 DEF Queued
<1>4. CASE /\ inbox["server"] # <<>> /\ inbox'["server"] = Tail(inbox["server"])
           /\ Head(inbox["server"]).kind = "CreateStream" => AcceptStream
  <2>1. CASE k = 1
    <3>1. Head(inbox["server"]) = CreateStream(c)
      BY <1>0, <1>1, <1>4, <2>1, HeadTailType
    <3>2. AcceptStream /\ Head(inbox["server"]).id = c
      BY <1>4, <3>1 DEF CreateStream
    <3>3. index["server"] \in Ids /\ Register("server", c)
      BY <3>2, RoomForStream DEF AcceptStream
    <3>4. index'["server"] = index["server"] + 1 /\ conn'["server"][index["server"]] = c
      BY <1>0, <3>3 DEF Register, IndInv, TypeOK, WorkTypeOK
    <3>5. index["server"] < index'["server"]
      BY <3>3, <3>4, IdsNat
    <3>6. QED
      BY <3>3, <3>4, <3>5
  <2>2. CASE k # 1
    <3>1. k - 1 \in DOMAIN Tail(inbox["server"]) /\ Tail(inbox["server"])[k - 1] = inbox["server"][k]
      BY <1>0, <1>1, <1>4, <2>2
    <3>2. QED
      BY <1>1, <1>4, <3>1 DEF Queued
  <2>3. QED
    BY <2>1, <2>2
<1>5. QED
  BY <1>0, <1>2, <1>3, <1>4, InboxSteps

\* A registered stream keeps its number.
LEMMA RegisteredStays ==
  ASSUME IndInv, Next, NEW j \in Ids, j < index["server"]
  PROVE  j < index'["server"] /\ conn'["server"][j] = conn["server"][j]
<1>0. /\ index["server"] \in 0 .. Total /\ index'["server"] \in 0 .. Total
      /\ index["server"] <= index'["server"]
  BY IndexSteps
<1> SUFFICES conn'["server"][j] = conn["server"][j]
  BY <1>0, IdsNat
<1>1. conn \in [Roles -> [Ids -> Ids \cup {NoStream}]] /\ "server" \in Roles
  BY TwoRoles DEF IndInv, TypeOK, WorkTypeOK
<1>2. ASSUME NEW r \in Roles, NEW c, Register(r, c), r = "server" => index[r] # j
      PROVE  conn'["server"][j] = conn["server"][j]
  BY <1>1, <1>2 DEF Register
<1>3. CASE AcceptStream
  BY <1>0, <1>1, <1>2, <1>3, IdsNat DEF AcceptStream
<1>4. CASE AwaitWelcome
  <2>1. CASE Register("client", index["client"])
    BY <1>2, <2>1, TwoRoles
  <2>2. CASE UNCHANGED workVars
    BY <2>2 DEF workVars
  <2>3. QED
    BY <1>4, <2>1, <2>2 DEF AwaitWelcome
<1>5. QED
  BY NextCases, <1>3, <1>4, ExitFrame, StrangerFrame, WorkerFrame, ListenerFrame
     DEF Assign, TopStart, TopCreateStreams, ConnectStream, SendHello, StreamsCreated,
         OnServerMessage, TopRunning, TopStopWorkers, TopNothing, Poll, OnStreamTerminated,
         OnTerminate, OnShutdown, CollectOne, AllCollected, SendResults, ReadResults, CtrlC,
         Crash, workVars

\* Every step keeps the welcomed streams.
LEMMA KeptStep ==
  ASSUME IndInv, OrderInv, StopPhaseInv, ArrivalInv, Next,
         IsFiniteSet(Strangers), ChanCap > Total + Cardinality(Strangers)
  PROVE  KeptInv'
<1> SUFFICES ASSUME NEW c \in Ids, reply'[c] = "welcome", Alive("server")'
             PROVE  Queued(c)' \/ \E j \in Ids : j < index'["server"] /\ conn'["server"][j] = c
  BY DEF KeptInv
<1>0. Alive("server") /\ c \in Conns /\ inbox \in [Roles -> Seq(InboxMsgs)] /\ "server" \in Roles
  BY EndedStays, StrangersApart, TwoRoles DEF Alive, IndInv, TypeOK, ChanTypeOK
<1>1. CASE reply[c] = "welcome"
  <2>1. CASE Queued(c)
    BY <2>1, QueuedSteps
  <2>2. CASE \E j \in Ids : j < index["server"] /\ conn["server"][j] = c
    BY <2>2, RegisteredStays
  <2>3. QED
    BY <1>0, <1>1, <2>1, <2>2 DEF ArrivalInv, KeptInv
<1>2. CASE reply[c] # "welcome"
  <2>1. lpc \in {"hello", "cookie"}
    BY <1>0, <1>2, AnswerSteps
  <2>2. lpc = "hello"
    BY <1>0, <2>1 DEF OrderInv, LockInv, Alive
  <2>3. WelcomeStream /\ c = lconn
    BY <1>0, <1>2, <2>2, WelcomingStep
  <2>4. HasRoom("server")
    BY <1>0, <2>3, RoomToWelcome DEF ArrivalInv
  <2>5. inbox'["server"] = Append(inbox["server"], CreateStream(c))
    BY <1>0, <2>3, <2>4 DEF WelcomeStream, TrySend
  <2>6. /\ Len(inbox["server"]) + 1 \in DOMAIN Append(inbox["server"], CreateStream(c))
        /\ Append(inbox["server"], CreateStream(c))[Len(inbox["server"]) + 1] = CreateStream(c)
    BY <1>0
  <2>7. QED
    BY <2>5, <2>6 DEF Queued
<1>3. QED
  BY <1>1, <1>2

-----------------------------------------------------------------------------
(* HeldInv and EndsReported: workers that ended well are reported.         *)

\* Until it stops, a controller gives up a worker only for its result.
LEMMA HeldStep ==
  ASSUME IndInv, HeldInv, Next
  PROVE  HeldInv'
<1> SUFFICES ASSUME NEW r \in Roles, ~Stopped(r)', NEW j \in Ids, j < index'[r]
             PROVE  j \in workers'[r] \cup results'[r]
  BY DEF HeldInv
<1>0. /\ workers \in [Roles -> SUBSET Ids] /\ index \in [Roles -> 0 .. Total]
      /\ results \in [Roles -> SUBSET Ids]
  BY DEF IndInv, TypeOK, WorkTypeOK, CtrlTypeOK
<1>1. ~Stopped(r)
  BY StoppedStays
<1>2. results[r] \subseteq results'[r]
  BY ResultsGrow
<1>3. j < index[r] => j \in workers[r] \cup results[r]
  BY <1>1 DEF HeldInv
<1>4. CASE workers'[r] = workers[r] /\ index'[r] = index[r]
  BY <1>2, <1>3, <1>4
<1>5. ASSUME NEW q \in Roles, NEW c, Register(q, c) PROVE j \in workers'[r] \cup results'[r]
  <2>1. CASE q = r
    <3>1. workers'[r] = workers[r] \cup {index[r]} /\ index'[r] = index[r] + 1 /\ index[r] \in Nat
      BY <1>0, <1>5, <2>1, IdsNat DEF Register
    <3>2. j < index[r] \/ j = index[r]
      BY <3>1, IdsNat
    <3>3. QED
      BY <1>2, <1>3, <3>1, <3>2
  <2>2. CASE q # r
    BY <1>0, <1>4, <1>5, <2>2 DEF Register
  <2>3. QED
    BY <2>1, <2>2
<1>6. ASSUME NEW q \in Roles, OnStreamTerminated(q) PROVE j \in workers'[r] \cup results'[r]
  <2>1. index' = index
    BY <1>6 DEF OnStreamTerminated
  <2>2. CASE q = r
    BY <1>3, <1>6, <2>1, <2>2, CollectKeeps
  <2>3. CASE q # r
    BY <1>0, <1>4, <1>6, <2>1, <2>3 DEF OnStreamTerminated, Collect
  <2>4. QED
    BY <2>2, <2>3
<1>7. ASSUME NEW q \in Roles, NEW i \in Ids, CollectOne(q, i) PROVE j \in workers'[r] \cup results'[r]
  <2>1. q # r /\ index' = index
    BY <1>1, <1>7 DEF CollectOne, Stopped
  <2>2. workers'[r] = workers[r]
    BY <1>0, <1>7, <2>1 DEF CollectOne, Collect
  <2>3. QED
    BY <1>4, <2>1, <2>2
<1>8. CASE UNCHANGED <<workers, index>>
  BY <1>4, <1>8
<1>9. QED
  BY WorkFrame, <1>5, <1>6, <1>7, <1>8, WorkerFrame, TwoRoles DEF workVars, AcceptStream, Crash

\* Only process_internal_message takes a worker's message.
LEMMA TakesReport ==
  ASSUME IndInv, Next, NEW q \in Roles, inbox[q] # <<>>, inbox'[q] = Tail(inbox[q]),
         Head(inbox[q]).kind = "StreamTerminated"
  PROVE  OnStreamTerminated(q)
<1>0. inbox \in [Roles -> Seq(InboxMsgs)]
  BY DEF IndInv, TypeOK, ChanTypeOK
<1>1. inbox'[q] # inbox[q] /\ \A m : inbox'[q] # Append(inbox[q], m)
  <2>1. Len(inbox'[q]) = Len(inbox[q]) - 1 /\ Len(inbox[q]) \in Nat
    BY <1>0
  <2>2. \A m : Len(Append(inbox[q], m)) = Len(inbox[q]) + 1
    BY <1>0
  <2>3. ASSUME inbox'[q] = inbox[q] PROVE FALSE
    <3>1. Len(inbox[q]) = Len(inbox[q]) - 1
      BY <2>1, <2>3
    <3>2. QED
      BY <2>1, <3>1
  <2>4. ASSUME NEW m, inbox'[q] = Append(inbox[q], m) PROVE FALSE
    <3>1. Len(inbox[q]) - 1 = Len(inbox[q]) + 1
      BY <2>1, <2>2, <2>4
    <3>2. QED
      BY <2>1, <3>1
  <2>5. QED
    BY <2>3, <2>4
<1>2. ASSUME NEW r \in Roles, NEW m, TrySend(r, m) PROVE FALSE
  BY <1>0, <1>1, <1>2 DEF TrySend
<1>3. ASSUME NEW r \in Roles, NEW k, NextMsg(r, k) PROVE r = q /\ k = "StreamTerminated"
  BY <1>0, <1>1, <1>3 DEF NextMsg
<1>4. ~UNCHANGED inbox
  BY <1>1
<1>5. ASSUME NEW r \in Roles, Poll(r) PROVE FALSE
  BY <1>2, <1>4, <1>5 DEF Poll
<1>6. ASSUME NEW r \in Roles, NEW i \in Ids, WorkerStep(r, i) PROVE FALSE
  <2>1. UNCHANGED inbox \/ \E o : Return(r, i, o)
    BY <1>6 DEF WorkerStep, AwaitStart, CheckSignal, TimeUp, StreamClosed
  <2>2. QED
    BY <1>2, <1>4, <2>1 DEF Return
<1>7. ~ListenerStep
  BY <1>2, <1>4, TwoRoles
     DEF ListenerStep, AcceptInFlight, WelcomeStream, RejectStranger, HandshakeFailed,
         AcceptFresh, FreshHello, FreshGiveUp, ListenerShutdown, chanVars
<1>8. ~AcceptStream /\ \A r \in Roles : ~OnTerminate(r)
  BY <1>3, TwoRoles DEF AcceptStream, OnTerminate
<1>9. ASSUME NEW r \in Roles, OnStreamTerminated(r) PROVE r = q
  BY <1>3, <1>9 DEF OnStreamTerminated
<1>10. QED
  BY NextCases, <1>4, <1>5, <1>6, <1>7, <1>8, <1>9, ExitFrame, StrangerFrame
     DEF Assign, TopStart, TopCreateStreams, ConnectStream, SendHello, AwaitWelcome,
         StreamsCreated, OnServerMessage, TopRunning, TopStopWorkers, TopNothing, OnShutdown,
         CollectOne, AllCollected, SendResults, ReadResults, CtrlC, Crash, chanVars

\* A worker finds room for its message: its own has not been counted yet.
LEMMA RoomToReport ==
  ASSUME IndInv, RoomInv, NEW r \in Roles, NEW i \in Ids, task[r][i] = "running", Alive(r),
         IsFiniteSet(Strangers), ChanCap > Total + Cardinality(Strangers)
  PROVE  HasRoom(r)
<1>1. index["server"] = Total
  BY DEF IndInv, RunningInv
<1>2. /\ Cardinality(Answered) \in Nat /\ Cardinality(Strangers) \in Nat /\ Total \in Nat
      /\ Cardinality(Answered) <= Total + Cardinality(Strangers)
  BY AnsweredCount
<1>3. Cardinality(Finished(r)) \in Nat /\ Cardinality(Finished(r)) + 1 <= Total
  <2>1. IsFiniteSet(Ids) /\ Cardinality(Ids) = Total
    BY IdsCount
  <2>2. Finished(r) \subseteq Ids /\ i \notin Finished(r)
    BY DEF Finished
  <2>3. IsFiniteSet(Finished(r)) /\ Cardinality(Finished(r)) \in Nat
    BY <2>1, <2>2, FS_Subset, FS_CardinalityType
  <2>4. Finished(r) \cup {i} \in SUBSET Ids
    BY <2>2
  <2>5. Cardinality(Finished(r) \cup {i}) <= Cardinality(Ids)
    BY <2>1, <2>4, FS_Subset
  <2>6. Cardinality(Finished(r) \cup {i}) = Cardinality(Finished(r)) + 1
    BY <2>2, <2>3, FS_AddElement
  <2>7. QED
    BY <2>1, <2>3, <2>5, <2>6
<1>4. Arrivals(r) \in Int /\ Arrivals(r) <= Cardinality(Strangers)
  BY <1>1, <1>2 DEF Arrivals
<1>5. Len(inbox[r]) <= Arrivals(r) + Cardinality(Finished(r)) + (IF shutdown[r] = "seen" THEN 1 ELSE 0)
  BY DEF RoomInv
<1>6. Len(inbox[r]) \in Nat /\ ChanCap \in Nat
  BY ConstantsAssumption DEF IndInv, TypeOK, ChanTypeOK
<1>7. Len(inbox[r]) < ChanCap
  BY <1>2, <1>3, <1>4, <1>5, <1>6
<1>8. QED
  BY <1>7 DEF HasRoom

\* A message in the inbox stays, or its result is kept in its place.
LEMMA ReportStays ==
  ASSUME IndInv, HeldInv, Next, NEW r \in Roles, NEW i \in Ids, Reporting(r, i)
  PROVE  Reporting(r, i)' \/ i \in results'[r]
<1>0. inbox[r] \in Seq(InboxMsgs)
  BY DEF IndInv, TypeOK, ChanTypeOK
<1>1. PICK k \in DOMAIN inbox[r] : inbox[r][k] = StreamTerminated(i)
  BY DEF Reporting
<1>2. CASE inbox'[r] = inbox[r]
  BY <1>1, <1>2 DEF Reporting
<1>3. ASSUME NEW m, inbox'[r] = Append(inbox[r], m) PROVE Reporting(r, i)'
  <2>1. k \in DOMAIN Append(inbox[r], m) /\ Append(inbox[r], m)[k] = inbox[r][k]
    BY <1>0, <1>1
  <2>2. QED
    BY <1>1, <1>3, <2>1 DEF Reporting
<1>4. CASE inbox[r] # <<>> /\ inbox'[r] = Tail(inbox[r]) /\ k # 1
  <2>1. k - 1 \in DOMAIN Tail(inbox[r]) /\ Tail(inbox[r])[k - 1] = inbox[r][k]
    BY <1>0, <1>1, <1>4
  <2>2. QED
    BY <1>1, <1>4, <2>1 DEF Reporting
<1>5. CASE inbox[r] # <<>> /\ inbox'[r] = Tail(inbox[r]) /\ k = 1
  <2>1. Head(inbox[r]) = StreamTerminated(i)
    BY <1>0, <1>1, <1>5, HeadTailType
  <2>2. OnStreamTerminated(r) /\ Head(inbox[r]).id = i
    BY <1>5, <2>1, TakesReport DEF StreamTerminated
  <2>3. task[r][i] = "ok" /\ index[r] = Total
    BY <1>1, TwoRoles DEF IndInv, RunningInv, StreamTerminated
  <2>4. i \in workers[r] \cup results[r]
    BY <2>2, <2>3, IdsNat DEF HeldInv, OnStreamTerminated, NextMsg, Stopped
  <2>5. Collect(r, i)
    BY <2>2 DEF OnStreamTerminated
  <2>6. i \in workers[r] => i \in results'[r]
    BY <2>3, <2>5 DEF Collect, IndInv, TypeOK, CtrlTypeOK
  <2>7. QED
    BY <2>4, <2>6, ResultsGrow
<1>6. QED
  BY <1>2, <1>3, <1>4, <1>5, InboxSteps

\* Every step keeps the reports.
LEMMA ReportStep ==
  ASSUME IndInv, RoomInv, HeldInv, EndsReported, Next,
         IsFiniteSet(Strangers), ChanCap > Total + Cardinality(Strangers)
  PROVE  EndsReported'
<1> SUFFICES ASSUME NEW r \in Roles, NEW i \in Ids, task'[r][i] = "ok", Alive(r)'
             PROVE  Reporting(r, i)' \/ i \in results'[r]
  BY DEF EndsReported
<1>0. Alive(r) /\ inbox \in [Roles -> Seq(InboxMsgs)] /\ task \in [Roles -> [Ids -> TaskStates]]
  BY EndedStays DEF Alive, IndInv, TypeOK, ChanTypeOK, WorkTypeOK
<1>1. CASE task[r][i] = "ok"
  <2>1. Reporting(r, i) \/ i \in results[r]
    BY <1>0, <1>1 DEF EndsReported
  <2>2. QED
    BY <2>1, ReportStays, ResultsGrow
<1>2. CASE task[r][i] # "ok"
  <2>1. task[r][i] = "running" /\ Return(r, i, "ok")
    <3>1. ASSUME NEW q \in Roles, NEW j \in Ids, WorkerStep(q, j)
          PROVE  task[r][i] = "running" /\ Return(r, i, "ok")
      <4>1. \/ task' = [task EXCEPT ![q][j] = "running"]
            \/ Return(q, j, "err")
            \/ task[q][j] = "running" /\ Return(q, j, "ok")
        BY <3>1 DEF WorkerStep, AwaitStart, CheckSignal, TimeUp, StreamClosed, ClosedOutcome
      <4>2. ASSUME NEW o, task' = [task EXCEPT ![q][j] = o] PROVE q = r /\ j = i /\ o = "ok"
        BY <1>0, <1>2, <4>2
      <4>3. task[q][j] = "running" /\ Return(q, j, "ok")
        BY <4>1, <4>2 DEF Return
      <4>4. q = r /\ j = i
        BY <4>2, <4>3 DEF Return
      <4>5. QED
        BY <4>3, <4>4
    <3>2. ASSUME NEW q \in Roles, NEW c, Register(q, c) PROVE FALSE
      BY <1>0, <1>2, <3>2 DEF Register
    <3>3. ASSUME NEW q \in Roles, Crash(q) PROVE FALSE
      BY <1>0, <1>2, <3>3 DEF Crash
    <3>4. task' # task
      BY <1>2
    <3>5. QED
      BY WorkFrame, <3>1, <3>2, <3>3, <3>4, TwoRoles
         DEF workVars, AcceptStream, OnStreamTerminated, CollectOne
  <2>2. HasRoom(r)
    BY <1>0, <2>1, RoomToReport
  <2>3. inbox'[r] = Append(inbox[r], StreamTerminated(i))
    BY <1>0, <2>1, <2>2 DEF Return, TrySend
  <2>4. /\ Len(inbox[r]) + 1 \in DOMAIN Append(inbox[r], StreamTerminated(i))
        /\ Append(inbox[r], StreamTerminated(i))[Len(inbox[r]) + 1] = StreamTerminated(i)
    BY <1>0
  <2>5. QED
    BY <2>3, <2>4 DEF Reporting
<1>3. QED
  BY <1>1, <1>2

-----------------------------------------------------------------------------
(* The theorems about what arrives.                                        *)

\* With room in the channel for a message per connection and one for Ctrl-C, every
\* connection is answered once, what is welcomed is queued or numbered, and what ended
\* well is reported.
THEOREM ArrivalInvariance ==
  ASSUME IsFiniteSet(Strangers), ChanCap > Total + Cardinality(Strangers)
  PROVE  Spec => []ArrivalInv
<1>1. Init => ArrivalInv
  <2> SUFFICES ASSUME Init PROVE ArrivalInv
    OBVIOUS
  <2>1. /\ \A c \in Conns : hello[c] = "idle" /\ reply[c] = "none"
        /\ backlog = <<>> /\ lconn = NoStream /\ lpc = "accept" /\ inbox["server"] = <<>>
    BY TwoRoles DEF Init
  <2>2. OnceInv
    BY <2>1, InitHolds, ArrivalTypes DEF OnceInv, Handling
  <2>3. RoomInv
    <3>1. Answered = {} /\ \A q \in Roles : Finished(q) = {}
      BY <2>1 DEF Answered, Finished, Init
    <3>2. Cardinality(Answered) = 0 /\ \A q \in Roles : Cardinality(Finished(q)) = 0
      BY <3>1, FS_EmptySet
    <3>3. \A q \in Roles : Len(inbox[q]) = 0 /\ index[q] = 0
      BY DEF Init
    <3>4. \A q \in Roles : Arrivals(q) = 0
      BY <3>2, <3>3, TwoRoles DEF Arrivals
    <3>5. QED
      BY <3>2, <3>3, <3>4 DEF RoomInv
  <2>4. KeptInv
    BY <2>1, StrangersApart DEF KeptInv
  <2>5. \A r \in Roles : index[r] = 0 /\ \A i \in Ids : task[r][i] = "none" /\ ~(i < 0)
    BY IdsNat DEF Init
  <2>6. HeldInv /\ EndsReported
    BY <2>5 DEF HeldInv, EndsReported
  <2>7. QED
    BY <2>2, <2>3, <2>4, <2>6 DEF ArrivalInv
<1>2. IndInv /\ OrderInv /\ ExchangeInv /\ ArrivalInv /\ [Next]_vars => ArrivalInv'
  <2> SUFFICES ASSUME IndInv, OrderInv, ExchangeInv, ArrivalInv, [Next]_vars PROVE ArrivalInv'
    OBVIOUS
  <2>1. CASE Next
    BY <2>1, OnceStep, RoomStep, KeptStep, HeldStep, ReportStep DEF ArrivalInv, ExchangeInv
  <2>2. CASE UNCHANGED vars
    <3>1. UNCHANGED <<pc, results, shutdown, inbox, workers, index, task, conn, lpc, lconn,
                   backlog, hello, reply>>
      BY <2>2 DEF vars, ctrlVars, chanVars, workVars, lstVars
    <3>2. OnceInv'
      BY <3>1 DEF ArrivalInv, OnceInv, Handling
    <3>3. RoomInv'
      BY <3>1 DEF ArrivalInv, RoomInv, Arrivals, Finished, Answered
    <3>4. KeptInv'
      BY <3>1 DEF ArrivalInv, KeptInv, Alive, Ended, Queued
    <3>5. HeldInv' /\ EndsReported'
      BY <3>1 DEF ArrivalInv, HeldInv, EndsReported, Reporting, Stopped, Alive, Ended
    <3>6. QED
      BY <3>2, <3>3, <3>4, <3>5 DEF ArrivalInv
  <2>3. QED
    BY <2>1, <2>2
<1>3. QED
  BY <1>1, <1>2, Invariance, OrderInvariance, ExchangeInvariance, PTL DEF Spec

\* Then no stream the client was welcomed on is dropped by the listener's try_send.
THEOREM StreamsKept ==
  ASSUME IsFiniteSet(Strangers), ChanCap > Total + Cardinality(Strangers)
  PROVE  Spec => []NoStreamLost
<1>1. ArrivalInv => NoStreamLost
  BY DEF ArrivalInv, KeptInv, NoStreamLost
<1>2. QED
  BY <1>1, ArrivalInvariance, PTL

\* Then no controller forgets a worker that ended well, however many end together.
THEOREM EndsAreReported ==
  ASSUME IsFiniteSet(Strangers), ChanCap > Total + Cardinality(Strangers)
  PROVE  Spec => []EndsReported
<1>1. ArrivalInv => EndsReported
  BY DEF ArrivalInv
<1>2. QED
  BY <1>1, ArrivalInvariance, PTL
=============================================================================
