--------------------------- MODULE PerfTestOrder ---------------------------
(***************************************************************************)
(* The order of a test, for every value of the constants: its phases only  *)
(* advance, the client follows the server, signals are sent once, and a    *)
(* stream is welcomed in the phase it was asked for in.                    *)
(***************************************************************************)
EXTENDS PerfTestProofs, SequenceTheorems

LEMMA RankFacts ==
  /\ Rank("Start") = 0 /\ Rank("CreateStreams") = 1 /\ Rank("Running") = 2
  /\ Rank("ExchangeResults") = 3 /\ Rank("Terminate") = 4
  /\ \A s \in States : Rank(s) \in Nat /\ Rank(s) <= 4
  /\ \A s \in States : Rank(s) >= 2 => s \in {"Running", "ExchangeResults", "Terminate"}
  BY DEF Rank, States

\* The types the order of phases needs.
LEMMA OrderTypes ==
  ASSUME IndInv
  PROVE  /\ pc \in [Roles -> PCs] /\ old \in [Roles -> States]
         /\ state \in [Roles -> States] /\ target \in States
         /\ state["server"] \in States /\ state["client"] \in States
         /\ ctl \in [Roles -> Seq(CtlMsgs)] /\ ctl["client"] \in Seq(CtlMsgs)
         /\ published \in [Roles -> Seq(Signals)]
  BY TwoRoles DEF IndInv, TypeOK, CtrlTypeOK, ChanTypeOK

-----------------------------------------------------------------------------
(* What a step does to the place of a controller.                          *)

\* A controller's place changes by a step of its own, or by the death of its process.
LEMMA PlaceSteps ==
  ASSUME IndInv, Next, NEW q \in Roles
  PROVE  \/ pc'[q] = pc[q] /\ old'[q] = old[q]
         \/ Stopped(q)'
         \/ old'[q] = old[q] /\ ~Stopped(q) /\ pc[q] # "poll"
         \/ Poll(q)
<1>0. pc \in [Roles -> PCs] /\ old \in [Roles -> States]
  BY OrderTypes
<1>1. ASSUME UNCHANGED old, NEW r \in Roles, NEW l, Goto(r, l),
             pc[r] \notin {"poll", "collect", "xsend", "xread", "done", "aborted"}
      PROVE  \/ pc'[q] = pc[q] /\ old'[q] = old[q]
             \/ old'[q] = old[q] /\ ~Stopped(q) /\ pc[q] # "poll"
  BY <1>0, <1>1 DEF Goto, Stopped
<1>2. ASSUME UNCHANGED old, NEW r \in Roles,
             NEW l \in {"collect", "xsend", "xread", "done", "aborted"}, Goto(r, l)
      PROVE  (pc'[q] = pc[q] /\ old'[q] = old[q]) \/ Stopped(q)'
  BY <1>0, <1>2 DEF Goto, Stopped
<1>3. ASSUME UNCHANGED old, NEW r \in Roles, NEW s, SetState(r, s),
             pc[r] \in {"top", "select"}
      PROVE  \/ pc'[q] = pc[q] /\ old'[q] = old[q]
             \/ old'[q] = old[q] /\ ~Stopped(q) /\ pc[q] # "poll"
  BY <1>1, <1>3 DEF SetState, Abort
<1>4. CASE UNCHANGED <<pc, old>>
  BY <1>4
<1>5. CASE \/ Assign \/ TopCreateStreams \/ ConnectStream \/ SendHello \/ AwaitWelcome
           \/ StreamsCreated \/ OnServerMessage
  BY <1>1, <1>5, TwoRoles
     DEF Assign, TopCreateStreams, ConnectStream, SendHello, AwaitWelcome, StreamsCreated,
         OnServerMessage, Abort, AtTop
<1>6. CASE TopStart \/ AcceptStream
  BY <1>1, <1>3, <1>6, TwoRoles DEF TopStart, AcceptStream, NextMsg, AtTop
<1>7. ASSUME NEW r \in Roles, TopRunning(r) \/ TopStopWorkers(r) \/ TopNothing(r)
      PROVE  \/ pc'[q] = pc[q] /\ old'[q] = old[q]
             \/ old'[q] = old[q] /\ ~Stopped(q) /\ pc[q] # "poll"
  BY <1>1, <1>7 DEF TopRunning, TopStopWorkers, TopNothing, AtTop
<1>8. ASSUME NEW r \in Roles, OnStreamTerminated(r) \/ OnTerminate(r) \/ OnShutdown(r)
      PROVE  \/ pc'[q] = pc[q] /\ old'[q] = old[q]
             \/ old'[q] = old[q] /\ ~Stopped(q) /\ pc[q] # "poll"
  BY <1>1, <1>3, <1>8 DEF OnStreamTerminated, OnTerminate, OnShutdown, NextMsg
<1>9. ASSUME NEW r \in Roles, AllCollected(r) \/ SendResults(r) \/ ReadResults(r)
      PROVE  (pc'[q] = pc[q] /\ old'[q] = old[q]) \/ Stopped(q)'
  BY <1>2, <1>9 DEF AllCollected, AfterCollect, SendResults, ReadResults
<1>10. ASSUME NEW r \in Roles, Poll(r)
       PROVE  (pc'[q] = pc[q] /\ old'[q] = old[q]) \/ Poll(q)
  <2>1. CASE q = r
    BY <1>10, <2>1
  <2>2. CASE q # r
    BY <1>0, <1>10, <2>2 DEF Poll, Goto
  <2>3. QED
    BY <2>1, <2>2
<1>11. ASSUME NEW r \in Roles, Crash(r)
       PROVE  (pc'[q] = pc[q] /\ old'[q] = old[q]) \/ Stopped(q)'
  BY <1>0, <1>11 DEF Crash, Stopped
<1>12. QED
  BY NextCases, <1>4, <1>5, <1>6, <1>7, <1>8, <1>9, <1>10, <1>11, ExitFrame, StrangerFrame,
     WorkerFrame, ListenerFrame DEF CollectOne, CtrlC, ctrlVars


\* A controller that has left its loop stays out of it.
LEMMA StoppedStays ==
  ASSUME IndInv, Next, NEW q \in Roles, Stopped(q)
  PROVE  Stopped(q)'
  BY PlaceSteps DEF Stopped, Poll

\* A controller that has returned takes no step.
LEMMA EndedStays ==
  ASSUME IndInv, Next, NEW q \in Roles, Ended(q)
  PROVE  Ended(q)'
<1>0. pc \in [Roles -> PCs]
  BY OrderTypes
<1>1. ASSUME NEW r \in Roles, NEW l, Goto(r, l), ~Ended(r)
      PROVE  pc'[q] = pc[q]
  BY <1>0, <1>1 DEF Goto
<1>2. ASSUME NEW r \in Roles, NEW s, SetState(r, s), ~Ended(r)
      PROVE  pc'[q] = pc[q]
  BY <1>1, <1>2 DEF SetState, Abort
<1>3. CASE pc' = pc
  BY <1>3 DEF Ended
<1>4. CASE \/ Assign \/ TopCreateStreams \/ ConnectStream \/ SendHello \/ AwaitWelcome
           \/ StreamsCreated \/ OnServerMessage
  <2>1. pc'[q] = pc[q]
    BY <1>1, <1>4, TwoRoles
       DEF Assign, TopCreateStreams, ConnectStream, SendHello, AwaitWelcome, StreamsCreated,
           OnServerMessage, Abort, AtTop, Ended
  <2>2. QED
    BY <2>1 DEF Ended
<1>5. CASE TopStart \/ AcceptStream
  <2>1. pc'[q] = pc[q]
    BY <1>1, <1>2, <1>5, TwoRoles DEF TopStart, AcceptStream, NextMsg, AtTop, Ended
  <2>2. QED
    BY <2>1 DEF Ended
<1>6. ASSUME NEW r \in Roles,
             \/ TopRunning(r) \/ TopStopWorkers(r) \/ TopNothing(r) \/ Poll(r)
             \/ AllCollected(r) \/ SendResults(r) \/ ReadResults(r)
      PROVE  Ended(q)'
  <2>1. pc'[q] = pc[q]
    BY <1>1, <1>6 DEF TopRunning, TopStopWorkers, TopNothing, AtTop, Poll, AllCollected,
                      SendResults, ReadResults, Ended
  <2>2. QED
    BY <2>1 DEF Ended
<1>7. ASSUME NEW r \in Roles, OnStreamTerminated(r) \/ OnTerminate(r) \/ OnShutdown(r)
      PROVE  Ended(q)'
  <2>1. pc'[q] = pc[q]
    BY <1>1, <1>2, <1>7 DEF OnStreamTerminated, OnTerminate, OnShutdown, NextMsg, Ended
  <2>2. QED
    BY <2>1 DEF Ended
<1>8. ASSUME NEW r \in Roles, Crash(r) PROVE Ended(q)'
  BY <1>0, <1>8 DEF Crash, Ended
<1>9. QED
  BY NextCases, <1>3, <1>4, <1>5, <1>6, <1>7, <1>8, ExitFrame, StrangerFrame,
     WorkerFrame, ListenerFrame DEF CollectOne, CtrlC, ctrlVars

\* set_state on the server ends with Assign, or not at all.
LEMMA AssignEnds ==
  ASSUME IndInv, Next, pc["server"] \in {"assign", "aborted"}
  PROVE  Assign \/ pc'["server"] \in {"assign", "aborted"}
<1>0. pc \in [Roles -> PCs]
  BY OrderTypes
<1>1. ASSUME NEW r \in Roles, NEW l, Goto(r, l), pc[r] \notin {"assign", "aborted"}
      PROVE  pc'["server"] = pc["server"]
  BY <1>0, <1>1, TwoRoles DEF Goto
<1>2. ASSUME NEW r \in Roles, NEW s, SetState(r, s), pc[r] \in {"top", "select"}
      PROVE  pc'["server"] = pc["server"]
  BY <1>1, <1>2 DEF SetState, Abort
<1>3. CASE UNCHANGED pc
  BY <1>3
<1>4. CASE \/ TopCreateStreams \/ ConnectStream \/ SendHello \/ AwaitWelcome
           \/ StreamsCreated \/ OnServerMessage
  BY <1>1, <1>4, TwoRoles
     DEF TopCreateStreams, ConnectStream, SendHello, AwaitWelcome, StreamsCreated,
         OnServerMessage, Abort, AtTop
<1>5. CASE TopStart \/ AcceptStream
  BY <1>1, <1>2, <1>5, TwoRoles DEF TopStart, AcceptStream, NextMsg, AtTop
<1>6. ASSUME NEW r \in Roles,
             TopRunning(r) \/ TopStopWorkers(r) \/ TopNothing(r) \/ Poll(r)
      PROVE  pc'["server"] = pc["server"]
  BY <1>1, <1>6 DEF TopRunning, TopStopWorkers, TopNothing, AtTop, Poll
<1>7. ASSUME NEW r \in Roles, OnStreamTerminated(r) \/ OnTerminate(r) \/ OnShutdown(r)
      PROVE  pc'["server"] = pc["server"]
  BY <1>1, <1>2, <1>7 DEF OnStreamTerminated, OnTerminate, OnShutdown, NextMsg
<1>8. ASSUME NEW r \in Roles, AllCollected(r) \/ SendResults(r) \/ ReadResults(r)
      PROVE  pc'["server"] = pc["server"]
  BY <1>1, <1>8 DEF AllCollected, SendResults, ReadResults
<1>9. ASSUME NEW r \in Roles, Crash(r)
      PROVE  pc'["server"] \in {pc["server"], "aborted"}
  BY <1>0, <1>9, TwoRoles DEF Crash
<1>10. QED
  BY NextCases, <1>3, <1>4, <1>5, <1>6, <1>7, <1>8, <1>9, ExitFrame, StrangerFrame,
     WorkerFrame, ListenerFrame DEF CollectOne, CtrlC, ctrlVars

-----------------------------------------------------------------------------
(* What the server announces and what the client makes of it.              *)

\* What the two phases and the messages between them are made of is left alone.
LEMMA AnnouncedSame ==
  ASSUME AnnouncedInv, UNCHANGED <<state, target>>, ctl'["client"] = ctl["client"],
         pc["server"] \in {"assign", "aborted"} => pc'["server"] \in {"assign", "aborted"}
  PROVE  AnnouncedInv'
  BY DEF AnnouncedInv, Announces

\* The server announces a phase that is not behind its own.
LEMMA Announced ==
  ASSUME IndInv, AnnouncedInv, NEW s \in States, SetState("server", s),
         Rank(state["server"]) <= Rank(s), pc["server"] \notin {"assign", "aborted"}
  PROVE  AnnouncedInv'
<1>0. /\ pc \in [Roles -> PCs] /\ ctl["client"] \in Seq(CtlMsgs)
      /\ state["server"] \in States /\ state["client"] \in States
  BY OrderTypes
<1>1. CASE Abort("server")
  BY <1>0, <1>1, AnnouncedSame, TwoRoles DEF Abort, Goto
<1>2. CASE /\ WriteCtl("server", SetStateMsg(s)) /\ target' = s
           /\ Goto("server", "assign") /\ UNCHANGED state
  <2> DEFINE q == ctl["client"]
  <2>1. ctl'["client"] = Append(q, SetStateMsg(s)) /\ pc'["server"] = "assign"
    BY <1>0, <1>2, OrderTypes, TwoRoles DEF WriteCtl, Peer, Goto
  <2>2. target = state["server"]
    BY DEF AnnouncedInv
  <2>3. \A k \in DOMAIN ctl'["client"] :
          \/ k \in DOMAIN q /\ k < Len(q) + 1 /\ ctl'["client"][k] = q[k]
          \/ k = Len(q) + 1 /\ ctl'["client"][k] = SetStateMsg(s)
    BY <1>0, <2>1, AppendIndex
  <2>4. \A k \in DOMAIN q : q[k] \in CtlMsgs /\ k \in Nat /\ k < Len(q) + 1
    BY <1>0
  <2>5. \A k \in DOMAIN q : Announces(k) => Rank(q[k].state) <= Rank(s)
    <3>1. \A k \in DOMAIN q : Announces(k) => Rank(q[k].state) \in Nat
      BY <2>4, MessageTypes, RankFacts DEF Announces
    <3>2. QED
      BY <1>0, <2>2, <3>1, RankFacts DEF AnnouncedInv
  <2>6. /\ SetStateMsg(s).state = s
        /\ \A k \in DOMAIN ctl'["client"] : Announces(k)' => k = Len(q) + 1 \/ Announces(k)
    BY <2>3 DEF SetStateMsg, Announces
  <2>7. state["client"] # "Terminate" => Rank(state["client"]) <= Rank(s)
    BY <1>0, <2>2, RankFacts DEF AnnouncedInv
  <2>8. \A k \in DOMAIN ctl'["client"] : Announces(k)' =>
          /\ Rank(ctl'["client"][k].state) <= Rank(s)
          /\ state["client"] # "Terminate" =>
               Rank(state["client"]) <= Rank(ctl'["client"][k].state)
    BY <2>3, <2>5, <2>6, <2>7, RankFacts DEF AnnouncedInv
  <2>9. \A k, l \in DOMAIN ctl'["client"] : Announces(k)' /\ Announces(l)' /\ k < l =>
          Rank(ctl'["client"][k].state) <= Rank(ctl'["client"][l].state)
    <3> SUFFICES ASSUME NEW k \in DOMAIN ctl'["client"], NEW l \in DOMAIN ctl'["client"],
                        Announces(k)', Announces(l)', k < l
                 PROVE  Rank(ctl'["client"][k].state) <= Rank(ctl'["client"][l].state)
      OBVIOUS
    <3>1. CASE l = Len(q) + 1
      BY <2>3, <2>6, <2>8, <3>1, RankFacts
    <3>2. CASE l # Len(q) + 1
      <4>1. /\ l \in DOMAIN q /\ ctl'["client"][l] = q[l] /\ Announces(l)
        BY <2>3, <2>6, <3>2
      <4>2. k # Len(q) + 1
        BY <1>0, <2>4, <4>1
      <4>3. /\ k \in DOMAIN q /\ ctl'["client"][k] = q[k] /\ Announces(k)
        BY <2>3, <2>6, <4>2
      <4>4. QED
        BY <4>1, <4>3 DEF AnnouncedInv
    <3>3. QED
      BY <3>1, <3>2
  <2>10. QED
    BY <1>2, <2>1, <2>7, <2>8, <2>9 DEF AnnouncedInv
<1>3. QED
  BY <1>1, <1>2, TwoRoles DEF SetState

\* The server sends its results: nothing is announced.
LEMMA ResultsAnnounceNothing ==
  ASSUME IndInv, AnnouncedInv, UNCHANGED <<state, target>>, NEW ids,
         ctl'["client"] = Append(ctl["client"], ResultsMsg(ids)),
         pc["server"] \in {"assign", "aborted"} => pc'["server"] \in {"assign", "aborted"}
  PROVE  AnnouncedInv'
<1> DEFINE q == ctl["client"]
<1>0. q \in Seq(CtlMsgs)
  BY OrderTypes
<1>1. \A k \in DOMAIN ctl'["client"] :
        \/ k \in DOMAIN q /\ ctl'["client"][k] = q[k]
        \/ ctl'["client"][k] = ResultsMsg(ids)
  BY <1>0, AppendIndex
<1>2. \A k \in DOMAIN ctl'["client"] :
        Announces(k)' => k \in DOMAIN q /\ Announces(k) /\ ctl'["client"][k] = q[k]
  BY <1>1 DEF Announces, ResultsMsg
<1>3. QED
  BY <1>2 DEF AnnouncedInv

\* The client takes the next message, and follows if it is a SetState.
LEMMA ClientReads ==
  ASSUME IndInv, AnnouncedInv, UNCHANGED target, ctl["client"] # <<>>,
         ctl'["client"] = Tail(ctl["client"]),
         state'["server"] = state["server"],
         state'["client"] = IF Announces(1) THEN ctl["client"][1].state ELSE state["client"],
         state["client"] # "Terminate",
         pc'["server"] = pc["server"]
  PROVE  AnnouncedInv' /\ Rank(state["client"]) <= Rank(state'["client"])
<1> DEFINE q == ctl["client"]
<1>0. q \in Seq(CtlMsgs) /\ q[1] \in CtlMsgs /\ 1 \in DOMAIN q /\ state["client"] \in States
  BY OrderTypes, HeadTailType
<1>1. \A k \in DOMAIN ctl'["client"] :
        k \in Nat /\ k + 1 \in DOMAIN q /\ 1 < k + 1 /\ ctl'["client"][k] = q[k + 1]
  BY <1>0, TailIndex
<1>2. \A k \in DOMAIN ctl'["client"] : Announces(k)' => Announces(k + 1)
  BY <1>1 DEF Announces
<1>3. /\ Rank(state'["client"]) <= Rank(target)
      /\ Rank(state["client"]) <= Rank(state'["client"])
  <2>1. CASE Announces(1)
    BY <1>0, <2>1 DEF AnnouncedInv
  <2>2. CASE ~Announces(1)
    BY <1>0, <2>2, RankFacts DEF AnnouncedInv
  <2>3. QED
    BY <2>1, <2>2
<1>4. ASSUME NEW k \in DOMAIN ctl'["client"], Announces(k)'
      PROVE  /\ Rank(ctl'["client"][k].state) <= Rank(target)
             /\ Rank(state'["client"]) <= Rank(ctl'["client"][k].state)
  <2>1. k + 1 \in DOMAIN q /\ Announces(k + 1) /\ ctl'["client"][k] = q[k + 1] /\ 1 < k + 1
    BY <1>1, <1>2, <1>4
  <2>2. CASE Announces(1)
    BY <1>0, <2>1, <2>2 DEF AnnouncedInv
  <2>3. CASE ~Announces(1)
    BY <2>1, <2>3 DEF AnnouncedInv
  <2>4. QED
    BY <2>2, <2>3
<1>5. ASSUME NEW k \in DOMAIN ctl'["client"], NEW l \in DOMAIN ctl'["client"],
             Announces(k)', Announces(l)', k < l
      PROVE  Rank(ctl'["client"][k].state) <= Rank(ctl'["client"][l].state)
  <2>1. /\ k + 1 \in DOMAIN q /\ Announces(k + 1) /\ ctl'["client"][k] = q[k + 1]
        /\ l + 1 \in DOMAIN q /\ Announces(l + 1) /\ ctl'["client"][l] = q[l + 1]
    BY <1>1, <1>2, <1>5
  <2>2. k + 1 < l + 1
    BY <1>1, <1>5
  <2>3. QED
    BY <2>1, <2>2 DEF AnnouncedInv
<1>6. QED
  BY <1>3, <1>4, <1>5 DEF AnnouncedInv

\* The client ends the test on its own.
LEMMA ClientTerminates ==
  ASSUME IndInv, OrderInv, NEW s, SetState("client", s), s = "Terminate"
  PROVE  UNCHANGED <<target, ctl>> /\ pc'["server"] = pc["server"]
         /\ state'["server"] = state["server"] /\ state'["client"] = "Terminate"
  BY OrderTypes, TwoRoles DEF SetState, Goto

\* ClientReads, for the Terminate the client puts in itself.
LEMMA ClientTerminated ==
  ASSUME AnnouncedInv, UNCHANGED target, ctl'["client"] = ctl["client"],
         pc'["server"] = pc["server"],
         state'["server"] = state["server"], state'["client"] = "Terminate"
  PROVE  AnnouncedInv'
  BY DEF AnnouncedInv, Announces

\* The server stores what it announced.
LEMMA Stored ==
  ASSUME IndInv, AnnouncedInv, Assign
  PROVE  AnnouncedInv' /\ Rank(state["server"]) <= Rank(state'["server"])
<1>1. /\ UNCHANGED <<target, ctl>> /\ state'["server"] = target
      /\ state'["client"] = state["client"] /\ target \in States
  BY OrderTypes, TwoRoles DEF Assign, chanVars
<1>2. QED
  BY <1>1, RankFacts DEF AnnouncedInv, Announces

\* A message is taken by a client that no longer follows.
LEMMA ClientDrops ==
  ASSUME IndInv, AnnouncedInv, UNCHANGED <<state, target>>, ctl["client"] # <<>>,
         ctl'["client"] = Tail(ctl["client"]),
         pc["server"] \in {"assign", "aborted"} => pc'["server"] \in {"assign", "aborted"}
  PROVE  AnnouncedInv'
<1> DEFINE q == ctl["client"]
<1>1. \A k \in DOMAIN ctl'["client"] :
        k \in Nat /\ k + 1 \in DOMAIN q /\ ctl'["client"][k] = q[k + 1]
  BY OrderTypes, TailIndex
<1>2. \A k \in DOMAIN ctl'["client"] : Announces(k)' => Announces(k + 1)
  BY <1>1 DEF Announces
<1>3. ASSUME NEW k \in DOMAIN ctl'["client"], NEW l \in DOMAIN ctl'["client"],
             Announces(k)', Announces(l)', k < l
      PROVE  Rank(ctl'["client"][k].state) <= Rank(ctl'["client"][l].state)
  <2>1. k + 1 < l + 1
    BY <1>1, <1>3
  <2>2. QED
    BY <1>1, <1>2, <1>3, <2>1 DEF AnnouncedInv
<1>4. QED
  BY <1>1, <1>2, <1>3 DEF AnnouncedInv

PhasesKept == \A r \in Roles : Rank(state[r]) <= Rank(state'[r])

\* Every step keeps the announcements in order and takes no phase back.
LEMMA AnnouncedStep ==
  ASSUME IndInv, OrderInv, Next
  PROVE  AnnouncedInv' /\ PhasesKept
<1>0. /\ state["server"] \in States /\ state["client"] \in States
      /\ \A r \in Roles : Rank(state[r]) <= Rank(state[r])
  BY OrderTypes, RankFacts
<1>a. AnnouncedInv /\ ClientPhaseInv /\ PhaseInv
  BY DEF OrderInv, IndInv
<1>b. Assign \/ (pc["server"] \in {"assign", "aborted"} => pc'["server"] \in {"assign", "aborted"})
  BY AssignEnds
<1>1. CASE Assign
  <2>1. state'["client"] = state["client"]
    BY <1>1, OrderTypes, TwoRoles DEF Assign
  <2>2. QED
    BY <1>0, <1>1, <1>a, <2>1, Stored, TwoRoles DEF PhasesKept
<1>2. ASSUME ~Assign, UNCHANGED <<state, target>>, ctl'["client"] = ctl["client"]
      PROVE  AnnouncedInv' /\ PhasesKept
  BY <1>0, <1>2, <1>a, <1>b, AnnouncedSame DEF PhasesKept
<1>3. ASSUME NEW s \in States, SetState("server", s), Rank(state["server"]) <= Rank(s),
             pc["server"] \in {"top", "select"}
      PROVE  AnnouncedInv' /\ PhasesKept
  <2>1. UNCHANGED state
    BY <1>3, TwoRoles DEF SetState, Abort
  <2>2. QED
    BY <1>0, <1>3, <1>a, <2>1, Announced DEF PhasesKept
<1>4. ASSUME ~Assign PROVE AnnouncedInv' /\ PhasesKept
  <2>1. CASE TopStart
    BY <1>0, <1>3, <2>1, RankFacts, Phases DEF TopStart, AtTop
  <2>p. pc["server"] = "select" => Rank(state["server"]) <= 2
    BY <1>a, RankFacts DEF PhaseInv
  <2>2. CASE AcceptStream
    <3>1. CASE AllAccepted
      BY <1>3, <2>2, <2>p, <3>1, RankFacts, Phases DEF AcceptStream, NextMsg
    <3>2. CASE ~AllAccepted
      BY <1>2, <1>4, <2>2, <3>2 DEF AcceptStream
    <3>3. QED
      BY <3>1, <3>2
  <2>3. ASSUME NEW r \in Roles, OnStreamTerminated(r) PROVE AnnouncedInv' /\ PhasesKept
    <3>1. CASE LastWorkerDone(r, Head(inbox[r]).id)
      <4>1. r = "server" /\ pc[r] = "select" /\ SetState(r, "ExchangeResults")
        BY <2>3, <3>1 DEF OnStreamTerminated, NextMsg, LastWorkerDone
      <4>2. Rank(state["server"]) <= Rank("ExchangeResults")
        BY <1>0, <2>p, <4>1, RankFacts
      <4>3. QED
        BY <1>3, <4>1, <4>2, Phases
    <3>2. CASE ~LastWorkerDone(r, Head(inbox[r]).id)
      BY <1>2, <1>4, <2>3, <3>2 DEF OnStreamTerminated
    <3>3. QED
      BY <3>1, <3>2
  <2>4. ASSUME NEW r \in Roles, OnTerminate(r) \/ OnShutdown(r)
        PROVE  AnnouncedInv' /\ PhasesKept
    <3>1. pc[r] = "select" /\ SetState(r, "Terminate")
      BY <2>4 DEF OnTerminate, OnShutdown, NextMsg
    <3>2. CASE r = "server"
      BY <1>0, <1>3, <3>1, <3>2, RankFacts, Phases
    <3>3. CASE r = "client"
      <4>1. UNCHANGED <<target, ctl>> /\ pc'["server"] = pc["server"]
            /\ state'["server"] = state["server"] /\ state'["client"] = "Terminate"
        BY <3>1, <3>3, ClientTerminates
      <4>2. QED
        BY <1>0, <1>a, <4>1, ClientTerminated, RankFacts, TwoRoles DEF PhasesKept
    <3>4. QED
      BY <3>2, <3>3, TwoRoles
  <2>5. CASE OnServerMessage
    <3>1. CASE Abort("client")
      BY <1>2, <1>4, <3>1 DEF Abort
    <3>2. CASE ~Abort("client")
      <4> DEFINE q == ctl["client"]
      <4>1. /\ UNCHANGED target /\ q # <<>> /\ ctl'["client"] = Tail(q)
            /\ state'["server"] = state["server"] /\ pc'["server"] = pc["server"]
            /\ state'["client"] = IF Head(q).kind = "SetState" THEN Head(q).state
                                                               ELSE state["client"]
        BY <2>5, <3>2, OrderTypes, TwoRoles DEF OnServerMessage, Goto
      <4>2. Head(q) = q[1]
        BY <4>1, OrderTypes, HeadTailType
      <4>3. state["client"] # "Terminate"
        BY <1>a, <2>5 DEF OnServerMessage, ClientPhaseInv
      <4>4. state'["client"] = IF Announces(1) THEN q[1].state ELSE state["client"]
        BY <4>1, <4>2 DEF Announces
      <4>5. AnnouncedInv' /\ Rank(state["client"]) <= Rank(state'["client"])
        BY <1>a, <4>1, <4>3, <4>4, ClientReads
      <4>6. QED
        BY <1>0, <4>1, <4>5, TwoRoles DEF PhasesKept
    <3>3. QED
      BY <3>1, <3>2
  <2>6. ASSUME NEW r \in Roles, SendResults(r) PROVE AnnouncedInv' /\ PhasesKept
    <3>1. \/ ctl'["client"] = ctl["client"]
          \/ ctl'["client"] = Append(ctl["client"], ResultsMsg(results[r]))
      BY <2>6, OrderTypes, TwoRoles DEF SendResults, WriteCtl, Peer
    <3>2. UNCHANGED <<state, target>>
      BY <2>6 DEF SendResults
    <3>3. CASE ctl'["client"] = ctl["client"]
      BY <1>2, <1>4, <3>2, <3>3
    <3>4. CASE ctl'["client"] = Append(ctl["client"], ResultsMsg(results[r]))
      BY <1>0, <1>4, <1>a, <1>b, <3>2, <3>4, ResultsAnnounceNothing DEF PhasesKept
    <3>5. QED
      BY <3>1, <3>3, <3>4
  <2>7. ASSUME NEW r \in Roles, ReadResults(r) PROVE AnnouncedInv' /\ PhasesKept
    <3>1. \/ ctl'["client"] = ctl["client"]
          \/ ctl["client"] # <<>> /\ ctl'["client"] = Tail(ctl["client"])
      BY <2>7, OrderTypes, TwoRoles DEF ReadResults
    <3>2. UNCHANGED <<state, target>>
      BY <2>7 DEF ReadResults
    <3>3. CASE ctl'["client"] = ctl["client"]
      BY <1>2, <1>4, <3>2, <3>3
    <3>4. CASE ctl["client"] # <<>> /\ ctl'["client"] = Tail(ctl["client"])
      BY <1>0, <1>4, <1>a, <1>b, <3>2, <3>4, ClientDrops DEF PhasesKept
    <3>5. QED
      BY <3>1, <3>3, <3>4
  <2>8. CASE UNCHANGED <<state, target, ctl>>
    BY <1>2, <1>4, <2>8
  <2>9. QED
    BY NextCases, <1>4, <2>1, <2>2, <2>3, <2>4, <2>5, <2>6, <2>7, <2>8, ExitFrame,
       StrangerFrame, WorkerFrame, ListenerFrame
       DEF TopCreateStreams, ConnectStream, SendHello, AwaitWelcome, StreamsCreated,
           TopRunning, TopStopWorkers, TopNothing, Poll, CollectOne, AllCollected, CtrlC,
           Crash, ctrlVars, chanVars
<1>5. QED
  BY <1>1, <1>4

-----------------------------------------------------------------------------
(* The client's place in each phase.                                       *)

\* Every step keeps the client's controller where its phase allows.
LEMMA ClientPhaseStep ==
  ASSUME IndInv, OrderInv, Next
  PROVE  ClientPhaseInv'
<1>0. ClientPhaseInv /\ pc \in [Roles -> PCs] /\ state \in [Roles -> States]
  BY OrderTypes DEF OrderInv
<1>1. ASSUME pc'["client"] = pc["client"], state'["client"] = state["client"]
      PROVE  ClientPhaseInv'
  BY <1>0, <1>1 DEF ClientPhaseInv
<1>2. ASSUME pc'["client"] \in {"top", "collect", "xsend", "xread", "done", "aborted"}
      PROVE  ClientPhaseInv'
  BY <1>2 DEF ClientPhaseInv
<1>3. ASSUME NEW r \in Roles, NEW s, SetState(r, s) PROVE ClientPhaseInv'
  <2>1. CASE r = "client"
    BY <1>0, <1>2, <1>3, <2>1, TwoRoles DEF SetState, Abort, Goto
  <2>2. CASE r = "server"
    BY <1>0, <1>1, <1>3, <2>2, TwoRoles DEF SetState, Abort, Goto
  <2>3. QED
    BY <2>1, <2>2, TwoRoles
<1>4. ASSUME NEW r \in Roles, UNCHANGED state,
             NEW l \in {"top", "collect", "xsend", "xread", "done", "aborted"}, Goto(r, l)
      PROVE  ClientPhaseInv'
  BY <1>0, <1>1, <1>2, <1>4 DEF Goto
<1>5. ASSUME NEW r \in Roles, UNCHANGED state, NEW l \in {"poll", "select"}, Goto(r, l),
             r = "client" => state[r] \in {"Start", "CreateStreams", "Running"}
      PROVE  ClientPhaseInv'
  BY <1>0, <1>1, <1>5, TwoRoles DEF Goto, ClientPhaseInv
<1>6. CASE Assign
  BY <1>0, <1>1, <1>6, TwoRoles DEF Assign, Goto
<1>7. CASE TopStart \/ AcceptStream
  BY <1>3, <1>4, <1>7, TwoRoles DEF TopStart, AcceptStream
<1>8. CASE TopCreateStreams \/ ConnectStream \/ SendHello \/ AwaitWelcome \/ StreamsCreated
  BY <1>0, <1>8, TwoRoles
     DEF TopCreateStreams, ConnectStream, SendHello, AwaitWelcome, StreamsCreated, Goto,
         ClientPhaseInv
<1>9. CASE OnServerMessage
  BY <1>0, <1>2, <1>9, TwoRoles DEF OnServerMessage, Abort, Goto
<1>10. ASSUME NEW r \in Roles, TopRunning(r) PROVE ClientPhaseInv'
  BY <1>4, <1>5, <1>10 DEF TopRunning, StartsLoad
<1>11. ASSUME NEW r \in Roles, TopNothing(r) PROVE ClientPhaseInv'
  BY <1>5, <1>11, TwoRoles DEF TopNothing
<1>12. ASSUME NEW r \in Roles, Poll(r) PROVE ClientPhaseInv'
  BY <1>0, <1>5, <1>12 DEF Poll, ClientPhaseInv
<1>13. ASSUME NEW r \in Roles, OnStreamTerminated(r) \/ OnTerminate(r) \/ OnShutdown(r)
       PROVE  ClientPhaseInv'
  BY <1>3, <1>4, <1>13 DEF OnStreamTerminated, OnTerminate, OnShutdown
<1>14. ASSUME NEW r \in Roles,
              TopStopWorkers(r) \/ AllCollected(r) \/ SendResults(r) \/ ReadResults(r)
       PROVE  ClientPhaseInv'
  BY <1>4, <1>14 DEF TopStopWorkers, AllCollected, AfterCollect, SendResults, ReadResults
<1>15. ASSUME NEW r \in Roles, Crash(r) PROVE ClientPhaseInv'
  BY <1>0, <1>1, <1>2, <1>15, TwoRoles DEF Crash
<1>16. CASE UNCHANGED <<pc, state>>
  BY <1>1, <1>16
<1>17. QED
  BY NextCases, <1>3, <1>6, <1>7, <1>8, <1>9, <1>10, <1>11, <1>12, <1>13, <1>14, <1>15,
     <1>16, ExitFrame, StrangerFrame, WorkerFrame, ListenerFrame
     DEF CollectOne, CtrlC, ctrlVars

-----------------------------------------------------------------------------
(* The signals.                                                            *)

\* Signals are sent at the two places of the loop's head.
LEMMA SignalSteps ==
  ASSUME IndInv, Next, NEW q \in Roles
  PROVE  \/ published'[q] = published[q]
         \/ /\ published'[q] = Append(published[q], "StartLoad")
            /\ pc[q] = "top" /\ StartsLoad(q)
            /\ pc'[q] = "poll" /\ state' = state
         \/ /\ published'[q] = Append(published[q], "Terminate")
            /\ pc[q] = "top" /\ Stopped(q)'
<1>0. published \in [Roles -> Seq(Signals)] /\ pc \in [Roles -> PCs]
  BY OrderTypes
<1>1. CASE TopRunning(q)
  BY <1>0, <1>1 DEF TopRunning, AtTop, Goto
<1>2. CASE TopStopWorkers(q)
  BY <1>0, <1>2 DEF TopStopWorkers, AtTop, Goto, Stopped
<1>3. ASSUME NEW r \in Roles, r # q, TopRunning(r) \/ TopStopWorkers(r)
      PROVE  published'[q] = published[q]
  BY <1>0, <1>3 DEF TopRunning, TopStopWorkers
<1>4. CASE UNCHANGED published
  BY <1>4
<1>5. QED
  BY NextCases, <1>1, <1>2, <1>3, <1>4, ExitFrame, StrangerFrame, WorkerFrame, ListenerFrame
     DEF Assign, TopStart, TopCreateStreams, ConnectStream, SendHello, AwaitWelcome,
         AcceptStream, StreamsCreated, OnServerMessage, TopNothing, Poll,
         OnStreamTerminated, OnTerminate, OnShutdown, CollectOne, AllCollected,
         SendResults, ReadResults, CtrlC, Crash, chanVars

LEMMA SignalSequences ==
  /\ Append(<<>>, "StartLoad") = <<"StartLoad">> /\ Append(<<>>, "Terminate") = <<"Terminate">>
  /\ Append(<<"StartLoad">>, "Terminate") = <<"StartLoad", "Terminate">>
  /\ <<"StartLoad">> # <<>>
<1>1. Append(<<>>, "StartLoad") = <<"StartLoad">> /\ Append(<<>>, "Terminate") = <<"Terminate">>
  OBVIOUS
<1>2. Append(<<"StartLoad">>, "Terminate") = <<"StartLoad", "Terminate">>
  <2> DEFINE s == Append(<<"StartLoad">>, "Terminate")
             t == <<"StartLoad", "Terminate">>
  <2> DEFINE S == {"StartLoad", "Terminate"}
  <2>0. <<"StartLoad">> \in Seq(S) /\ t \in Seq(S)
    OBVIOUS
  <2>1. s \in Seq(S) /\ t \in Seq(S)
    BY <2>0
  <2>2. Len(s) = 2 /\ Len(t) = 2
    OBVIOUS
  <2>3. s[1] = t[1] /\ s[2] = t[2]
    OBVIOUS
  <2> HIDE DEF s, t, S
  <2>4. \A i \in 1 .. Len(s) : s[i] = t[i]
    BY <2>2, <2>3
  <2>5. s = t
    BY <2>1, <2>2, <2>4, SeqEqual
  <2>6. QED
    BY <2>5 DEF s, t
<1>3. Len(<<"StartLoad">>) # Len(<<>>)
  OBVIOUS
<1>4. <<"StartLoad">> # <<>>
  BY <1>3, Zenon
<1>5. QED
  BY <1>1, <1>2, <1>4

\* Every step keeps the signals in order.
LEMMA SignalsStep ==
  ASSUME IndInv, OrderInv, Next
  PROVE  SignalsInv' /\ SignalsInOrder'
<1> SUFFICES ASSUME NEW r \in Roles
             PROVE  /\ published'[r] \in {<<>>, <<"StartLoad">>, <<"Terminate">>,
                                          <<"StartLoad", "Terminate">>}
                    /\ ~Stopped(r)' =>
                         /\ published'[r] \in {<<>>, <<"StartLoad">>}
                         /\ published'[r] # <<>> =>
                              Rank(state'[r]) >= 2 /\ (pc'[r] = "poll" \/ old'[r] = "Running")
  BY DEF SignalsInv, SignalsInOrder
<1>1. /\ published[r] \in {<<>>, <<"StartLoad">>, <<"Terminate">>, <<"StartLoad", "Terminate">>}
      /\ ~Stopped(r) =>
           /\ published[r] \in {<<>>, <<"StartLoad">>}
           /\ published[r] # <<>> =>
                Rank(state[r]) >= 2 /\ (pc[r] = "poll" \/ old[r] = "Running")
  BY DEF OrderInv, SignalsInv, SignalsInOrder
<1>2. Stopped(r) => Stopped(r)'
  BY StoppedStays
<1>3. CASE /\ published'[r] = Append(published[r], "Terminate") /\ pc[r] = "top" /\ Stopped(r)'
  <2>1. ~Stopped(r)
    BY <1>3 DEF Stopped
  <2>2. QED
    BY <1>1, <1>3, <2>1, SignalSequences
<1>4. CASE /\ published'[r] = Append(published[r], "StartLoad") /\ pc[r] = "top" /\ StartsLoad(r)
           /\ pc'[r] = "poll" /\ state' = state
  <2>1. ~Stopped(r)
    BY <1>4 DEF Stopped
  <2>2. published[r] = <<>> /\ Rank(state[r]) = 2
    BY <1>1, <1>4, <2>1, RankFacts DEF StartsLoad
  <2>3. QED
    BY <1>4, <2>2, SignalSequences
<1>5. CASE published'[r] = published[r]
  <2> SUFFICES ASSUME ~Stopped(r)', published[r] # <<>>
               PROVE  Rank(state'[r]) >= 2 /\ (pc'[r] = "poll" \/ old'[r] = "Running")
    BY <1>1, <1>2, <1>5
  <2>1. /\ state[r] \in States /\ Rank(state[r]) >= 2
        /\ pc[r] = "poll" \/ old[r] = "Running"
    BY <1>1, <1>2, OrderTypes
  <2>2. Rank(state'[r]) >= 2
    <3>1. Rank(state[r]) <= Rank(state'[r])
      BY AnnouncedStep DEF PhasesKept
    <3>2. state'[r] \in States
      BY TypeStep DEF TypeOK, CtrlTypeOK
    <3>3. QED
      BY <2>1, <3>1, <3>2, RankFacts
  <2>3. CASE Poll(r)
    <3>1. old'[r] = state[r] /\ pc[r] = "poll"
      BY <2>3, OrderTypes DEF Poll
    <3>2. state[r] \in {"Start", "CreateStreams", "Running"}
      BY <3>1, TwoRoles DEF OrderInv, IndInv, PhaseInv, ClientPhaseInv
    <3>3. QED
      BY <2>1, <2>2, <3>1, <3>2, RankFacts
  <2>4. CASE ~Poll(r)
    BY <2>1, <2>2, <2>4, PlaceSteps
  <2>5. QED
    BY <2>3, <2>4
<1>6. QED
  BY <1>3, <1>4, <1>5, SignalSteps

-----------------------------------------------------------------------------
(* The listener's lock.                                                    *)

\* The server's phase changes only while the lock is free, and its end is for good.
LEMMA LockStep ==
  ASSUME IndInv, OrderInv, Next
  PROVE  LockInv'
<1>0. LockInv
  BY DEF OrderInv
<1>1. Ended("server") => Ended("server")'
  BY EndedStays, TwoRoles
<1>2. CASE Assign
  BY <1>0, <1>1, <1>2 DEF Assign, LockFree, LockInv, lstVars, Alive
<1>3. ASSUME state'["server"] = state["server"], lpc' \in {lpc, "accept", "stopped"}
      PROVE  LockInv'
  BY <1>0, <1>1, <1>3 DEF LockInv, Alive
<1>4. CASE ListenerStep
  <2>1. UNCHANGED <<pc, state>>
    BY <1>4, ListenerFrame DEF ctrlVars
  <2>2. CASE AcceptInFlight
    BY <1>0, <2>1, <2>2 DEF AcceptInFlight, LockInv, Alive, Ended
  <2>3. CASE AcceptFresh
    BY <2>1, <2>3 DEF AcceptFresh, LockInv, Ended
  <2>4. CASE FreshHello
    BY <1>0, <2>1, <2>4 DEF FreshHello, LockInv, Ended, BackToAccept
  <2>5. CASE WelcomeStream \/ RejectStranger \/ HandshakeFailed \/ FreshGiveUp \/ ListenerShutdown
    BY <1>3, <2>1, <2>5
       DEF WelcomeStream, RejectStranger, HandshakeFailed, FreshGiveUp, ListenerShutdown,
           BackToAccept, CloseListener
  <2>6. QED
    BY <1>4, <2>2, <2>3, <2>4, <2>5 DEF ListenerStep
<1>5. ASSUME NEW r \in Roles, Crash(r) PROVE lpc' \in {lpc, "stopped"}
  BY <1>5 DEF Crash, CloseListener
<1>6. CASE UNCHANGED lpc
  BY <1>2, <1>3, <1>6, ServerState
<1>7. QED
  BY NextCases, <1>2, <1>3, <1>4, <1>5, <1>6, ServerState, ExitFrame, StrangerFrame, WorkerFrame
     DEF TopStart, TopCreateStreams, ConnectStream, SendHello, AwaitWelcome,
         AcceptStream, StreamsCreated, OnServerMessage, TopRunning, TopStopWorkers, TopNothing,
         Poll, OnStreamTerminated, OnTerminate, OnShutdown, CollectOne, AllCollected,
         SendResults, ReadResults, CtrlC, lstVars

-----------------------------------------------------------------------------
(* The theorems.                                                           *)

\* The invariant holds at the start.
LEMMA OrderInit == Init => OrderInv
<1> SUFFICES ASSUME Init PROVE OrderInv
  OBVIOUS
<1>1. ClientPhaseInv /\ LockInv
  BY TwoRoles DEF Init, ClientPhaseInv, LockInv
<1>2. AnnouncedInv
  <2>1. /\ state["server"] = "Start" /\ state["client"] = "Start" /\ target = "Start"
        /\ DOMAIN ctl["client"] = {}
    BY TwoRoles DEF Init
  <2>2. QED
    BY <2>1, RankFacts DEF AnnouncedInv
<1>3. SignalsInv /\ SignalsInOrder
  BY DEF Init, SignalsInv, SignalsInOrder
<1>4. QED
  BY <1>1, <1>2, <1>3 DEF OrderInv

\* Phases, announcements, signals and the listener's lock keep in step, for every
\* number of streams and all faults (run_controller, set_state, handle_create_stream).
THEOREM OrderInvariance == Spec => []OrderInv
<1>1. IndInv /\ OrderInv /\ [Next]_vars => OrderInv'
  <2> SUFFICES ASSUME IndInv, OrderInv, [Next]_vars PROVE OrderInv'
    OBVIOUS
  <2>1. CASE Next
    BY <2>1, ClientPhaseStep, AnnouncedStep, SignalsStep, LockStep DEF OrderInv
  <2>2. CASE UNCHANGED vars
    <3>1. UNCHANGED <<pc, state, old, target, ctl, published, lpc>>
      BY <2>2 DEF vars, ctrlVars, chanVars, lstVars
    <3>2. ClientPhaseInv' /\ AnnouncedInv'
      BY <3>1 DEF OrderInv, ClientPhaseInv, AnnouncedInv, Announces
    <3>3. SignalsInv' /\ SignalsInOrder' /\ LockInv'
      BY <3>1 DEF OrderInv, SignalsInv, Stopped, SignalsInOrder, LockInv, Alive, Ended
    <3>4. QED
      BY <3>2, <3>3 DEF OrderInv
  <2>3. QED
    BY <2>1, <2>2
<1>2. QED
  BY <1>1, OrderInit, Invariance, PTL DEF Spec

\* Each side broadcasts StartLoad at most once, and nothing after Terminate.
THEOREM SignalOrder == Spec => []SignalsInOrder
<1>1. OrderInv => SignalsInOrder
  BY DEF OrderInv
<1>2. QED
  BY <1>1, OrderInvariance, PTL

\* The client is never in a phase the server has not announced, and ahead of the
\* server's stored one only while set_state is between the two.
THEOREM ClientBehind == Spec => []ClientFollows
<1>1. OrderInv => ClientFollows
  <2> SUFFICES ASSUME AnnouncedInv, state["client"] # "Terminate"
               PROVE  \/ Rank(state["client"]) <= Rank(state["server"])
                      \/ /\ Rank(state["client"]) <= Rank(target)
                         /\ pc["server"] \in {"assign", "aborted"}
    BY DEF OrderInv, ClientFollows
  <2>1. QED
    BY DEF AnnouncedInv
<1>2. QED
  BY <1>1, OrderInvariance, PTL

\* No step of any task or fault takes a phase back, on either side.
THEOREM PhasesForward == Spec => PhasesAdvance
<1>1. IndInv /\ OrderInv /\ [Next]_vars =>
        [\A r \in Roles : Rank(state'[r]) >= Rank(state[r])]_state
  <2> SUFFICES ASSUME IndInv, OrderInv, [Next]_vars
               PROVE  [\A r \in Roles : Rank(state'[r]) >= Rank(state[r])]_state
    OBVIOUS
  <2>1. CASE Next
    <3>1. \A r \in Roles : state[r] \in States /\ state'[r] \in States
      BY <2>1, OrderTypes, TypeStep DEF TypeOK, CtrlTypeOK
    <3>2. \A r \in Roles : Rank(state[r]) <= Rank(state'[r])
      BY <2>1, AnnouncedStep DEF PhasesKept
    <3>3. QED
      BY <3>1, <3>2, RankFacts
  <2>2. CASE UNCHANGED vars
    BY <2>2 DEF vars, ctrlVars
  <2>3. QED
    BY <2>1, <2>2
<1>2. QED
  BY <1>1, OrderInvariance, Invariance, PTL DEF Spec, PhasesAdvance

\* What a step answers to a connection.
LEMMA AnswerSteps ==
  ASSUME IndInv, Next, NEW c \in Conns, reply[c] # reply'[c], reply'[c] = "welcome"
  PROVE  lpc \in {"hello", "cookie"} /\ UNCHANGED <<pc, state>>
<1>0. reply \in [Conns -> {"none", "welcome", "busy", "closed"}]
  BY DEF IndInv, TypeOK, ListenerTypeOK
<1>1. CASE ListenerStep
  <2>1. UNCHANGED <<pc, state>>
    BY <1>1, ListenerFrame DEF ctrlVars
  <2>2. CASE AcceptInFlight \/ RejectStranger \/ HandshakeFailed
    BY <1>0, <2>2 DEF AcceptInFlight, RejectStranger, HandshakeFailed, Answer
  <2>3. CASE AcceptFresh \/ FreshGiveUp
    BY <2>3 DEF AcceptFresh, FreshGiveUp
  <2>4. CASE ListenerShutdown
    BY <1>0, <2>4 DEF ListenerShutdown, CloseListener
  <2>5. CASE WelcomeStream \/ FreshHello
    BY <2>1, <2>5 DEF WelcomeStream, FreshHello
  <2>6. QED
    BY <1>1, <2>2, <2>3, <2>4, <2>5 DEF ListenerStep
<1>2. ASSUME NEW r \in Roles, Crash(r) PROVE FALSE
  BY <1>0, <1>2 DEF Crash, CloseListener
<1>3. CASE UNCHANGED reply
  BY <1>3
<1>4. QED
  BY NextCases, <1>1, <1>2, <1>3, ExitFrame, StrangerFrame, WorkerFrame
     DEF Assign, TopStart, TopCreateStreams, ConnectStream, SendHello, AwaitWelcome,
         AcceptStream, StreamsCreated, OnServerMessage, TopRunning, TopStopWorkers, TopNothing,
         Poll, OnStreamTerminated, OnTerminate, OnShutdown, CollectOne, AllCollected,
         SendResults, ReadResults, CtrlC, lstVars

\* While a test is in flight a stream is welcomed only in CreateStreams: the lock
\* holds what the listener has looked at until it has answered.
THEOREM WelcomeInPhase == Spec => WelcomedInPhase
<1> DEFINE Welcome == \A c \in Conns :
             reply[c] # reply'[c] /\ reply'[c] = "welcome" /\ Alive("server")
               => state["server"] = "CreateStreams"
<1>1. IndInv /\ OrderInv /\ [Next]_vars => [Welcome]_vars
  <2> SUFFICES ASSUME IndInv, OrderInv, Next, NEW c \in Conns,
                      reply[c] # reply'[c], reply'[c] = "welcome", Alive("server")
               PROVE  state["server"] = "CreateStreams"
    OBVIOUS
  <2>1. lpc \in {"hello", "cookie"}
    BY AnswerSteps
  <2>2. QED
    BY <2>1 DEF OrderInv, LockInv, Alive
<1>2. QED
  BY <1>1, OrderInvariance, Invariance, PTL DEF Spec, WelcomedInPhase
=============================================================================
