----------------------------- MODULE PerfTestInv -----------------------------
(***************************************************************************)
(* The inductive invariant behind the safety theorems of PerfTestProofs.   *)
(* Its core is the numbering of the streams: the client has at most one    *)
(* connection in the hands of the listener, and it is the one of its       *)
(* current stream_index; what is queued for the server's controller has    *)
(* higher numbers than what it has registered.                             *)
(***************************************************************************)
EXTENDS PerfTest

CreateAt(k) == k \in DOMAIN inbox["server"] /\ inbox["server"][k].kind = "CreateStream"

Handling == lpc \in {"hello", "cookie"}

\* The client connects stream c only when c is its stream_index.
ConnectingInv ==
  /\ pc["client"] \in {"hello", "welcome"} => index["client"] < Total
  /\ \A c \in Ids :
       /\ c > index["client"] => hello[c] = "idle"
       /\ c = index["client"] /\ pc["client"] \notin {"hello", "welcome", "done", "aborted"}
            => hello[c] = "idle"
       /\ hello[c] = "idle" => reply[c] = "none"

\* Connections of the client the listener has not answered: the current one only.
BacklogInv ==
  /\ \A k \in DOMAIN backlog :
       backlog[k] \in Ids =>
         /\ backlog[k] = index["client"]
         /\ hello[backlog[k]] # "idle" /\ reply[backlog[k]] = "none"
         /\ \A l \in DOMAIN backlog : backlog[l] = backlog[k] => l = k
  /\ lconn \in Ids => hello[lconn] # "idle"
  /\ Handling /\ lconn \in Ids =>
       /\ lconn = index["client"]
       /\ reply[lconn] = "none"
       /\ \A k \in DOMAIN backlog : backlog[k] # lconn

\* Streams queued for the server's controller are welcomed and in order.
QueueInv ==
  \A k \in DOMAIN inbox["server"] :
    CreateAt(k) =>
      /\ reply[inbox["server"][k].id] = "welcome"
      /\ inbox["server"][k].id <= index["client"]
      /\ \A l \in DOMAIN inbox["server"] :
           CreateAt(l) /\ k < l => inbox["server"][k].id < inbox["server"][l].id

\* Registered streams come before the queued ones; gaps, if any, only grow.
NumberingInv ==
  \A j \in Ids : j < index["server"] =>
    /\ conn["server"][j] \in Ids
    /\ j <= conn["server"][j] /\ conn["server"][j] <= index["client"]
    /\ reply[conn["server"][j]] = "welcome"
    /\ \A m \in Ids : j <= m /\ m < index["server"] =>
         m - j <= conn["server"][m] - conn["server"][j]
    /\ \A k \in DOMAIN inbox["server"] :
         CreateAt(k) => conn["server"][j] < inbox["server"][k].id

\* The workers map only holds numbers given out so far.
WorkersInv == \A r \in Roles : \A i \in workers[r] : i < index[r]

Started(r) == \E k \in DOMAIN published[r] : published[r][k] = "StartLoad"

RunningKnown ==
  \/ "Running" \in {target, state["server"], state["client"]}
  \/ \E k \in DOMAIN ctl["client"] : ctl["client"][k] = SetStateMsg("Running")

\* Running is announced, stored and acted upon after the last stream is in.
RunningInv ==
  /\ RunningKnown => index["server"] = Total
  /\ \A r \in Roles : Started(r) => index[r] = Total /\ index["server"] = Total
  /\ \A r \in Roles, i \in Ids : task[r][i] \in {"running", "ok"} => Started(r)
  /\ \A r \in Roles : \A k \in DOMAIN inbox[r] :
       inbox[r][k].kind = "StreamTerminated" => task[r][inbox[r][k].id] = "ok"

\* Where the server's controller can be in each phase.
PhaseInv ==
  /\ pc["server"] \in {"poll", "select"} => state["server"] \in {"CreateStreams", "Running"}
  /\ pc["server"] = "assign" => state["server"] \in {"Start", "CreateStreams", "Running"}
  /\ pc["server"] = "collect" => state["server"] \in {"ExchangeResults", "Terminate"}

\* Until it exchanges results or terminates, the server drops no worker
\* without keeping its result.
ResultsInv ==
  /\ state["server"] \notin {"ExchangeResults", "Terminate"} =>
       \A j \in Ids : j < index["server"] => j \in workers["server"] \cup results["server"]
  /\ "ExchangeResults" \in {target, state["server"]} => results["server"] = Ids

\* The conjunction, which every step preserves.
IndInv ==
  /\ TypeOK
  /\ ConnectingInv /\ BacklogInv /\ QueueInv /\ NumberingInv
  /\ WorkersInv /\ RunningInv /\ PhaseInv /\ ResultsInv

-----------------------------------------------------------------------------
(* The order of phases, announcements and signals.                         *)

\* A controller that has left its loop for good.
Stopped(r) == pc[r] \in {"collect", "xsend", "xread", "done", "aborted"}

\* Where the client's controller can be in each phase.
ClientPhaseInv ==
  /\ pc["client"] \in {"connect", "hello", "welcome"} => state["client"] = "CreateStreams"
  /\ pc["client"] \in {"poll", "select"} => state["client"] \in {"Start", "CreateStreams", "Running"}

Announces(k) == ctl["client"][k].kind = "SetState"

\* What the server announced is not behind what it stored, nor ahead of it but in
\* set_state; what is on its way to the client is in order, and not behind the client.
AnnouncedInv ==
  /\ Rank(state["server"]) <= Rank(target)
  /\ pc["server"] \notin {"assign", "aborted"} => target = state["server"]
  /\ state["client"] # "Terminate" => Rank(state["client"]) <= Rank(target)
  /\ \A k \in DOMAIN ctl["client"] : Announces(k) =>
       /\ Rank(ctl["client"][k].state) <= Rank(target)
       /\ state["client"] # "Terminate" => Rank(state["client"]) <= Rank(ctl["client"][k].state)
       /\ \A l \in DOMAIN ctl["client"] :
            Announces(l) /\ k < l => Rank(ctl["client"][k].state) <= Rank(ctl["client"][l].state)

\* Once StartLoad is out, the phase has passed to Running and old_state follows.
SignalsInv ==
  \A r \in Roles : ~Stopped(r) =>
    /\ published[r] \in {<<>>, <<"StartLoad">>}
    /\ published[r] # <<>> => Rank(state[r]) >= 2 /\ (pc[r] = "poll" \/ old[r] = "Running")

\* The listener's lock keeps the phase it has looked at.
LockInv ==
  /\ lpc = "hello" /\ Alive("server") => state["server"] = "CreateStreams"
  /\ lpc \in {"cookie", "params"} => Ended("server")

\* Inductive together with IndInv.
OrderInv == ClientPhaseInv /\ AnnouncedInv /\ SignalsInv /\ SignalsInOrder /\ LockInv

-----------------------------------------------------------------------------
(* The exchange of results.                                                *)

\* The client has sent its results, which nothing changes any more.
HandedIn == state["client"] = "ExchangeResults" /\ pc["client"] \in {"xread", "done", "aborted"}

\* Only a test that got to the exchange exchanges.
StopPhaseInv ==
  \A r \in Roles :
    /\ pc[r] = "collect" => state[r] \in {"ExchangeResults", "Terminate"}
    /\ pc[r] \in {"xsend", "xread"} => state[r] = "ExchangeResults"

\* Between the client's phase and the announced one, every phase is on its way,
\* each at its place; Terminate and the results come last.
ChainInv ==
  LET q == ctl["client"]
  IN  /\ \A k \in DOMAIN q : Announces(k) /\ q[k].state = "Terminate" => target = "Terminate"
      /\ \A k \in DOMAIN q : ~Announces(k) \/ q[k].state = "Terminate" => k = Len(q)
      /\ state["client"] # "Terminate" =>
           /\ \A k \in DOMAIN q : Announces(k) /\ q[k].state # "Terminate" =>
                Rank(q[k].state) = Rank(state["client"]) + k
           /\ target # "Terminate" /\ ~Completed("server") =>
                Rank(target) = Rank(state["client"]) + Len(q)

\* Results on their way are those of a side that will not change them.
SentInv ==
  /\ \A k \in DOMAIN ctl["server"] :
       HandedIn /\ ctl["server"][k] = ResultsMsg(results["client"])
  /\ \A k \in DOMAIN ctl["client"] : ~Announces(k) =>
       Completed("server") /\ ctl["client"][k] = ResultsMsg(results["server"])

\* Nor are those that have arrived; the client completes the test second.
ReceivedInv ==
  /\ pc["server"] = "xsend" \/ Completed("server") =>
       HandedIn /\ peerResults["server"] = results["client"]
  /\ Completed("client") =>
       Completed("server") /\ peerResults["client"] = results["server"]

\* Nothing is announced after ExchangeResults, not even Terminate.
LastPhaseInv ==
  (\/ "ExchangeResults" \in {state["server"], state["client"]}
   \/ \E k \in DOMAIN ctl["client"] : ctl["client"][k] = SetStateMsg("ExchangeResults"))
    => target = "ExchangeResults"

\* Inductive together with IndInv and OrderInv.
ExchangeInv == StopPhaseInv /\ ChainInv /\ SentInv /\ ReceivedInv /\ LastPhaseInv

-----------------------------------------------------------------------------
(* The streams on their way to the server's controller.                    *)

\* Whatever connects is answered at most once: what is in the backlog or in the
\* hands of the listener has no answer yet, and is there once.
OnceInv ==
  /\ \A c \in Conns : hello[c] = "idle" => reply[c] = "none"
  /\ \A k \in DOMAIN backlog :
       /\ hello[backlog[k]] # "idle" /\ reply[backlog[k]] = "none"
       /\ \A l \in DOMAIN backlog : backlog[l] = backlog[k] => l = k
  /\ lconn \in Conns => hello[lconn] # "idle"
  /\ Handling => /\ lconn \in Conns /\ reply[lconn] = "none"
                 /\ \A k \in DOMAIN backlog : backlog[k] # lconn

\* Whatever was put in an inbox was put there for Ctrl-C, by a worker that ended well
\* or, in the server's, with the answer to a connection; what the server has
\* numbered it has taken out again.
Answered    == {c \in Conns : reply[c] \in {"welcome", "closed"}}
Finished(r) == {i \in Ids : task[r][i] = "ok"}
Arrivals(r) == IF r = "server" THEN Cardinality(Answered) - index["server"] ELSE 0
RoomInv ==
  \A r \in Roles :
    Len(inbox[r]) <= Arrivals(r) + Cardinality(Finished(r))
                       + (IF shutdown[r] = "seen" THEN 1 ELSE 0)

\* NoStreamLost, with what the controller has taken numbered.
KeptInv ==
  \A c \in Ids :
    reply[c] = "welcome" /\ Alive("server") =>
      Queued(c) \/ \E j \in Ids : j < index["server"] /\ conn["server"][j] = c

\* Until it stops its workers, a side drops none without keeping its result.
HeldInv ==
  \A r \in Roles : ~Stopped(r) =>
    \A j \in Ids : j < index[r] => j \in workers[r] \cup results[r]

\* Inductive together with the others while the channel has room for a message
\* per connection and one for Ctrl-C.
ArrivalInv == OnceInv /\ RoomInv /\ KeptInv /\ HeldInv /\ EndsReported
=============================================================================
