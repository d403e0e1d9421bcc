-------------------------- MODULE DataStreamProofs --------------------------
(***************************************************************************)
(* Theorems about DataStream, for every block size, limit, capacity and    *)
(* number of reports.                                                      *)
(***************************************************************************)
EXTENDS DataStream, TLAPS

\* A worker that is about to read or write has not passed the limit yet.
LimitInv ==
  \A e \in Ends : /\ total[e] <= MaxLength + Block
                  /\ at[e] = "io" => total[e] <= MaxLength

\* Taking the first message out of a channel.
LEMMA HeadTail ==
  ASSUME NEW S, NEW q \in Seq(S), q # <<>>
  PROVE  /\ Head(q) \in S /\ Tail(q) \in Seq(S) /\ Len(Tail(q)) = Len(q) - 1
         /\ Len(q) \in Nat \ {0}
         /\ \A k \in 1 .. Len(q) - 1 : Tail(q)[k] = q[k + 1]
OBVIOUS

\* Putting a message into a channel.
LEMMA AppendFacts ==
  ASSUME NEW S, NEW q \in Seq(S), NEW m
  PROVE  /\ Len(Append(q, m)) = Len(q) + 1
         /\ DOMAIN Append(q, m) = 1 .. Len(q) + 1
         /\ Append(q, m)[Len(q) + 1] = m
         /\ \A k \in 1 .. Len(q) : Append(q, m)[k] = q[k]
OBVIOUS

\* Counting the bytes of one read or write.
LEMMA CountTyped ==
  ASSUME TypeOK, NEW e \in Ends, NEW n \in Nat, Count(e, n)
  PROVE  total' \in [Ends -> Nat] /\ bytes' \in [Ends -> Nat] /\ index' = index
BY DEF TypeOK, Count, Counted

\* What a report that is shown adds up to (print_stats).
LEMMA ShowTyped ==
  ASSUME TypeOK, NEW e \in Ends, Show(e)
  PROVE  /\ port' \in [Ends -> Seq(Stats)]
         /\ \A f \in Ends : Len(port'[f]) <= PortCap
         /\ shown' \in [Ends -> [count : Nat, bytes : Nat]]
<1>1. port[e] \in Seq(Stats) /\ port[e] # <<>>
  BY DEF TypeOK, Show
<1>2. /\ Head(port[e]) \in Stats /\ Tail(port[e]) \in Seq(Stats)
      /\ Len(Tail(port[e])) = Len(port[e]) - 1 /\ Len(port[e]) \in Nat
  BY <1>1, HeadTail
<1>3. Head(port[e]).bytes \in Nat
  BY <1>2 DEF Stats
<1>4. PortCap \in Nat
  BY StreamAssumption
<1>5. port' = [port EXCEPT ![e] = Tail(port[e])]
  BY DEF Show
<1>6. shown[e].count + 1 \in Nat /\ shown[e].bytes + Head(port[e]).bytes \in Nat
  <2>1. shown[e].count \in Nat /\ shown[e].bytes \in Nat
    BY DEF TypeOK
  <2> QED
    BY <1>3, <2>1
<1>7. shown' \in [Ends -> [count : Nat, bytes : Nat]]
  <2> DEFINE s == [count |-> shown[e].count + 1, bytes |-> shown[e].bytes + Head(port[e]).bytes]
  <2>1. s \in [count : Nat, bytes : Nat]
    BY <1>6
  <2>2. shown' = [shown EXCEPT ![e] = s]
    BY DEF Show
  <2> HIDE DEF s
  <2> QED
    BY <2>1, <2>2 DEF TypeOK
<1>8. port' \in [Ends -> Seq(Stats)]
  BY <1>2, <1>5 DEF TypeOK
<1>9. ASSUME NEW f \in Ends PROVE Len(port'[f]) <= PortCap
  <2>1. CASE f = e
    <3>1. port'[f] = Tail(port[e])
      BY <1>5, <2>1 DEF TypeOK
    <3>2. Len(port[e]) <= PortCap
      BY DEF TypeOK
    <3> QED
      BY <1>2, <1>4, <3>1, <3>2
  <2>2. CASE f # e
    BY <1>5, <2>2 DEF TypeOK
  <2> QED
    BY <2>1, <2>2
<1> QED
  BY <1>7, <1>8, <1>9

\* What a send of statistics does to the channel (send, send_current_stats).
LEMMA SendTyped ==
  ASSUME TypeOK, NEW e \in Ends, Send(e)
  PROVE  port' \in [Ends -> Seq(Stats)] /\ \A f \in Ends : Len(port'[f]) <= PortCap
<1> DEFINE s == [index |-> index[e], bytes |-> bytes[e]]
<1>1. s \in Stats /\ port[e] \in Seq(Stats) /\ Len(port[e]) < PortCap
  BY DEF TypeOK, Send, Room, Stats
<1>2. port' = [port EXCEPT ![e] = Append(port[e], s)]
  BY DEF Send
<1> HIDE DEF s
<1>3. Append(port[e], s) \in Seq(Stats) /\ Len(Append(port[e], s)) = Len(port[e]) + 1
  BY <1>1
<1>4. PortCap \in Nat /\ Len(port[e]) \in Nat
  BY <1>1, StreamAssumption
<1> QED
  BY <1>1, <1>2, <1>3, <1>4 DEF TypeOK

\* The type invariant is inductive: every variable keeps its type and the
\* statistics channel its capacity (run_worker and its environment).
LEMMA TypeInductive == TypeOK /\ [Next]_vars => TypeOK'
<1> SUFFICES ASSUME TypeOK, [Next]_vars PROVE TypeOK'
  OBVIOUS
<1> USE StreamAssumption DEF TypeOK, Ends, Signals, Stats, Open, Places
<1>1. ASSUME NEW e \in Ends, Broadcast(e) PROVE TypeOK'
  BY <1>1 DEF Broadcast, counters, statistics, connection
<1>2. ASSUME NEW e \in Ends, TimePasses(e) PROVE TypeOK'
  BY <1>2 DEF TimePasses, counters, statistics, connection
<1>3. ASSUME NEW e \in Ends, AwaitStart(e) PROVE TypeOK'
  BY <1>3 DEF AwaitStart, Goto, counters, statistics, connection
<1>4. ASSUME NEW e \in Ends, Look(e) PROVE TypeOK'
  BY <1>4 DEF Look, Goto, counters, statistics, connection
<1>5. ASSUME NEW e \in Ends, Nothing(e) \/ Fails(e) \/ Slow(e) PROVE TypeOK'
  <2>1. /\ UNCHANGED <<signal, timeUp, counters, statistics, connection>>
        /\ \E l \in {"flush", "err", "head", "report"} : at' = [at EXCEPT ![e] = l]
    BY <1>5 DEF Nothing, Fails, Slow, Tick, Goto
  <2>2. at' \in [Ends -> Places]
    BY <2>1
  <2> QED
    BY <2>1, <2>2 DEF counters, statistics, connection
<1>6. ASSUME NEW n \in 1 .. Block, Write(n) PROVE TypeOK'
  <2>1. n \in Nat /\ pipe + n \in 0 .. PipeCap
    BY <1>6 DEF Write
  <2>2. total' \in [Ends -> Nat] /\ bytes' \in [Ends -> Nat] /\ index' = index
    BY <1>6, <2>1, CountTyped DEF Write
  <2>3. at' \in [Ends -> Places]
    BY <1>6 DEF Write, Tick, Goto
  <2>4. pipe' \in 0 .. PipeCap /\ UNCHANGED <<signal, timeUp, statistics, drained, broken>>
    BY <1>6, <2>1 DEF Write
  <2> QED
    BY <2>2, <2>3, <2>4 DEF statistics
<1>7. ASSUME NEW n \in 1 .. Block, Read(n) PROVE TypeOK'
  <2>1. n \in Nat /\ pipe - n \in 0 .. PipeCap
    BY <1>7 DEF Read
  <2>2. total' \in [Ends -> Nat] /\ bytes' \in [Ends -> Nat] /\ index' = index
    BY <1>7, <2>1, CountTyped DEF Read
  <2>3. at' \in [Ends -> Places]
    BY <1>7 DEF Read, Tick, Goto
  <2>4. pipe' \in 0 .. PipeCap /\ UNCHANGED <<signal, timeUp, statistics, drained, broken>>
    BY <1>7, <2>1 DEF Read
  <2> QED
    BY <2>2, <2>3, <2>4 DEF statistics
<1>8. ASSUME NEW e \in Ends, Report(e) PROVE TypeOK'
  <2>1. port' \in [Ends -> Seq(Stats)] /\ \A f \in Ends : Len(port'[f]) <= PortCap
    BY <1>8, SendTyped DEF Report
  <2>2. bytes' = [bytes EXCEPT ![e] = 0] /\ index' = [index EXCEPT ![e] = index[e] + 1]
    BY <1>8 DEF Report, BytesAfterReport, NextIndex
  <2>3. bytes' \in [Ends -> Nat] /\ index' \in [Ends -> Nat]
    <3>1. index[e] + 1 \in Nat
      OBVIOUS
    <3> QED
      BY <2>2, <3>1
  <2> QED
    BY <1>8, <2>1, <2>3 DEF Report, Goto, connection
<1>9. ASSUME NEW e \in Ends, Flush(e) PROVE TypeOK'
  <2>1. port' \in [Ends -> Seq(Stats)] /\ \A f \in Ends : Len(port'[f]) <= PortCap
    BY <1>9, SendTyped DEF Flush
  <2> QED
    BY <1>9, <2>1 DEF Flush, Goto, counters, connection
<1>10. CASE Drain
  BY <1>10 DEF Drain, counters, statistics
<1>11. ASSUME NEW e \in Ends, Show(e) PROVE TypeOK'
  BY <1>11, ShowTyped DEF Show, counters, connection
<1>12. CASE Reset
  BY <1>12 DEF Reset, counters, statistics
<1>13. CASE UNCHANGED vars
  BY <1>13 DEF vars
<1> QED
  BY <1>1, <1>2, <1>3, <1>4, <1>5, <1>6, <1>7, <1>8, <1>9, <1>10, <1>11, <1>12, <1>13
  DEF Next, WorkerStep

-----------------------------------------------------------------------------
\* Bytes move from the sender's count to the pipe and from there to exactly one
\* of the receiver's count and the drain.
LEMMA NothingLostInductive == TypeOK /\ NothingLost /\ [Next]_vars => NothingLost'
<1> SUFFICES ASSUME TypeOK, NothingLost, [Next]_vars PROVE NothingLost'
  OBVIOUS
<1>0. /\ total["sender"] \in Nat /\ total["receiver"] \in Nat
      /\ pipe \in Nat /\ drained \in Nat /\ broken \in BOOLEAN
  BY StreamAssumption DEF TypeOK, Ends
<1>1. ASSUME NEW n \in 1 .. Block, Write(n) PROVE NothingLost'
  <2>1. /\ n \in Nat /\ pipe' = pipe + n /\ UNCHANGED <<drained, broken>>
        /\ total' = [total EXCEPT !["sender"] = total["sender"] + n]
    BY <1>1 DEF Write, Count, Counted
  <2>2. total'["sender"] = total["sender"] + n /\ total'["receiver"] = total["receiver"]
    BY <2>1 DEF TypeOK, Ends
  <2> QED
    BY <1>0, <2>1, <2>2 DEF NothingLost
<1>2. ASSUME NEW n \in 1 .. Block, Read(n) PROVE NothingLost'
  <2>1. /\ n \in Nat /\ pipe' = pipe - n /\ UNCHANGED <<drained, broken>>
        /\ total' = [total EXCEPT !["receiver"] = total["receiver"] + n]
    BY <1>2 DEF Read, Count, Counted
  <2>2. total'["receiver"] = total["receiver"] + n /\ total'["sender"] = total["sender"]
    BY <2>1 DEF TypeOK, Ends
  <2> QED
    BY <1>0, <2>1, <2>2 DEF NothingLost
<1>3. CASE Drain
  <2>1. PICK n \in 1 .. Block : n <= pipe /\ pipe' = pipe - n /\ drained' = drained + n
    BY <1>3 DEF Drain
  <2> QED
    BY <1>0, <1>3, <2>1 DEF Drain, counters, NothingLost
<1>4. CASE Reset
  BY <1>4 DEF Reset, NothingLost
<1>5. ASSUME UNCHANGED <<total, pipe, drained, broken>> PROVE NothingLost'
  BY <1>5 DEF NothingLost
<1> QED
  BY <1>1, <1>2, <1>3, <1>4, <1>5
  DEF Next, vars, WorkerStep, Broadcast, TimePasses, AwaitStart, Look, Nothing, Fails,
      Slow, Report, Flush, Show, counters, statistics, connection

\* The head of the loop lets a worker through to a read or write only while it
\* has not passed the limit, and one of them moves at most a block.
LEMMA LimitInductive == TypeOK /\ LimitInv /\ [Next]_vars => LimitInv'
<1> SUFFICES ASSUME TypeOK, LimitInv, [Next]_vars PROVE LimitInv'
  OBVIOUS
<1>0. total \in [Ends -> Nat] /\ at \in [Ends -> Places] /\ MaxLength \in Nat /\ Block \in Nat
  BY StreamAssumption DEF TypeOK
<1>1. ASSUME NEW e \in Ends, NEW n \in 1 .. Block, at[e] = "io", Count(e, n), Tick(e)
      PROVE  LimitInv'
  <2>1. total' = [total EXCEPT ![e] = total[e] + n]
    BY <1>1 DEF Count, Counted
  <2>2. at' = [at EXCEPT ![e] = "head"] \/ at' = [at EXCEPT ![e] = "report"]
    BY <1>1 DEF Tick, Goto
  <2>3. ASSUME NEW f \in Ends
        PROVE  /\ total'[f] <= MaxLength + Block
               /\ at'[f] = "io" => total'[f] <= MaxLength
    <3>1. CASE f = e
      <4>1. total'[f] = total[e] + n /\ at'[f] # "io"
        BY <1>0, <2>1, <2>2, <3>1
      <4>2. total[e] <= MaxLength
        BY <1>1 DEF LimitInv
      <4> QED
        BY <1>0, <4>1, <4>2
    <3>2. CASE f # e
      <4>1. total'[f] = total[f] /\ at'[f] = at[f]
        BY <1>0, <2>1, <2>2, <3>2
      <4> QED
        BY <4>1 DEF LimitInv
    <3> QED
      BY <3>1, <3>2
  <2> QED
    BY <2>3 DEF LimitInv
<1>2. ASSUME NEW e \in Ends, Look(e) PROVE LimitInv'
  <2>1. total' = total
    BY <1>2 DEF Look, counters
  <2>2. ASSUME NEW f \in Ends, at'[f] = "io" PROVE total[f] <= MaxLength
    <3>1. CASE f # e
      BY <1>0, <1>2, <2>2, <3>1 DEF Look, Goto, LimitInv
    <3>2. CASE f = e /\ BytesUp(e)
      BY <1>0, <1>2, <2>2, <3>2 DEF Look, Goto
    <3>3. CASE f = e /\ ~BytesUp(e)
      BY <1>0, <3>3 DEF BytesUp
    <3> QED
      BY <3>1, <3>2, <3>3
  <2> QED
    BY <2>1, <2>2 DEF LimitInv
<1>3. ASSUME total' = total, \A e \in Ends : at'[e] = "io" => at[e] = "io" PROVE LimitInv'
  BY <1>3 DEF LimitInv
<1>4. ASSUME NEW e \in Ends,
             AwaitStart(e) \/ Nothing(e) \/ Fails(e) \/ Slow(e) \/ Report(e) \/ Flush(e)
      PROVE  LimitInv'
  <2>1. total' = total
    BY <1>4 DEF AwaitStart, Nothing, Fails, Slow, Report, Flush, counters
  <2>2. \E l \in {"head", "err", "flush", "report", "ok"} : at' = [at EXCEPT ![e] = l]
    BY <1>4 DEF AwaitStart, Nothing, Fails, Slow, Report, Flush, Tick, Goto
  <2>3. \A f \in Ends : at'[f] = "io" => at[f] = "io"
    BY <1>0, <2>2
  <2> QED
    BY <1>3, <2>1, <2>3
<1>5. ASSUME UNCHANGED <<at, total>> PROVE LimitInv'
  BY <1>5 DEF LimitInv
<1>6. ASSUME NEW n \in 1 .. Block, Write(n) \/ Read(n) PROVE LimitInv'
  BY <1>1, <1>6 DEF Write, Read, Ends
<1> QED
  BY <1>2, <1>4, <1>5, <1>6
  DEF Next, vars, WorkerStep, Broadcast, TimePasses, Drain, Reset, Show, counters,
      statistics, connection

\* A write fails only on a connection that broke or whose reader failed; a
\* worker that is told something it does not expect has been told something.
LEMMA SenderInductive == TypeOK /\ SenderNotFailed /\ [Next]_vars => SenderNotFailed'
<1> SUFFICES ASSUME TypeOK, SenderNotFailed, [Next]_vars PROVE SenderNotFailed'
  OBVIOUS
<1>0. at \in [Ends -> Places] /\ signal \in [Ends -> Signals]
  BY DEF TypeOK
<1>1. ASSUME NEW e \in Ends, AwaitStart(e) PROVE SenderNotFailed'
  <2>1. CASE e = "sender"
    BY <1>0, <1>1, <2>1 DEF AwaitStart, Goto, SenderNotFailed, connection, Ends
  <2>2. CASE e = "receiver"
    BY <1>0, <1>1, <2>2 DEF AwaitStart, Goto, SenderNotFailed, connection, Ends
  <2> QED
    BY <2>1, <2>2 DEF Ends
<1>2. ASSUME NEW e \in Ends, Look(e) PROVE SenderNotFailed'
  <2>1. /\ at[e] = "head" /\ UNCHANGED <<signal, broken>>
        /\ \E l \in Places : at' = [at EXCEPT ![e] = l]
        /\ at'[e] = "err" => signal[e] # "none"
    BY <1>0, <1>2 DEF Look, Goto, connection, Places
  <2> QED
    BY <1>0, <2>1 DEF SenderNotFailed, Ends
<1>3. ASSUME NEW e \in Ends, Fails(e) PROVE SenderNotFailed'
  BY <1>0, <1>3 DEF Fails, ReaderOpen, Goto, SenderNotFailed, connection, Ends
<1>4. ASSUME NEW e \in Ends, at[e] # "err", UNCHANGED <<signal, broken>>,
             \E l \in {"head", "flush", "report", "ok"} : at' = [at EXCEPT ![e] = l]
      PROVE  SenderNotFailed'
  BY <1>0, <1>4 DEF SenderNotFailed, Ends
<1>5. ASSUME NEW e \in Ends, Nothing(e) \/ Slow(e) \/ Report(e) \/ Flush(e)
      PROVE  SenderNotFailed'
  BY <1>4, <1>5 DEF Nothing, Slow, TimesOut, Report, Flush, Tick, Goto, connection
<1>6. ASSUME NEW n \in 1 .. Block, Write(n) \/ Read(n) PROVE SenderNotFailed'
  BY <1>4, <1>6 DEF Write, Read, Tick, Goto, Ends
<1>7. ASSUME NEW e \in Ends, Broadcast(e) PROVE SenderNotFailed'
  <2>1. /\ \E m \in Signals \ {"none"} : signal' = [signal EXCEPT ![e] = m]
        /\ UNCHANGED <<at, broken>>
    BY <1>7 DEF Broadcast, connection, Signals
  <2> QED
    BY <1>0, <2>1 DEF SenderNotFailed, Ends
<1>8. CASE Reset
  BY <1>8 DEF Reset, SenderNotFailed
<1>9. ASSUME UNCHANGED <<at, signal, broken>> PROVE SenderNotFailed'
  BY <1>9 DEF SenderNotFailed
<1> QED
  BY <1>1, <1>2, <1>3, <1>5, <1>6, <1>7, <1>8, <1>9
  DEF Next, vars, WorkerStep, TimePasses, Drain, Show, connection

\* A report is numbered when it is put into the channel, behind the reports
\* that are in it and the ones that were shown before.
LEMMA ReportsInductive == TypeOK /\ ReportsInOrder /\ [Next]_vars => ReportsInOrder'
<1> SUFFICES ASSUME TypeOK, ReportsInOrder, [Next]_vars PROVE ReportsInOrder'
  OBVIOUS
<1> DEFINE Good(e) == /\ \A k \in DOMAIN port[e] : port[e][k].index = shown[e].count + k - 1
                      /\ ~Finished(e) => index[e] = shown[e].count + Len(port[e])
<1>0. /\ at \in [Ends -> Places] /\ port \in [Ends -> Seq(Stats)] /\ index \in [Ends -> Nat]
      /\ shown \in [Ends -> [count : Nat, bytes : Nat]]
  BY DEF TypeOK
<1>1. ASSUME NEW e \in Ends PROVE Good(e)
  BY DEF ReportsInOrder
<1>2. ASSUME NEW e \in Ends, port'[e] = port[e], shown'[e] = shown[e],
             Finished(e)' \/ (index'[e] = index[e] /\ ~Finished(e))
      PROVE  Good(e)'
  BY <1>1, <1>2
<1>3. ASSUME NEW e \in Ends, Send(e), shown'[e] = shown[e], ~Finished(e),
             Finished(e)' \/ index'[e] = index[e] + 1
      PROVE  Good(e)'
  <2> DEFINE s == [index |-> index[e], bytes |-> bytes[e]]
  <2>1. port'[e] = Append(port[e], s) /\ s.index = index[e]
    BY <1>0, <1>3 DEF Send
  <2> HIDE DEF s
  <2>2. /\ Len(port'[e]) = Len(port[e]) + 1 /\ DOMAIN port'[e] = 1 .. Len(port[e]) + 1
        /\ port'[e][Len(port[e]) + 1] = s
        /\ \A k \in 1 .. Len(port[e]) : port'[e][k] = port[e][k]
    BY <1>0, <2>1, AppendFacts
  <2>3. Len(port[e]) \in Nat /\ DOMAIN port[e] = 1 .. Len(port[e]) /\ shown[e].count \in Nat
    BY <1>0
  <2>4. index[e] = shown[e].count + Len(port[e])
    BY <1>1, <1>3
  <2>5. ASSUME NEW k \in DOMAIN port'[e] PROVE port'[e][k].index = shown[e].count + k - 1
    <3>1. CASE k = Len(port[e]) + 1
      BY <2>1, <2>2, <2>3, <2>4, <3>1
    <3>2. CASE k \in 1 .. Len(port[e])
      BY <1>1, <2>2, <2>3, <3>2
    <3> QED
      BY <2>2, <2>3, <3>1, <3>2
  <2> QED
    BY <1>3, <2>2, <2>3, <2>4, <2>5
<1>4. ASSUME NEW e \in Ends, Show(e) PROVE Good(e)'
  <2>1. /\ port[e] \in Seq(Stats) /\ port[e] # <<>> /\ port'[e] = Tail(port[e])
        /\ shown[e].count \in Nat /\ shown'[e].count = shown[e].count + 1
        /\ UNCHANGED <<at, index>>
    BY <1>0, <1>4 DEF Show, counters
  <2>2. /\ Len(Tail(port[e])) = Len(port[e]) - 1 /\ Len(port[e]) \in Nat \ {0}
        /\ \A k \in 1 .. Len(port[e]) - 1 : Tail(port[e])[k] = port[e][k + 1]
        /\ Tail(port[e]) \in Seq(Stats)
    BY <2>1, HeadTail
  <2>3. DOMAIN port'[e] = 1 .. Len(port[e]) - 1 /\ DOMAIN port[e] = 1 .. Len(port[e])
    BY <2>1, <2>2
  <2>4. ASSUME NEW k \in DOMAIN port'[e] PROVE port'[e][k].index = shown'[e].count + k - 1
    <3>1. port'[e][k] = port[e][k + 1] /\ k + 1 \in DOMAIN port[e] /\ k \in Nat
      BY <2>1, <2>2, <2>3
    <3>2. port[e][k + 1].index = shown[e].count + (k + 1) - 1
      BY <1>1, <3>1
    <3> QED
      BY <2>1, <3>1, <3>2
  <2>5. ~Finished(e)' => index'[e] = shown'[e].count + Len(port'[e])
    BY <1>1, <2>1, <2>2 DEF Finished
  <2> QED
    BY <2>4, <2>5
<1>5. ASSUME NEW e \in Ends, NEW f \in Ends, f # e, Show(e) PROVE Good(f)'
  BY <1>0, <1>1, <1>5 DEF Show, counters, Finished
<1>6. ASSUME NEW e \in Ends, NEW f \in Ends, f # e, Report(e) \/ Flush(e) PROVE Good(f)'
  BY <1>0, <1>1, <1>6 DEF Report, Flush, Send, Goto, counters, Finished
<1>7. ASSUME NEW e \in Ends, Report(e) PROVE Good(e)'
  <2>1. Send(e) /\ shown' = shown /\ ~Finished(e) /\ index'[e] = index[e] + 1
    BY <1>0, <1>7 DEF Report, NextIndex, Finished
  <2> QED
    BY <1>3, <2>1
<1>8. ASSUME NEW e \in Ends, Flush(e) PROVE Good(e)'
  <2>1. Send(e) /\ shown' = shown /\ ~Finished(e) /\ Finished(e)'
    BY <1>0, <1>8 DEF Flush, Goto, Finished
  <2> QED
    BY <1>3, <2>1
<1>9. ASSUME UNCHANGED <<port, shown, index>>,
             \A f \in Ends : Finished(f) => Finished(f)'
      PROVE  ReportsInOrder'
  BY <1>1, <1>9 DEF ReportsInOrder
<1>10. ASSUME NEW e \in Ends,
              AwaitStart(e) \/ Look(e) \/ Nothing(e) \/ Fails(e) \/ Slow(e)
       PROVE  ReportsInOrder'
  <2>1. /\ UNCHANGED <<port, shown, index>> /\ ~Finished(e)
        /\ \E l \in Places : at' = [at EXCEPT ![e] = l]
    BY <1>10 DEF AwaitStart, Look, Nothing, Fails, Slow, TimesOut, Tick, Goto, Finished,
                 Places, counters, statistics
  <2> QED
    BY <1>0, <1>9, <2>1 DEF Finished
<1>11. ASSUME NEW n \in 1 .. Block, Write(n) \/ Read(n) PROVE ReportsInOrder'
  <2>1. PICK e \in Ends : /\ at[e] = "io" /\ Tick(e)
                          /\ UNCHANGED <<port, shown, index>>
    BY <1>11 DEF Write, Read, Count, Ends, statistics
  <2> QED
    BY <1>0, <1>9, <2>1 DEF Finished, Tick, Goto
<1>12. ASSUME NEW e \in Ends, Report(e) \/ Flush(e) \/ Show(e) PROVE ReportsInOrder'
  BY <1>4, <1>5, <1>6, <1>7, <1>8, <1>12 DEF ReportsInOrder
<1>13. ASSUME UNCHANGED <<at, port, shown, index>> PROVE ReportsInOrder'
  BY <1>9, <1>13 DEF Finished
<1> QED
  BY <1>10, <1>11, <1>12, <1>13
  DEF Next, vars, WorkerStep, Broadcast, TimePasses, Drain, Reset, counters, statistics

-----------------------------------------------------------------------------
StreamInv == TypeOK /\ NothingLost /\ LimitInv /\ SenderNotFailed /\ ReportsInOrder

\* The conjunction holds initially.
LEMMA StreamInit == Init => StreamInv
<1> SUFFICES ASSUME Init PROVE StreamInv
  OBVIOUS
<1>1. at \in [Ends -> Places] /\ signal \in [Ends -> Signals] /\ timeUp \in [Ends -> BOOLEAN]
  BY DEF Init, Places, Signals
<1>2. port \in [Ends -> Seq(Stats)] /\ \A e \in Ends : port[e] = <<>> /\ Len(port[e]) = 0
  BY DEF Init
<1>3. /\ total \in [Ends -> Nat] /\ bytes \in [Ends -> Nat] /\ index \in [Ends -> Nat]
      /\ shown \in [Ends -> [count : Nat, bytes : Nat]]
      /\ result \in [Ends -> Nat \cup {Open}]
  BY DEF Init
<1>4. pipe \in 0 .. PipeCap /\ drained \in Nat /\ broken \in BOOLEAN
  <2>1. pipe = 0 /\ drained = 0 /\ broken = FALSE
    BY DEF Init
  <2>2. PipeCap \in Nat
    BY StreamAssumption
  <2>3. pipe \in 0 .. PipeCap /\ drained \in Nat
    BY <2>1, <2>2
  <2>4. broken \in BOOLEAN
    BY <2>1
  <2> QED
    BY <2>3, <2>4
<1>5. TypeOK
  BY <1>1, <1>2, <1>3, <1>4, StreamAssumption DEF TypeOK
<1>6. NothingLost /\ LimitInv /\ SenderNotFailed
  BY StreamAssumption DEF Init, NothingLost, LimitInv, SenderNotFailed, Ends
<1>7. ReportsInOrder
  BY <1>2 DEF Init, ReportsInOrder
<1> QED
  BY <1>5, <1>6, <1>7 DEF StreamInv

\* Every execution of a stream keeps the five invariants.
THEOREM StreamInvariance == Spec => []StreamInv
<1>1. StreamInv /\ [Next]_vars => StreamInv'
  BY TypeInductive, NothingLostInductive, LimitInductive, SenderInductive,
     ReportsInductive DEF StreamInv
<1> QED
  BY <1>1, StreamInit, PTL DEF Spec

\* Every variable keeps its type; the statistics channel is never over full.
THEOREM StreamTypeCorrect == Spec => []TypeOK
<1>1. StreamInv => TypeOK
  BY DEF StreamInv
<1> QED
  BY <1>1, StreamInvariance, PTL

\* Unless the connection breaks, each byte the sender counted is counted by the
\* receiver, thrown away by the drain task or still on its way.
THEOREM NoByteLost == Spec => []NothingLost
<1>1. StreamInv => NothingLost
  BY DEF StreamInv
<1> QED
  BY <1>1, StreamInvariance, PTL

\* No worker moves more than one block over max_length, whatever the sizes.
THEOREM LimitHolds == Spec => []LimitHeld
<1>1. StreamInv => LimitHeld
  BY DEF StreamInv, LimitInv, LimitHeld
<1> QED
  BY <1>1, StreamInvariance, PTL

\* A receiver that ends first never fails its sender.
THEOREM SenderSafe == Spec => []SenderNotFailed
<1>1. StreamInv => SenderNotFailed
  BY DEF StreamInv
<1> QED
  BY <1>1, StreamInvariance, PTL

\* The user interface sees every report once and in order.
THEOREM ReportsOrdered == Spec => []ReportsInOrder
<1>1. StreamInv => ReportsInOrder
  BY DEF StreamInv
<1> QED
  BY <1>1, StreamInvariance, PTL

-----------------------------------------------------------------------------
(* The stream implements Measurement. The sum of a channel is defined by   *)
(* recursion over its reports, so what is kept is not its value but what   *)
(* every function of partial sums that fits the channel ends in.           *)

IsSums(b, q, p) ==
  p = [k \in 0 .. Len(q) |-> IF k = 0 THEN b ELSE p[k - 1] + q[k].bytes]

AddsUp(b, q, r) ==
  /\ \E p : IsSums(b, q, p)
  /\ \A p : IsSums(b, q, p) => p[Len(q)] = r

\* The sum of a channel is the value its partial sums end in.
LEMMA SumIs ==
  ASSUME NEW b, NEW q, NEW r, AddsUp(b, q, r)
  PROVE  SumOf(b, q) = r
BY DEF AddsUp, IsSums, SumOf

\* An empty channel adds nothing to the reports that were shown.
LEMMA EmptySum ==
  ASSUME NEW S, NEW b, NEW q \in Seq(S), Len(q) = 0
  PROVE  AddsUp(b, q, b)
<1> DEFINE p == [k \in 0 .. 0 |-> b]
<1>1. IsSums(b, q, p)
  BY DEF IsSums
<1>2. ASSUME NEW f, IsSums(b, q, f) PROVE f[Len(q)] = b
  BY <1>2 DEF IsSums
<1> QED
  BY <1>1, <1>2 DEF AddsUp

\* A report that is sent adds its bytes.
LEMMA AppendSum ==
  ASSUME NEW S, NEW b, NEW q \in Seq(S), NEW r, NEW m, AddsUp(b, q, r)
  PROVE  AddsUp(b, Append(q, m), r + m.bytes)
<1> DEFINE n == Len(q)
           w == Append(q, m)
<1>1. /\ n \in Nat /\ Len(w) = n + 1 /\ w[n + 1] = m
      /\ \A k \in 1 .. n : w[k] = q[k]
  BY AppendFacts
<1> HIDE DEF n, w
<1>2. ASSUME NEW k \in 0 .. n + 1, k # 0, k # n + 1
      PROVE  k - 1 \in 0 .. n /\ k \in 1 .. n /\ k \in 0 .. n
  BY <1>1, <1>2
<1>3. \E p : IsSums(b, w, p)
  <2>1. PICK p : IsSums(b, q, p)
    BY DEF AddsUp
  <2>2. /\ DOMAIN p = 0 .. n
        /\ \A k \in 0 .. n : p[k] = IF k = 0 THEN b ELSE p[k - 1] + q[k].bytes
    BY <2>1 DEF IsSums, n
  <2> DEFINE f == [k \in 0 .. n + 1 |-> IF k = n + 1 THEN p[n] + m.bytes ELSE p[k]]
  <2>3. ASSUME NEW k \in 0 .. n + 1
        PROVE  f[k] = IF k = 0 THEN b ELSE f[k - 1] + w[k].bytes
    <3>1. CASE k = 0
      BY <1>1, <2>2, <3>1
    <3>2. CASE k = n + 1
      <4>1. f[k] = p[n] + m.bytes /\ k # 0
        BY <1>1, <3>2
      <4>2. k - 1 = n /\ f[n] = p[n]
        BY <1>1, <3>2
      <4> QED
        BY <1>1, <3>2, <4>1, <4>2
    <3>3. CASE k # 0 /\ k # n + 1
      <4>1. k - 1 \in 0 .. n /\ k \in 1 .. n /\ k \in 0 .. n
        BY <1>2, <3>3
      <4>2. f[k] = p[k] /\ f[k - 1] = p[k - 1]
        BY <1>1, <3>3, <4>1
      <4> QED
        BY <1>1, <2>2, <3>3, <4>1, <4>2
    <3> QED
      BY <3>1, <3>2, <3>3
  <2>4. f = [k \in 0 .. Len(w) |-> IF k = 0 THEN b ELSE f[k - 1] + w[k].bytes]
    BY <1>1, <2>3
  <2> QED
    BY <2>4 DEF IsSums
<1>4. ASSUME NEW f, IsSums(b, w, f) PROVE f[Len(w)] = r + m.bytes
  <2>1. /\ DOMAIN f = 0 .. n + 1
        /\ \A k \in 0 .. n + 1 : f[k] = IF k = 0 THEN b ELSE f[k - 1] + w[k].bytes
    BY <1>1, <1>4 DEF IsSums
  <2> DEFINE p == [k \in 0 .. n |-> f[k]]
  <2>2. ASSUME NEW k \in 0 .. n
        PROVE  p[k] = IF k = 0 THEN b ELSE p[k - 1] + q[k].bytes
    <3>1. CASE k = 0
      BY <1>1, <2>1, <3>1
    <3>2. CASE k # 0
      <4>1. k - 1 \in 0 .. n /\ k \in 1 .. n /\ k \in 0 .. n + 1
        BY <1>1, <3>2
      <4>2. p[k] = f[k] /\ p[k - 1] = f[k - 1]
        BY <4>1
      <4> QED
        BY <1>1, <2>1, <3>2, <4>1, <4>2
    <3> QED
      BY <3>1, <3>2
  <2>3. IsSums(b, q, p)
    BY <2>2 DEF IsSums, n
  <2>4. p[n] = r
    BY <2>3 DEF AddsUp, n
  <2>5. f[n] = r
    BY <1>1, <2>4
  <2>6. n + 1 \in 0 .. n + 1 /\ n + 1 # 0 /\ (n + 1) - 1 = n
    BY <1>1
  <2> QED
    BY <1>1, <2>1, <2>5, <2>6
<1> QED
  BY <1>3, <1>4 DEF AddsUp, w

\* A report that is taken out and shown moves its bytes and adds none.
LEMMA ShowSum ==
  ASSUME NEW S, NEW b, NEW q \in Seq(S), q # <<>>, NEW r, AddsUp(b, q, r)
  PROVE  AddsUp(b + Head(q).bytes, Tail(q), r)
<1> DEFINE n == Len(q)
           w == Tail(q)
           c == b + q[1].bytes
<1>1. n \in Nat \ {0} /\ Len(w) = n - 1 /\ \A k \in 1 .. n - 1 : w[k] = q[k + 1]
  BY HeadTail
<1>2. Head(q) = q[1]
  OBVIOUS
<1> HIDE DEF n, w
<1>3. \E p : IsSums(c, w, p)
  <2>1. PICK p : IsSums(b, q, p)
    BY DEF AddsUp
  <2>2. \A k \in 0 .. n : p[k] = IF k = 0 THEN b ELSE p[k - 1] + q[k].bytes
    BY <2>1 DEF IsSums, n
  <2> DEFINE f == [k \in 0 .. n - 1 |-> p[k + 1]]
  <2>3. ASSUME NEW k \in 0 .. n - 1
        PROVE  f[k] = IF k = 0 THEN c ELSE f[k - 1] + w[k].bytes
    <3>1. CASE k = 0
      <4>1. 0 \in 0 .. n /\ 1 \in 0 .. n /\ 1 # 0 /\ 1 - 1 = 0 /\ 0 + 1 = 1
        BY <1>1
      <4>2. p[0] = b /\ p[1] = p[0] + q[1].bytes
        BY <2>2, <4>1
      <4>3. f[k] = p[1]
        BY <3>1, <4>1
      <4> QED
        BY <3>1, <4>2, <4>3
    <3>2. CASE k # 0
      <4>1. /\ k + 1 \in 0 .. n /\ k + 1 # 0 /\ (k + 1) - 1 = k /\ (k - 1) + 1 = k
            /\ k - 1 \in 0 .. n - 1 /\ k \in 1 .. n - 1
        BY <1>1, <3>2
      <4>2. f[k] = p[k + 1] /\ f[k - 1] = p[k]
        BY <4>1
      <4>3. p[k + 1] = p[k] + q[k + 1].bytes
        BY <2>2, <4>1
      <4> QED
        BY <1>1, <3>2, <4>1, <4>2, <4>3
    <3> QED
      BY <3>1, <3>2
  <2>4. f = [k \in 0 .. Len(w) |-> IF k = 0 THEN c ELSE f[k - 1] + w[k].bytes]
    BY <1>1, <2>3
  <2> QED
    BY <2>4 DEF IsSums
<1>4. ASSUME NEW f, IsSums(c, w, f) PROVE f[Len(w)] = r
  <2>1. \A k \in 0 .. n - 1 : f[k] = IF k = 0 THEN c ELSE f[k - 1] + w[k].bytes
    BY <1>1, <1>4 DEF IsSums
  <2> DEFINE p == [k \in 0 .. n |-> IF k = 0 THEN b ELSE f[k - 1]]
  <2>2. ASSUME NEW k \in 0 .. n
        PROVE  p[k] = IF k = 0 THEN b ELSE p[k - 1] + q[k].bytes
    <3>1. CASE k = 0
      BY <3>1
    <3>2. CASE k = 1
      <4>1. 0 \in 0 .. n - 1 /\ 0 \in 0 .. n /\ 1 - 1 = 0 /\ k # 0
        BY <1>1, <3>2
      <4>2. f[0] = c /\ p[0] = b /\ p[k] = f[0]
        BY <2>1, <3>2, <4>1
      <4> QED
        BY <3>2, <4>1, <4>2
    <3>3. CASE k # 0 /\ k # 1
      <4>1. /\ k - 1 \in 0 .. n - 1 /\ k - 1 # 0 /\ k - 1 \in 0 .. n
            /\ k - 1 \in 1 .. n - 1 /\ (k - 1) + 1 = k
        BY <1>1, <3>3
      <4>2. p[k] = f[k - 1] /\ p[k - 1] = f[(k - 1) - 1]
        BY <3>3, <4>1
      <4>3. f[k - 1] = f[(k - 1) - 1] + w[k - 1].bytes /\ w[k - 1] = q[k]
        BY <1>1, <2>1, <4>1
      <4> QED
        BY <3>3, <4>2, <4>3
    <3> QED
      BY <3>1, <3>2, <3>3
  <2>3. IsSums(b, q, p)
    BY <2>2 DEF IsSums, n
  <2>4. p[n] = r
    BY <2>3 DEF AddsUp, n
  <2>5. p[n] = f[n - 1]
    BY <1>1
  <2> QED
    BY <1>1, <2>4, <2>5
<1> QED
  BY <1>2, <1>3, <1>4 DEF AddsUp, w

-----------------------------------------------------------------------------
\* The bytes of an end that its reports cover: everything once it has sent its
\* summary, all but what it counted since the last report before.
Reported(e) == IF at[e] = "ok" THEN total[e] ELSE total[e] - bytes[e]

\* The receiver is behind the sender even when a reset lost what was between.
Behind == total["receiver"] + drained + pipe <= total["sender"]

\* The summary is there when the worker has ended well, and is its total.
Summarised(e) == result[e] = IF at[e] = "ok" THEN total[e] ELSE Open

\* The reports an end has sent add up to what they cover.
Covered(e) == AddsUp(shown[e].bytes, port[e], Reported(e))

MeasureInv == Behind /\ \A e \in Ends : Summarised(e) /\ Covered(e)

\* An end that a step leaves alone.
Quiet(e) ==
  /\ total'[e] = total[e] /\ bytes'[e] = bytes[e] /\ port'[e] = port[e]
  /\ shown'[e] = shown[e] /\ result'[e] = result[e]
  /\ at'[e] = "ok" <=> at[e] = "ok"

\* Such an end keeps its summary and its sum.
LEMMA QuietKeeps ==
  ASSUME NEW e \in Ends, Quiet(e), Summarised(e), Covered(e)
  PROVE  Summarised(e)' /\ Covered(e)' /\ Reported(e)' = Reported(e)
<1>1. Reported(e)' = Reported(e)
  BY DEF Quiet, Reported
<1> QED
  BY <1>1 DEF Quiet, Summarised, Covered

\* Every step of a stream, seen from its statistics: both ends quiet, or one of
\* them and the other counts, reports, ends or has a report shown.
Counting(e, n) ==
  /\ at[e] = "io" /\ at'[e] \in {"head", "report"}
  /\ total'[e] = total[e] + n /\ bytes'[e] = bytes[e] + n
  /\ port'[e] = port[e] /\ shown'[e] = shown[e] /\ result'[e] = result[e]

Sending(e) ==
  /\ port'[e] = Append(port[e], [index |-> index[e], bytes |-> bytes[e]])
  /\ total'[e] = total[e] /\ shown'[e] = shown[e]

Reporting(e) ==
  /\ Sending(e) /\ bytes'[e] = 0 /\ result'[e] = result[e]
  /\ at[e] = "report" /\ at'[e] = "head"

Ending(e) ==
  /\ Sending(e) /\ bytes'[e] = bytes[e] /\ result'[e] = total[e]
  /\ at[e] = "flush" /\ at'[e] = "ok"

Showing(e) ==
  /\ port[e] # <<>> /\ port'[e] = Tail(port[e])
  /\ shown'[e].bytes = shown[e].bytes + Head(port[e]).bytes
  /\ total'[e] = total[e] /\ bytes'[e] = bytes[e] /\ result'[e] = result[e]
  /\ at'[e] = at[e]

\* One step changes the statistics of one end at most (run_worker, print_stats).
LEMMA StepsSeen ==
  ASSUME TypeOK, [Next]_vars
  PROVE  \/ \A e \in Ends : Quiet(e)
         \/ \E e \in Ends :
              /\ \A f \in Ends \ {e} : Quiet(f)
              /\ \/ \E n \in 1 .. Block : Counting(e, n)
                 \/ Reporting(e) \/ Ending(e) \/ Showing(e)
<1> DEFINE Goal == \/ \A e \in Ends : Quiet(e)
                   \/ \E e \in Ends :
                        /\ \A f \in Ends \ {e} : Quiet(f)
                        /\ \/ \E n \in 1 .. Block : Counting(e, n)
                           \/ Reporting(e) \/ Ending(e) \/ Showing(e)
<1>0. /\ at \in [Ends -> Places] /\ total \in [Ends -> Nat] /\ bytes \in [Ends -> Nat]
      /\ port \in [Ends -> Seq(Stats)] /\ result \in [Ends -> Nat \cup {Open}]
      /\ shown \in [Ends -> [count : Nat, bytes : Nat]]
  BY DEF TypeOK
<1>1. ASSUME UNCHANGED <<total, bytes, port, shown, result>>,
             \A e \in Ends : at'[e] = "ok" <=> at[e] = "ok"
      PROVE  Goal
  BY <1>1 DEF Quiet
<1>2. ASSUME NEW e \in Ends,
             AwaitStart(e) \/ Look(e) \/ Nothing(e) \/ Fails(e) \/ Slow(e)
      PROVE  Goal
  <2>1. /\ UNCHANGED <<total, bytes, port, shown, result>> /\ at[e] # "ok"
        /\ \E l \in Places \ {"ok"} : at' = [at EXCEPT ![e] = l]
    BY <1>2 DEF AwaitStart, Look, Nothing, Fails, Slow, TimesOut, Tick, Goto, Places,
                counters, statistics
  <2> QED
    BY <1>0, <1>1, <2>1
<1>3. ASSUME NEW e \in Ends, NEW n \in 1 .. Block, at[e] = "io", Count(e, n), Tick(e),
             UNCHANGED statistics
      PROVE  Goal
  <2>1. /\ total' = [total EXCEPT ![e] = total[e] + n]
        /\ bytes' = [bytes EXCEPT ![e] = bytes[e] + n]
        /\ UNCHANGED <<port, shown, result>>
        /\ \E l \in {"head", "report"} : at' = [at EXCEPT ![e] = l]
    BY <1>3 DEF Count, Counted, Tick, Goto, statistics
  <2>2. Counting(e, n)
    BY <1>0, <1>3, <2>1 DEF Counting
  <2>3. \A f \in Ends \ {e} : Quiet(f)
    BY <1>0, <2>1 DEF Quiet
  <2> QED
    BY <2>2, <2>3
<1>4. ASSUME NEW n \in 1 .. Block, Write(n) \/ Read(n) PROVE Goal
  BY <1>3, <1>4 DEF Write, Read, Ends
<1>5. ASSUME NEW e \in Ends, Report(e) PROVE Goal
  <2>1. Reporting(e)
    BY <1>0, <1>5 DEF Report, Send, BytesAfterReport, Goto, Reporting, Sending
  <2>2. \A f \in Ends \ {e} : Quiet(f)
    BY <1>0, <1>5 DEF Report, Send, Goto, Quiet
  <2> QED
    BY <2>1, <2>2
<1>6. ASSUME NEW e \in Ends, Flush(e) PROVE Goal
  <2>1. Ending(e)
    BY <1>0, <1>6 DEF Flush, Send, Goto, Ending, Sending, counters
  <2>2. \A f \in Ends \ {e} : Quiet(f)
    BY <1>0, <1>6 DEF Flush, Send, Goto, Quiet, counters
  <2> QED
    BY <2>1, <2>2
<1>7. ASSUME NEW e \in Ends, Show(e) PROVE Goal
  <2>1. Showing(e)
    BY <1>0, <1>7 DEF Show, Showing, counters
  <2>2. \A f \in Ends \ {e} : Quiet(f)
    BY <1>0, <1>7 DEF Show, Quiet, counters
  <2> QED
    BY <2>1, <2>2
<1>8. ASSUME NEW e \in Ends, Broadcast(e) \/ TimePasses(e) PROVE Goal
  BY <1>1, <1>8 DEF Broadcast, TimePasses, counters, statistics
<1>9. CASE Drain \/ Reset \/ UNCHANGED vars
  BY <1>1, <1>9 DEF Drain, Reset, vars, counters, statistics
<1> QED
  BY <1>2, <1>4, <1>5, <1>6, <1>7, <1>8, <1>9 DEF Next, WorkerStep

\* The bytes between the ends only become fewer by a read, a drain or a reset.
LEMMA BehindKept ==
  ASSUME TypeOK, Behind, [Next]_vars
  PROVE  Behind'
<1>0. /\ total["sender"] \in Nat /\ total["receiver"] \in Nat
      /\ pipe \in Nat /\ drained \in Nat
  BY StreamAssumption DEF TypeOK, Ends
<1>1. ASSUME NEW n \in 1 .. Block, Write(n) PROVE Behind'
  <2>1. /\ n \in Nat /\ pipe' = pipe + n /\ drained' = drained
        /\ total' = [total EXCEPT !["sender"] = total["sender"] + n]
    BY <1>1 DEF Write, Count, Counted
  <2>2. total'["sender"] = total["sender"] + n /\ total'["receiver"] = total["receiver"]
    BY <2>1 DEF TypeOK, Ends
  <2> QED
    BY <1>0, <2>1, <2>2 DEF Behind
<1>2. ASSUME NEW n \in 1 .. Block, Read(n) PROVE Behind'
  <2>1. /\ n \in Nat /\ pipe' = pipe - n /\ drained' = drained
        /\ total' = [total EXCEPT !["receiver"] = total["receiver"] + n]
    BY <1>2 DEF Read, Count, Counted
  <2>2. total'["receiver"] = total["receiver"] + n /\ total'["sender"] = total["sender"]
    BY <2>1 DEF TypeOK, Ends
  <2> QED
    BY <1>0, <2>1, <2>2 DEF Behind
<1>3. CASE Drain
  <2>1. PICK n \in 1 .. Block : n <= pipe /\ pipe' = pipe - n /\ drained' = drained + n
    BY <1>3 DEF Drain
  <2>2. total' = total
    BY <1>3 DEF Drain, counters
  <2> QED
    BY <1>0, <2>1, <2>2 DEF Behind
<1>4. CASE Reset
  <2>1. pipe' = 0 /\ drained' = drained /\ total' = total
    BY <1>4 DEF Reset, counters
  <2> QED
    BY <1>0, <2>1 DEF Behind
<1>5. ASSUME UNCHANGED <<total, pipe, drained>> PROVE Behind'
  BY <1>5 DEF Behind
<1> QED
  BY <1>1, <1>2, <1>3, <1>4, <1>5
  DEF Next, vars, WorkerStep, Broadcast, TimePasses, AwaitStart, Look, Nothing, Fails,
      Slow, Report, Flush, Show, counters, statistics, connection

\* What each kind of step does to the summary and the sum of its end.
LEMMA EndSteps ==
  ASSUME TypeOK, NEW e \in Ends, Summarised(e), Covered(e)
  PROVE  /\ \A n \in 1 .. Block : Counting(e, n) =>
              Summarised(e)' /\ Covered(e)' /\ Reported(e)' = Reported(e)
         /\ Reporting(e) => Summarised(e)' /\ Covered(e)' /\ Reported(e)' = total[e]
         /\ Ending(e)    => Summarised(e)' /\ Covered(e)' /\ Reported(e)' = total[e]
         /\ Showing(e)   => Summarised(e)' /\ Covered(e)' /\ Reported(e)' = Reported(e)
<1>0. total[e] \in Nat /\ bytes[e] \in Nat /\ port[e] \in Seq(Stats) /\ shown[e].bytes \in Nat
  BY DEF TypeOK
<1>1. ASSUME NEW n \in 1 .. Block, Counting(e, n)
      PROVE  Summarised(e)' /\ Covered(e)' /\ Reported(e)' = Reported(e)
  <2>1. Reported(e)' = Reported(e)
    BY <1>0, <1>1 DEF Counting, Reported
  <2>2. Summarised(e)'
    BY <1>1 DEF Counting, Summarised
  <2> QED
    BY <1>1, <2>1, <2>2 DEF Counting, Covered
<1>2. ASSUME Sending(e), at[e] # "ok", Reported(e)' = total[e]
      PROVE  Covered(e)'
  <2> DEFINE m == [index |-> index[e], bytes |-> bytes[e]]
  <2>1. m.bytes = bytes[e]
    OBVIOUS
  <2>2. port'[e] = Append(port[e], m) /\ shown'[e] = shown[e]
    BY <1>2 DEF Sending
  <2> HIDE DEF m
  <2>3. AddsUp(shown[e].bytes, Append(port[e], m), Reported(e) + m.bytes)
    BY <1>0, AppendSum DEF Covered
  <2>4. Reported(e) + m.bytes = total[e]
    BY <1>0, <1>2, <2>1 DEF Reported
  <2> QED
    BY <1>2, <2>2, <2>3, <2>4 DEF Covered
<1>3. ASSUME Reporting(e)
      PROVE  Summarised(e)' /\ Covered(e)' /\ Reported(e)' = total[e]
  <2>1. Reported(e)' = total[e]
    BY <1>0, <1>3 DEF Reporting, Sending, Reported
  <2>2. Summarised(e)'
    BY <1>3 DEF Reporting, Summarised
  <2> QED
    BY <1>2, <1>3, <2>1, <2>2 DEF Reporting
<1>4. ASSUME Ending(e)
      PROVE  Summarised(e)' /\ Covered(e)' /\ Reported(e)' = total[e]
  <2>1. Reported(e)' = total[e]
    BY <1>4 DEF Ending, Sending, Reported
  <2>2. Summarised(e)'
    BY <1>4 DEF Ending, Sending, Summarised
  <2> QED
    BY <1>2, <1>4, <2>1, <2>2 DEF Ending
<1>5. ASSUME Showing(e)
      PROVE  Summarised(e)' /\ Covered(e)' /\ Reported(e)' = Reported(e)
  <2>1. Reported(e)' = Reported(e)
    BY <1>5 DEF Showing, Reported
  <2>2. Summarised(e)'
    BY <1>5 DEF Showing, Summarised
  <2>3. AddsUp(shown[e].bytes + Head(port[e]).bytes, Tail(port[e]), Reported(e))
    BY <1>0, <1>5, ShowSum DEF Showing, Covered
  <2> QED
    BY <1>5, <2>1, <2>2, <2>3 DEF Showing, Covered
<1> QED
  BY <1>1, <1>3, <1>4, <1>5

\* The sums, the summaries and the order of the two ends are kept by every step.
LEMMA MeasureInductive == TypeOK /\ MeasureInv /\ [Next]_vars => MeasureInv'
<1> SUFFICES ASSUME TypeOK, MeasureInv, [Next]_vars PROVE MeasureInv'
  OBVIOUS
<1>1. Behind'
  BY BehindKept DEF MeasureInv
<1>2. ASSUME NEW e \in Ends PROVE Summarised(e) /\ Covered(e)
  BY DEF MeasureInv
<1>3. ASSUME NEW e \in Ends PROVE Summarised(e)' /\ Covered(e)'
  <2>1. CASE Quiet(e)
    BY <1>2, <2>1, QuietKeeps
  <2>2. CASE \E n \in 1 .. Block : Counting(e, n)
    BY <1>2, <2>2, EndSteps
  <2>3. CASE Reporting(e) \/ Ending(e) \/ Showing(e)
    BY <1>2, <2>3, EndSteps
  <2> QED
    BY <2>1, <2>2, <2>3, StepsSeen
<1> QED
  BY <1>1, <1>3 DEF MeasureInv

\* Every step of a stream is one of Measurement or leaves its variables alone.
LEMMA MeasureStep ==
  ASSUME TypeOK, MeasureInv, MeasureInv', [Next]_vars
  PROVE  [Promise!Next]_<<total, [e \in Ends |-> SumOf(shown[e].bytes, port[e])], result>>
<1> DEFINE rep == [e \in Ends |-> SumOf(shown[e].bytes, port[e])]
<1>0. /\ at \in [Ends -> Places] /\ total \in [Ends -> Nat]
      /\ result \in [Ends -> Nat \cup {Open}]
  BY DEF TypeOK
<1>1. total' \in [Ends -> Nat] /\ result' \in [Ends -> Nat \cup {Open}]
  BY TypeInductive DEF TypeOK
<1>2. rep = [e \in Ends |-> Reported(e)]
  BY SumIs DEF MeasureInv, Covered
<1>3. rep' = [e \in Ends |-> Reported(e)']
  BY SumIs DEF MeasureInv, Covered
<1> HIDE DEF rep
<1>4. ASSUME NEW e \in Ends PROVE Summarised(e) /\ Covered(e) /\ Summarised(e)'
  BY DEF MeasureInv
<1>5. ASSUME NEW e \in Ends, \A f \in Ends \ {e} : Quiet(f)
      PROVE  /\ total'  = [total EXCEPT ![e] = total'[e]]
             /\ result' = [result EXCEPT ![e] = result'[e]]
             /\ rep'    = [rep EXCEPT ![e] = Reported(e)']
  <2>1. \A f \in Ends \ {e} :
          total'[f] = total[f] /\ result'[f] = result[f] /\ Reported(f)' = Reported(f)
    BY <1>4, <1>5, QuietKeeps DEF Quiet
  <2> QED
    BY <1>0, <1>1, <1>2, <1>3, <2>1
<1>6. CASE \A e \in Ends : Quiet(e)
  <2>1. total' = total /\ result' = result
    BY <1>0, <1>1, <1>6 DEF Quiet
  <2>2. rep' = rep
    BY <1>2, <1>3, <1>4, <1>6, QuietKeeps
  <2> QED
    BY <2>1, <2>2 DEF rep
<1>7. ASSUME NEW e \in Ends, \A f \in Ends \ {e} : Quiet(f),
             NEW n \in 1 .. Block, Counting(e, n)
      PROVE  Promise!Count(e)
  <2>1. result[e] = Open /\ total'[e] > total[e] /\ result'[e] = result[e]
    BY <1>0, <1>4, <1>7 DEF Counting, Summarised
  <2>2. rep' = rep
    <3>1. Reported(e)' = Reported(e)
      BY <1>4, <1>7, EndSteps
    <3> QED
      BY <1>2, <1>5, <1>7, <3>1
  <2>3. result' = result /\ total' = [total EXCEPT ![e] = total'[e]]
    BY <1>0, <1>5, <1>7, <2>1
  <2>4. ASSUME e = "receiver" PROVE total'[e] <= total["sender"]
    <3>1. total'["sender"] = total["sender"]
      BY <1>7, <2>4 DEF Quiet, Ends
    <3>2. Behind' /\ pipe' \in Nat /\ drained' \in Nat
      BY TypeInductive, StreamAssumption DEF MeasureInv, TypeOK
    <3>3. total'["receiver"] \in Nat /\ total'["sender"] \in Nat
      BY <1>1 DEF Ends
    <3>4. total'["receiver"] <= total'["sender"]
      BY <3>2, <3>3 DEF Behind
    <3> QED
      BY <2>4, <3>1, <3>4
  <2> QED
    BY <2>1, <2>2, <2>3, <2>4 DEF Promise!Count, Promise!Open, Open, rep
<1>8. ASSUME NEW e \in Ends, \A f \in Ends \ {e} : Quiet(f), Reporting(e)
      PROVE  Promise!Report(e)
  <2>1. result[e] = Open /\ Reported(e)' = total[e]
    BY <1>4, <1>8, EndSteps DEF Reporting, Summarised
  <2>2. total' = total /\ result' = result /\ rep' = [rep EXCEPT ![e] = total[e]]
    BY <1>0, <1>5, <1>8, <2>1 DEF Reporting, Sending
  <2> QED
    BY <2>1, <2>2 DEF Promise!Report, Promise!Open, Open, rep
<1>9. ASSUME NEW e \in Ends, \A f \in Ends \ {e} : Quiet(f), Ending(e)
      PROVE  Promise!Finish(e)
  <2>1. result[e] = Open /\ Reported(e)' = total[e] /\ result'[e] = total[e]
    BY <1>4, <1>9, EndSteps DEF Ending, Summarised
  <2>2. /\ total' = total /\ result' = [result EXCEPT ![e] = total[e]]
        /\ rep' = [rep EXCEPT ![e] = total[e]]
    BY <1>0, <1>5, <1>9, <2>1 DEF Ending, Sending
  <2> QED
    BY <2>1, <2>2 DEF Promise!Finish, Promise!Open, Open, rep
<1>10. ASSUME NEW e \in Ends, \A f \in Ends \ {e} : Quiet(f), Showing(e)
       PROVE  UNCHANGED <<total, rep, result>>
  <2>1. Reported(e)' = Reported(e)
    BY <1>4, <1>10, EndSteps
  <2>2. rep' = rep
    BY <1>2, <1>5, <1>10, <2>1
  <2>3. total' = total /\ result' = result
    BY <1>0, <1>5, <1>10 DEF Showing
  <2> QED
    BY <2>2, <2>3
<1> QED
  BY <1>6, <1>7, <1>8, <1>9, <1>10, StepsSeen DEF Promise!Next, Promise!Ends, Ends, rep

\* A stream implements Measurement: each end's reports add up to what it had
\* counted when the last of them was sent, its summary is their sum, and the
\* receiver never counts more than the sender (run_worker, print_stats).
THEOREM StreamMeasures == Spec => Measures
<1>1. Init => MeasureInv
  <2> SUFFICES ASSUME Init PROVE MeasureInv
    OBVIOUS
  <2>1. Behind
    BY DEF Init, Behind, Ends
  <2>2. ASSUME NEW e \in Ends PROVE Summarised(e) /\ Covered(e)
    <3>1. Summarised(e)
      BY DEF Init, Summarised
    <3>2. port[e] = <<>> /\ port[e] \in Seq(Stats) /\ Len(port[e]) = 0
      BY DEF Init
    <3>3. shown[e].bytes = 0 /\ Reported(e) = 0
      BY DEF Init, Reported
    <3> QED
      BY <3>1, <3>2, <3>3, EmptySum DEF Covered
  <2> QED
    BY <2>1, <2>2 DEF MeasureInv
<1>2. Init => Promise!Init
  <2> SUFFICES ASSUME Init PROVE Promise!Init
    OBVIOUS
  <2>1. ASSUME NEW e \in Ends PROVE SumOf(shown[e].bytes, port[e]) = 0
    <3>1. port[e] = <<>> /\ port[e] \in Seq(Stats) /\ Len(port[e]) = 0
      BY DEF Init
    <3>2. shown[e].bytes = 0
      BY DEF Init
    <3>3. AddsUp(0, port[e], 0)
      BY <3>1, EmptySum
    <3> QED
      BY <3>2, <3>3, SumIs
  <2> QED
    BY <2>1 DEF Init, Promise!Init, Promise!Ends, Ends, Promise!Open, Open
<1>3. TypeOK /\ MeasureInv /\ [Next]_vars => MeasureInv'
  BY MeasureInductive
<1>4. TypeOK /\ MeasureInv /\ MeasureInv' /\ [Next]_vars
        => [Promise!Next]_<<total, [e \in Ends |-> SumOf(shown[e].bytes, port[e])], result>>
  BY MeasureStep
<1> QED
  BY <1>1, <1>2, <1>3, <1>4, StreamTypeCorrect, PTL DEF Spec, Measures, Promise!Spec
=============================================================================
