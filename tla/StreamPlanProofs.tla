-------------------------- MODULE StreamPlanProofs --------------------------
(***************************************************************************)
(* The two ends of a test agree on the streams without talking about them: *)
(* for every direction and every u16 number of parallel streams.           *)
(***************************************************************************)
EXTENDS StreamPlan, TLAPS

\* U16 stays folded below: the proofs need only that it is positive.
LEMMA U16Positive == U16 \in Nat /\ U16 > 0
  BY SMT DEF U16

LEMMA Remainders ==
  ASSUME NEW n \in Nat, n > 0, NEW m \in Nat
  PROVE  m % n \in 0 .. n - 1 /\ (m < n => m % n = m)
  BY SMT

\* The number of streams is a natural number that a u16 holds.
LEMMA TotalIsU16 ==
  ASSUME NEW role \in Roles, NEW dir \in Directions, NEW p \in 0 .. U16 - 1
  PROVE  TotalNeeded(role, dir, p) \in 0 .. U16 - 1
<1> DEFINE n == NumSend(role, dir, p) + NumReceive(role, dir, p)
<1>1. p \in Nat
  BY U16Positive
<1>2. n \in Nat
  BY <1>1 DEF NumSend, NumReceive
<1>3. n % U16 \in 0 .. U16 - 1
  BY <1>2, U16Positive, Remainders
<1>4. QED
  BY <1>3 DEF TotalNeeded

\* Both ends wait for the same number of streams: the swap of the counters in
\* Perf::new_with_stats_receiver does not change their sum.
THEOREM SameTotal ==
  ASSUME NEW dir \in Directions, NEW p \in 0 .. U16 - 1
  PROVE  TotalNeeded("server", dir, p) = TotalNeeded("client", dir, p)
<1>1. /\ NumSend("server", dir, p) = NumReceive("client", dir, p)
      /\ NumReceive("server", dir, p) = NumSend("client", dir, p)
  BY DEF NumSend, NumReceive, Directions
<1>2. p \in Nat
  BY U16Positive
<1>3. NumSend("client", dir, p) \in Nat /\ NumReceive("client", dir, p) \in Nat
  BY <1>2 DEF NumSend, NumReceive
<1>4. NumSend("server", dir, p) + NumReceive("server", dir, p)
        = NumSend("client", dir, p) + NumReceive("client", dir, p)
  BY <1>1, <1>3
<1>5. QED
  BY <1>4 DEF TotalNeeded

\* A one-way test opens `parallel' streams (no wrap-around is possible).
LEMMA OneWayTotal ==
  ASSUME NEW dir \in Directions \ {"Bidirectional"}, NEW p \in 0 .. U16 - 1
  PROVE  TotalNeeded("client", dir, p) = p
<1>1. p \in Nat /\ p < U16
  BY U16Positive
<1>2. NumSend("client", dir, p) + NumReceive("client", dir, p) = p
  BY <1>1 DEF NumSend, NumReceive, Directions
<1>3. p % U16 = p
  BY <1>1, U16Positive, Remainders
<1>4. QED
  BY <1>2, <1>3 DEF TotalNeeded

\* Of the two ends of stream i exactly one sends, so that no stream is idle and
\* none has two writers (create_and_register_stream_worker on both sides).
THEOREM ExactlyOneEndSends ==
  ASSUME NEW dir \in Directions, NEW p \in 0 .. U16 - 1,
         NEW i \in 0 .. TotalNeeded("client", dir, p) - 1
  PROVE  IsSending("server", dir, p, i) # IsSending("client", dir, p, i)
<1>1. TotalNeeded("client", dir, p) \in Nat
  BY TotalIsU16, U16Positive DEF Roles
<1>2. i \in Nat /\ i < TotalNeeded("client", dir, p)
  BY <1>1
<1>3. CASE dir = "Bidirectional"
  BY <1>3 DEF IsSending, NumSend
<1>4. CASE dir = "ClientToServer"
  <2>1. i < p
    BY <1>2, <1>4, OneWayTotal DEF Directions
  <2>2. QED
    BY <1>2, <1>4, <2>1, U16Positive DEF IsSending, NumSend
<1>5. CASE dir = "ServerToClient"
  <2>1. i < p
    BY <1>2, <1>5, OneWayTotal DEF Directions
  <2>2. QED
    BY <1>2, <1>5, <2>1, U16Positive DEF IsSending, NumSend
<1>6. QED
  BY <1>3, <1>4, <1>5 DEF Directions
=============================================================================
