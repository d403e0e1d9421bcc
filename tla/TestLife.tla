------------------------------ MODULE TestLife ------------------------------
(***************************************************************************)
(* What one test promises to the two programs that run it, whatever        *)
(* happens to them on the way: the server leads through the phases one by  *)
(* one, the client follows, either may cut the test short, and who         *)
(* completes it holds the other side's results.                            *)
(***************************************************************************)
EXTENDS Naturals

CONSTANT Streams

VARIABLES
  said,       \* the last phase the server announced
  phase,      \* the phase each side is in
  have,       \* the streams whose results a side has
  peer,       \* what it learned of the other side's
  outcome     \* of the test, on each side

vars == <<said, phase, have, peer, outcome>>

Sides    == {"client", "server"}
Other(r) == IF r = "client" THEN "server" ELSE "client"

\* The phases that another one follows.
After == [Start |-> "CreateStreams", CreateStreams |-> "Running",
          Running |-> "ExchangeResults"]

Rank == [Start |-> 0, CreateStreams |-> 1, Running |-> 2,
         ExchangeResults |-> 3, Terminate |-> 4]

Init ==
  /\ said = "Start"
  /\ phase = [r \in Sides |-> "Start"]
  /\ have = [r \in Sides |-> {}] /\ peer = [r \in Sides |-> {}]
  /\ outcome = [r \in Sides |-> "open"]

\* A result comes in; none after the other side completed the test.
Gather(r) ==
  /\ outcome[Other(r)] # "complete"
  /\ \E i \in Streams : have' = [have EXCEPT ![r] = @ \cup {i}]

\* The server announces the next phase, the exchange only with all results.
Announce(s) ==
  /\ phase["server"] = said /\ said \in DOMAIN After
  /\ s \in {After[said], "Terminate"}
  /\ s = "ExchangeResults" => have'["server"] = Streams
  /\ said' = s
  /\ UNCHANGED <<phase, peer, outcome>>

Lead ==
  /\ phase' = [phase EXCEPT !["server"] = said]
  /\ UNCHANGED <<said, peer, outcome>>

\* The client goes where the server was before, or stops.
Follow(s) ==
  /\ phase["client"] \in DOMAIN After
  /\ s \in {After[phase["client"]], "Terminate"}
  /\ s # "Terminate" => Rank[s] <= Rank[said]
  /\ s = "ExchangeResults" => have["server"] = Streams
  /\ phase' = [phase EXCEPT !["client"] = s]
  /\ UNCHANGED <<said, peer, outcome>>

Learn(r) ==
  /\ phase = [q \in Sides |-> "ExchangeResults"]
  /\ peer' = [peer EXCEPT ![r] = have[Other(r)]]

\* The client completes the test after the server.
Complete(r) ==
  /\ phase[r] = "ExchangeResults"
  /\ r = "client" => outcome["server"] = "complete"
  /\ peer'[r] = have[Other(r)]
  /\ outcome' = [outcome EXCEPT ![r] = "complete"]
  /\ UNCHANGED <<said, phase>>

CutShort(r) ==
  /\ outcome' = [outcome EXCEPT ![r] = "cut"]
  /\ UNCHANGED <<said, phase, peer>>

Step(r) ==
  /\ outcome[r] = "open"
  /\ UNCHANGED have \/ Gather(r)
  /\ \/ r = "server" /\ ((\E s \in DOMAIN Rank : Announce(s)) \/ Lead)
     \/ r = "client" /\ \E s \in DOMAIN Rank : Follow(s)
     \/ Learn(r) /\ UNCHANGED <<said, phase, outcome>>
     \/ Complete(r) /\ (UNCHANGED peer \/ Learn(r))
     \/ CutShort(r)
     \/ UNCHANGED <<said, phase, peer, outcome>>

Next == \E r \in Sides : Step(r)

Spec == Init /\ [][Next]_vars
=============================================================================
