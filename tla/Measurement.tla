----------------------------- MODULE Measurement -----------------------------
(***************************************************************************)
(* What a data stream promises to whoever reads its statistics: each end   *)
(* counts bytes, the receiver never more than the sender; its reports add  *)
(* up to what it had counted; and the summary of an end that finishes is   *)
(* the sum of its reports.                                                 *)
(***************************************************************************)
EXTENDS Integers

Ends == {"sender", "receiver"}
Open == -1              \* no summary yet

VARIABLES
  counted,    \* bytes an end has counted
  reported,   \* the sum of its reports
  summary     \* its final result, or Open

Init ==
  /\ counted  = [e \in Ends |-> 0]
  /\ reported = [e \in Ends |-> 0]
  /\ summary  = [e \in Ends |-> Open]

Count(e) ==
  /\ summary[e] = Open
  /\ counted'[e] > counted[e]
  /\ counted' = [counted EXCEPT ![e] = counted'[e]]
  /\ e = "receiver" => counted'[e] <= counted["sender"]
  /\ UNCHANGED <<reported, summary>>

Report(e) ==
  /\ summary[e] = Open
  /\ reported' = [reported EXCEPT ![e] = counted[e]]
  /\ UNCHANGED <<counted, summary>>

Finish(e) ==
  /\ summary[e] = Open
  /\ reported' = [reported EXCEPT ![e] = counted[e]]
  /\ summary'  = [summary EXCEPT ![e] = counted[e]]
  /\ UNCHANGED counted

Next == \E e \in Ends : Count(e) \/ Report(e) \/ Finish(e)

Spec == Init /\ [][Next]_<<counted, reported, summary>>
=============================================================================
