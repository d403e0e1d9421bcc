----------------------------- MODULE ServerLife -----------------------------
(***************************************************************************)
(* What a server promises over its tests: one runs at a time; their        *)
(* statistics are printed test by test, in the order in which the tests    *)
(* were made and without losing a report, those of workers included that   *)
(* outlive their test; and the program returns when all of them are.       *)
(***************************************************************************)
EXTENDS Naturals, Sequences

CONSTANT Tests

VARIABLES
  running,    \* the tests whose controller runs
  writing,    \* the tests that may still report something
  queue,      \* the tests being printed and waiting for it, in order
  pending,    \* the reports of a test that are not printed yet
  printed,    \* the tests that were printed to the end
  returned    \* the program has returned

vars == <<running, writing, queue, pending, printed, returned>>

Init ==
  /\ running = {} /\ writing = {} /\ queue = <<>>
  /\ pending = [t \in Tests |-> 0]
  /\ printed = {} /\ returned = FALSE

\* A new test, while no other runs and at most one is not printed yet.
Begin(t) ==
  /\ ~returned /\ running = {} /\ Len(queue) <= 1
  /\ t \notin printed /\ \A i \in DOMAIN queue : queue[i] # t
  /\ running' = {t} /\ writing' = writing \cup {t}
  /\ queue' = Append(queue, t)
  /\ UNCHANGED <<pending, printed, returned>>

\* A test goes on: it may report, its controller may end, its last writer too.
Work(t) ==
  /\ ~returned /\ t \in writing
  /\ pending' \in {pending, [pending EXCEPT ![t] = @ + 1]}
  /\ running' \in {running, running \ {t}}
  /\ writing' \in {writing, writing \ {t}}
  /\ running' \subseteq writing'
  /\ UNCHANGED <<queue, printed, returned>>

PrintReport ==
  /\ ~returned /\ queue # <<>> /\ pending[Head(queue)] > 0
  /\ pending' = [pending EXCEPT ![Head(queue)] = @ - 1]
  /\ UNCHANGED <<running, writing, queue, printed, returned>>

\* The end of a test's statistics.
Printed ==
  /\ ~returned /\ queue # <<>>
  /\ Head(queue) \notin writing /\ pending[Head(queue)] = 0
  /\ queue' = Tail(queue) /\ printed' = printed \cup {Head(queue)}
  /\ UNCHANGED <<running, writing, pending, returned>>

Return ==
  /\ ~returned /\ queue = <<>> /\ writing = {}
  /\ returned' = TRUE
  /\ UNCHANGED <<running, writing, queue, pending, printed>>

Next == (\E t \in Tests : Begin(t) \/ Work(t)) \/ PrintReport \/ Printed \/ Return

Spec == Init /\ [][Next]_vars
=============================================================================
