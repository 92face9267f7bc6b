----------------------------- MODULE TestRunner -----------------------------
(***************************************************************************)
(* What the TestSequence runner and ParallelSteps promise, with the steps' *)
(* work left out: the entries of a sequence run one at a time; a group's   *)
(* steps run concurrently and the group returns only after every one of    *)
(* them has ended, with nil if none returned an error and otherwise the    *)
(* error of one that did; an error, or a t.Fatalf on the test goroutine,   *)
(* ends the test, while a t.Fatalf in a group's goroutine fails the test   *)
(* but ends only that step.                                                *)
(***************************************************************************)
EXTENDS Integers, Sequences, FiniteSets

CONSTANTS Steps, Tests, StepErrors, NoErr, Pending

VARIABLES testSeq, status, ret, cur, phase, groupResult, failed

vars == <<testSeq, status, ret, cur, phase, groupResult, failed>>

Group == testSeq[cur]
IsParallel(G) == Cardinality(G) > 1

Init ==
  /\ testSeq \in Tests
  /\ status = [s \in Steps |-> "idle"]
  /\ ret = [s \in Steps |-> NoErr]
  /\ cur = 1
  /\ phase = "launch"
  /\ groupResult = [i \in DOMAIN testSeq |-> Pending]
  /\ failed = FALSE

\* the runner starts the entry's steps
Start ==
  /\ phase = "launch"
  /\ status' = [s \in Steps |-> IF s \in Group THEN "running" ELSE status[s]]
  /\ phase' = "join"
  /\ UNCHANGED <<testSeq, ret, cur, groupResult, failed>>

\* a running step's Execute returns nil or an error
StepReturn(s) ==
  /\ status[s] = "running"
  /\ \E e \in StepErrors \cup {NoErr} : ret' = [ret EXCEPT ![s] = e]
  /\ status' = [status EXCEPT ![s] = "ended"]
  /\ UNCHANGED <<testSeq, cur, phase, groupResult, failed>>

\* a running step calls t.Fatalf: the test is failed; on the test's own
\* goroutine the test stops there
StepFatal(s) ==
  /\ status[s] = "running"
  /\ status' = [status EXCEPT ![s] = "ended"]
  /\ failed' = TRUE
  /\ phase' = IF IsParallel(Group) THEN phase ELSE "over"
  /\ UNCHANGED <<testSeq, ret, cur, groupResult>>

\* the errors the entry's steps returned
GroupErrors == {ret[s] : s \in Group} \ {NoErr}

\* once every step of the entry ended, the entry returns; an error is fatal,
\* otherwise the runner goes on with the next entry
Join ==
  /\ phase = "join"
  /\ \A s \in Group : status[s] = "ended"
  /\ \E res \in IF GroupErrors = {} THEN {NoErr} ELSE GroupErrors :
       /\ groupResult' = [groupResult EXCEPT ![cur] = res]
       /\ \/ /\ res # NoErr
             /\ failed' = TRUE
             /\ phase' = "over"
             /\ UNCHANGED cur
          \/ /\ res = NoErr /\ cur = Len(testSeq)
             /\ phase' = "over"
             /\ UNCHANGED <<cur, failed>>
          \/ /\ res = NoErr /\ cur < Len(testSeq)
             /\ cur' = cur + 1
             /\ phase' = "launch"
             /\ UNCHANGED failed
  /\ UNCHANGED <<testSeq, status, ret>>

Next ==
  \/ Start
  \/ Join
  \/ \E s \in Steps : StepReturn(s) \/ StepFatal(s)

\* every step ends and the runner always moves on
Spec == Init /\ [][Next]_vars /\ WF_vars(Start \/ Join)
          /\ \A s \in Steps : WF_vars(StepReturn(s) \/ StepFatal(s))
=============================================================================
