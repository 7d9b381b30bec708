--------------------------- MODULE MatrixStrategy ---------------------------
(***************************************************************************)
(* What a job's `strategy:` promises, without goroutines, channels or      *)
(* locks: the combinations of one job start at most capacity at a time,    *)
(* none starts once fail-fast has seen a failure, those that did not start *)
(* by then are skipped, and the job concludes when none is left.           *)
(* MatrixRun implements it (property Refines there).                       *)
(***************************************************************************)
EXTENDS Naturals, FiniteSets

CONSTANTS Combos

VARIABLES failFast,     \* the strategy's fail-fast
          capacity,     \* how many combinations may run at once
          phase,        \* phase[i]: what has become of combination i
          conclusion    \* "running" until the job concludes

vars == <<failFast, capacity, phase, conclusion>>

Outcomes == {"success", "failure", "error"}

Terminal == Outcomes \cup {"skipped"}

Running == {i \in Combos : phase[i] = "running"}

\* fail-fast: a failure, not an infrastructure error, stops further starts.
Stopped == failFast /\ \E j \in Combos : phase[j] = "failure"

Init ==
  /\ failFast \in BOOLEAN
  /\ capacity \in Nat \ {0}
  /\ phase = [i \in Combos |-> "pending"]
  /\ conclusion = "running"

Start(i) ==
  /\ phase[i] = "pending"
  /\ ~Stopped
  /\ Cardinality(Running) < capacity
  /\ phase' = [phase EXCEPT ![i] = "running"]
  /\ UNCHANGED <<failFast, capacity, conclusion>>

Skip(i) ==
  /\ phase[i] = "pending"
  /\ Stopped
  /\ phase' = [phase EXCEPT ![i] = "skipped"]
  /\ UNCHANGED <<failFast, capacity, conclusion>>

Finish(i, outcome) ==
  /\ phase[i] = "running"
  /\ phase' = [phase EXCEPT ![i] = outcome]
  /\ UNCHANGED <<failFast, capacity, conclusion>>

\* An error is the whole run's; otherwise one failure fails the job, and
\* the job succeeds when every combination ran and succeeded.
Conclude ==
  /\ conclusion = "running"
  /\ \A i \in Combos : phase[i] \in Terminal
  /\ conclusion' = IF \E i \in Combos : phase[i] = "error" THEN "error"
                   ELSE IF \A i \in Combos : phase[i] = "success" THEN "success"
                   ELSE "failure"
  /\ UNCHANGED <<failFast, capacity, phase>>

Next ==
  \/ \E i \in Combos : Start(i) \/ Skip(i) \/ \E o \in Outcomes : Finish(i, o)
  \/ Conclude

Spec == Init /\ [][Next]_vars
=============================================================================
