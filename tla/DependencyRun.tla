--------------------------- MODULE DependencyRun ----------------------------
(***************************************************************************)
(* What `needs:` promises, whatever order the jobs are taken in: a job     *)
(* runs only after everything it needs has succeeded, it is skipped only   *)
(* after everything it needs is settled and something of it did not        *)
(* succeed, and a settled job is never settled again.  WorkflowRun         *)
(* implements it (property RespectsNeeds there).                           *)
(***************************************************************************)

CONSTANTS Job,          \* the workflow's jobs
          Unknown       \* a name in a needs: list that is no job

VARIABLES needs,        \* needs[j]: the names in j's needs: list
          result        \* result[j]: "pending" until j is settled

vars == <<needs, result>>

Results == {"success", "failure", "skipped"}

Succeeded(d) == d \in Job /\ result[d] = "success"

Settled(d) == d \in Job /\ result[d] \in Results

Init ==
  /\ needs \in [Job -> SUBSET (Job \cup {Unknown})]
  /\ result = [j \in Job |-> "pending"]

Run(j, r) ==
  /\ result[j] = "pending"
  /\ \A d \in needs[j] : Succeeded(d)
  /\ result' = [result EXCEPT ![j] = r]
  /\ UNCHANGED needs

Skip(j) ==
  /\ result[j] = "pending"
  /\ \A d \in needs[j] : Settled(d)
  /\ \E d \in needs[j] : ~Succeeded(d)
  /\ result' = [result EXCEPT ![j] = "skipped"]
  /\ UNCHANGED needs

Next == \E j \in Job : Skip(j) \/ \E r \in {"success", "failure"} : Run(j, r)

Spec == Init /\ [][Next]_vars
=============================================================================
