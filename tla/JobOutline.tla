----------------------------- MODULE JobOutline -----------------------------
(***************************************************************************)
(* RunJob as the matrix fan-out sees it: step processes one after another, *)
(* none of which starts once the job's context is done, and then a success,*)
(* a failure or an error.  MatrixRun's RunStep, StepEnds and JobReturns    *)
(* are these actions; JobRun implements them (property FitsTheMatrix).     *)
(***************************************************************************)
CONSTANT None

VARIABLES place,        \* "run" between processes, "exec" inside one, "done"
          ctxDone,      \* the context RunJob was given is done
          outcome       \* what RunJob returned

vars == <<place, ctxDone, outcome>>

Init == place = "run" /\ ctxDone = FALSE /\ outcome = None

RunStep ==
  /\ place = "run" /\ ~ctxDone
  /\ place' = "exec"
  /\ UNCHANGED <<ctxDone, outcome>>

StepEnds ==
  /\ place = "exec"
  /\ place' = "run"
  /\ UNCHANGED <<ctxDone, outcome>>

JobReturns ==
  /\ place = "run"
  /\ place' = "done"
  /\ outcome' \in {"success", "failure", "error"}
  /\ UNCHANGED ctxDone

ContextEnds ==
  /\ ctxDone' = TRUE
  /\ UNCHANGED <<place, outcome>>

Next == RunStep \/ StepEnds \/ JobReturns \/ ContextEnds

Spec == Init /\ [][Next]_vars
=============================================================================
