--------------------------- MODULE MCWorkflowRun ----------------------------
(* Constants for model-checking WorkflowRun. *)
EXTENDS WorkflowRun

\* Every graph over four jobs with at most two needs each, cycles and
\* self-dependencies included; the last job may also need an unknown name.
SmallGraphs ==
  {g \in [Job -> {S \in SUBSET (Job \cup {Unknown}) : Cardinality(S) <= 2}] :
     \A j \in 1..N - 1 : Unknown \notin g[j]}
=============================================================================
