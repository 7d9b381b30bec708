---------------------------- MODULE MCMatrixRun -----------------------------
(* Constants for model-checking MatrixRun. *)
EXTENDS MatrixRun

CONSTANT g1

Config(failFast, maxParallel, timeout, preempt, groups) ==
  [failFast |-> failFast, maxParallel |-> maxParallel, timeout |-> timeout,
   preempt |-> preempt, groupOf |-> groups]

\* Three combinations that all share one group.
OneGroup == [i \in Combos |-> g1]

\* Two share a group; the expression of the last cannot be evaluated.
Mixed == [i \in Combos |-> IF i = N THEN BadGroup ELSE g1]

\* A combination without a group between two that share one.
Gap == [i \in Combos |-> IF i = 2 THEN NoGroup ELSE g1]

MCJobs == {Config(TRUE, 0, TRUE, FALSE, OneGroup),
           Config(FALSE, 0, FALSE, TRUE, OneGroup),
           Config(TRUE, 2, TRUE, TRUE, Gap),
           Config(TRUE, 1, FALSE, FALSE, Mixed),
           Config(FALSE, 2, FALSE, FALSE, Mixed)}

\* Four combinations of one preempting group, default parallelism.
PreemptingJobs == {Config(TRUE, 0, FALSE, TRUE, OneGroup)}
=============================================================================
