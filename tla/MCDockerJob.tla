---------------------------- MODULE MCDockerJob -----------------------------
(* Constants for model-checking DockerJob. *)
EXTENDS DockerJob

\* Two services, the second with a health check.
TwoServices == <<"cache", "db">>
=============================================================================
