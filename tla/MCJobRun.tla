------------------------------ MODULE MCJobRun ------------------------------
(* Constants for model-checking JobRun. *)
EXTENDS JobRun, TLC

S(id, cond, continueOnError, uses) ==
  [id |-> id, cond |-> cond, continueOnError |-> continueOnError, uses |-> uses]

\* step-0 and step-1 are the ids of unnamed steps, in every scope.
MCIds == {"step-0", "step-1", "step-2"}

\* A node action with a post that always runs, one whose post is for
\* success() only, a docker action, a composite that handles a failure and
\* then uses a node action, and a composite that uses itself.
MCAction ==
  [cache  |-> [kind |-> "node", post |-> "none", body |-> <<>>],
   saver  |-> [kind |-> "node", post |-> "success", body |-> <<>>],
   lint   |-> [kind |-> "docker", post |-> None, body |-> <<>>],
   setup  |-> [kind |-> "composite", post |-> None,
               body |-> <<S("step-0", "none", TRUE, None),
                          S("step-1", "failure", FALSE, "saver")>>],
   nested |-> [kind |-> "composite", post |-> None,
               body |-> <<S("step-0", "none", FALSE, "cache")>>],
   loop   |-> [kind |-> "composite", post |-> None,
               body |-> <<S("step-0", "success", FALSE, None),
                          S("step-1", "none", FALSE, "loop")>>]]

\* Every job of two steps over the actions with a post and a composite.
Pairs ==
  LET OneStep(id) == {S(id, c, h, u) : c \in {"none", "failure"},
                                       h \in BOOLEAN,
                                       u \in {None, "saver", "setup"}}
  IN  {<<s, t>> : s \in OneStep("step-0"), t \in OneStep("step-1")}

\* Three steps: posts around a docker action, a success() step and an
\* always() step after a composite; and a composite that uses itself.
DockerJobs ==
  Pairs \cup
  {<<S("step-0", "none", FALSE, "cache"), S("step-1", "none", TRUE, "saver"),
     S("step-2", "failure", FALSE, "lint")>>,
   <<S("step-0", "none", FALSE, "saver"), S("step-1", "none", FALSE, "setup"),
     S("step-2", "success", FALSE, None)>>,
   <<S("step-0", "none", TRUE, "setup"), S("step-1", "failure", FALSE, "cache"),
     S("step-2", "always", FALSE, "cache")>>,
   <<S("step-0", "none", TRUE, None), S("step-1", "none", FALSE, "loop")>>}

\* A post due when a docker action is refused.
HostJobs ==
  {<<S("step-0", "none", FALSE, "saver"), S("step-1", "always", TRUE, "lint")>>}

DryRuns ==
  {<<S("step-0", "none", FALSE, "lint"), S("step-1", "none", FALSE, "nested"),
     S("step-2", "always", FALSE, "saver")>>}

MCJobSteps == DockerJobs \cup HostJobs \cup DryRuns

MCBackendOf == [job \in MCJobSteps |-> IF job \in HostJobs THEN "host"
                                       ELSE IF job \in DryRuns THEN "dryRun"
                                       ELSE "docker"]
=============================================================================
