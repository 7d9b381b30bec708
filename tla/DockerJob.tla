----------------------------- MODULE DockerJob ------------------------------
(***************************************************************************)
(* The Docker backend's job environments (internal/runner/                 *)
(* docker_backend.go): StartJob, the service containers and the wait for   *)
(* their health, the job container, and Stop, for several combinations of  *)
(* one job running at the same time.  They share the Docker daemon and,    *)
(* since it is named after the job id alone, one network.                  *)
(*                                                                         *)
(* Every `docker` command runs under the combination's context: none       *)
(* starts once that is done.  The daemon is modelled from how the code     *)
(* uses it: containers by owner and name, and a network that can be        *)
(* removed only while no container is attached.  Registry logins, whose    *)
(* process-wide sharing the documentation names as a limitation, are left  *)
(* out.                                                                    *)
(***************************************************************************)
EXTENDS Naturals, FiniteSets, Sequences

CONSTANTS Combos,       \* the combinations that use this job id
          Services,     \* the sorted names of the job's services
          Checked       \* the services with a health check

ASSUME ServicesAssumption == Services \in Seq({Services[k] : k \in DOMAIN Services})

ASSUME CheckedAssumption == Checked \subseteq {Services[k] : k \in 1..Len(Services)}

JobContainer == 0

VARIABLES pc,           \* where StartJob, RunJob or Stop of c stands
          next,         \* next[c]: the service being started or removed
          files,        \* files[c]: the host-side files root exists
          network,      \* the network mirror-svc-<job id> exists
          containers,   \* <<c, k>>: c's k-th service, or its job container
          healthy,      \* the service containers that report healthy
          ctxDone,      \* the context of c is done
          trouble,      \* trouble[c]: a docker command of c went wrong
          unseen        \* unseen[c]: an inspect of one of c's services failed

vars == <<pc, next, files, network, containers, healthy, ctxDone, trouble, unseen>>

Places == {"idle", "createNetwork", "runService", "awaitHealth", "runJob", "running",
           "stopJob", "stopServices", "stopNetwork", "removeFiles", "stopped",
           "failed"}

Index == 0..Len(Services)

TypeOK ==
  /\ pc \in [Combos -> Places]
  /\ next \in [Combos -> {1} \cup 1..Len(Services)]
  /\ files \in [Combos -> BOOLEAN]
  /\ network \in BOOLEAN
  /\ containers \in SUBSET (Combos \X Index)
  /\ healthy \in SUBSET containers
  /\ ctxDone \in [Combos -> BOOLEAN]
  /\ trouble \in [Combos -> BOOLEAN]
  /\ unseen \in [Combos -> BOOLEAN]

Init ==
  /\ pc = [c \in Combos |-> "idle"]
  /\ next = [c \in Combos |-> 1]
  /\ files = [c \in Combos |-> FALSE]
  /\ network = FALSE
  /\ containers = {}
  /\ healthy = {}
  /\ ctxDone = [c \in Combos |-> FALSE]
  /\ trouble = [c \in Combos |-> FALSE]
  /\ unseen = [c \in Combos |-> FALSE]

HasServices == Services # <<>>

Goto(c, from, to) == pc[c] = from /\ pc' = [pc EXCEPT ![c] = to]

-----------------------------------------------------------------------------
(* The daemon.                                                             *)

Attached == IF HasServices THEN containers ELSE {}

\* `docker run --network` needs the network to be there.
CanAttach == HasServices => network

Created(c, k) == containers' = containers \cup {<<c, k>>}

Removed(c, k) ==
  /\ containers' = containers \ {<<c, k>>}
  /\ healthy' = healthy \ {<<c, k>>}

BecomesHealthy(c, k) ==
  /\ <<c, k>> \in containers /\ k # JobContainer /\ Services[k] \in Checked
  /\ <<c, k>> \notin healthy
  /\ healthy' = healthy \cup {<<c, k>>}
  /\ UNCHANGED <<pc, next, files, network, containers, ctxDone, trouble, unseen>>

ContextEnds(c) ==
  /\ pc[c] \notin {"idle", "stopped", "failed"} /\ ~ctxDone[c]
  /\ ctxDone' = [ctxDone EXCEPT ![c] = TRUE]
  /\ trouble' = [trouble EXCEPT ![c] = TRUE]
  /\ UNCHANGED <<pc, next, files, network, containers, healthy, unseen>>

-----------------------------------------------------------------------------
(* StartJob.                                                               *)

CreateFilesRoot(c) ==
  /\ Goto(c, "idle", IF HasServices THEN "createNetwork" ELSE "runJob")
  /\ files' = [files EXCEPT ![c] = TRUE]
  /\ UNCHANGED <<next, network, containers, healthy, ctxDone, trouble, unseen>>

\* "already exists" is as good as created.
CreateNetwork(c) ==
  /\ Goto(c, "createNetwork", "runService")
  /\ ~ctxDone[c]
  /\ network' = TRUE
  /\ UNCHANGED <<next, files, containers, healthy, ctxDone, trouble, unseen>>

RunService(c) ==
  /\ Goto(c, "runService", "awaitHealth")
  /\ ~ctxDone[c] /\ CanAttach
  /\ Created(c, next[c])
  /\ UNCHANGED <<next, files, network, healthy, ctxDone, trouble, unseen>>

\* The next service, or the job's own container after the last one.
ServiceReady(c) ==
  /\ pc[c] = "awaitHealth"
  /\ next' = [next EXCEPT ![c] = IF @ < Len(Services) THEN @ + 1 ELSE 1]
  /\ pc' = [pc EXCEPT ![c] = IF next[c] < Len(Services) THEN "runService" ELSE "runJob"]

SeenStarted(c) == <<c, next[c]>> \in containers

\* healthy, or no health check to wait for.
SeenReady(c) == Services[next[c]] \in Checked => <<c, next[c]>> \in healthy

InspectReady(c) ==
  /\ ServiceReady(c)
  /\ ~ctxDone[c] /\ SeenReady(c)
  /\ UNCHANGED <<files, network, containers, healthy, ctxDone, trouble, unseen>>

\* docker inspect fails, or cannot start: taken for ready.
InspectFails(c) ==
  /\ ServiceReady(c)
  /\ unseen' = [unseen EXCEPT ![c] = TRUE]
  /\ UNCHANGED <<files, network, containers, healthy, ctxDone, trouble>>

RunJobContainer(c) ==
  /\ Goto(c, "runJob", "running")
  /\ ~ctxDone[c] /\ CanAttach
  /\ Created(c, JobContainer)
  /\ UNCHANGED <<next, files, network, healthy, ctxDone, trouble, unseen>>

\* The files root is removed where StartJob fails outside the service loop.
KeepsFiles(c) == pc[c] \in {"runService", "awaitHealth"}

Fail(c) ==
  /\ pc' = [pc EXCEPT ![c] = "failed"]
  /\ files' = [files EXCEPT ![c] = KeepsFiles(c)]
  /\ UNCHANGED <<next, network, healthy, ctxDone, unseen>>

\* The network is gone between its creation and the first container in it.
NetworkMissing(c) ==
  /\ pc[c] \in {"runService", "runJob"} /\ ~CanAttach
  /\ Fail(c)
  /\ UNCHANGED <<containers, trouble>>

\* A docker command fails, or its context is done; a `docker run` cut short
\* may have created its container.
StartFails(c) ==
  /\ pc[c] \in {"createNetwork", "runService", "runJob"}
  /\ Fail(c)
  /\ trouble' = [trouble EXCEPT ![c] = TRUE]
  /\ \/ UNCHANGED containers
     \/ pc[c] = "runService" /\ CanAttach /\ Created(c, next[c])
     \/ pc[c] = "runJob" /\ CanAttach /\ Created(c, JobContainer)

HealthNeverTimesOut(c) == FALSE

\* Five minutes without a healthy status.
HealthTimesOut(c) ==
  /\ pc[c] = "awaitHealth" /\ ~SeenReady(c)
  /\ Fail(c)
  /\ trouble' = [trouble EXCEPT ![c] = TRUE]
  /\ UNCHANGED containers

-----------------------------------------------------------------------------
(* Stop, deferred by RunJob.                                               *)

JobEnds(c) ==
  /\ Goto(c, "running", "stopJob")
  /\ UNCHANGED <<next, files, network, containers, healthy, ctxDone, trouble, unseen>>

\* A removal that cannot start or fails is passed over.
Obeyed(c) == ~ctxDone[c]

StopJobContainer(c) ==
  /\ Goto(c, "stopJob", IF HasServices THEN "stopServices" ELSE "removeFiles")
  /\ \/ Obeyed(c) /\ Removed(c, JobContainer) /\ UNCHANGED trouble
     \/ trouble' = [trouble EXCEPT ![c] = TRUE] /\ UNCHANGED <<containers, healthy>>
  /\ UNCHANGED <<next, files, network, ctxDone, unseen>>

StopService(c) ==
  /\ pc[c] = "stopServices"
  /\ \/ Obeyed(c) /\ Removed(c, next[c]) /\ UNCHANGED trouble
     \/ trouble' = [trouble EXCEPT ![c] = TRUE] /\ UNCHANGED <<containers, healthy>>
  /\ IF next[c] < Len(Services)
     THEN next' = [next EXCEPT ![c] = @ + 1] /\ UNCHANGED pc
     ELSE pc' = [pc EXCEPT ![c] = "stopNetwork"] /\ UNCHANGED next
  /\ UNCHANGED <<files, network, ctxDone, unseen>>

RemoveNetworkIfAlone(c) ==
  /\ Goto(c, "stopNetwork", "removeFiles")
  /\ network' = (network /\ \E d \in Combos \ {c} : pc[d] # "idle")
  /\ UNCHANGED <<next, files, containers, healthy, ctxDone, trouble, unseen>>

\* The daemon refuses while another combination's containers are attached.
RemoveNetwork(c) ==
  /\ Goto(c, "stopNetwork", "removeFiles")
  /\ \/ Obeyed(c) /\ network' = (network /\ Attached # {}) /\ UNCHANGED trouble
     \/ trouble' = [trouble EXCEPT ![c] = TRUE] /\ UNCHANGED network
  /\ UNCHANGED <<next, files, containers, healthy, ctxDone, unseen>>

\* Whatever became of the containers.
RemoveFiles(c) ==
  /\ Goto(c, "removeFiles", "stopped")
  /\ files' = [files EXCEPT ![c] = FALSE]
  /\ UNCHANGED <<next, network, containers, healthy, ctxDone, trouble, unseen>>

-----------------------------------------------------------------------------
\* What the code does next for c when docker does as it is told.
Progress(c) ==
  \/ CreateFilesRoot(c) \/ CreateNetwork(c) \/ RunService(c)
  \/ InspectReady(c) \/ HealthTimesOut(c) \/ RunJobContainer(c)
  \/ NetworkMissing(c) \/ JobEnds(c)
  \/ StopJobContainer(c) \/ StopService(c) \/ RemoveNetwork(c) \/ RemoveFiles(c)

Fault(c) == InspectFails(c) \/ StartFails(c)

Over(c) == pc[c] \in {"stopped", "failed"}

AllOver == (\A c \in Combos : Over(c)) /\ UNCHANGED vars

Next ==
  \/ \E c \in Combos : \/ Progress(c) \/ Fault(c) \/ ContextEnds(c)
                       \/ \E k \in Index : BecomesHealthy(c, k)
  \/ AllOver

Spec == Init /\ [][Next]_vars

\* docker commands return, the wait for health has a deadline, and a job
\* terminates (AlwaysReturns of JobRun).  A command under a context that is
\* done fails; other faults are possible but not assumed.
FairSpec ==
  Spec /\ \A c \in Combos : WF_vars(Progress(c) \/ (ctxDone[c] /\ Fault(c)))

-----------------------------------------------------------------------------
(* Properties.                                                             *)

Own(c) == {x \in containers : x[1] = c}

\* Stop: a job that ends in peace leaves none of its containers behind; and
\* although the combinations start and stop in any order, each tries to
\* remove the shared network and most are refused, the last one leaves no
\* network behind, as long as no docker command failed.
CleanAfterStop ==
  LET InPeace(c) == pc[c] = "stopped" /\ ~trouble[c] IN
  /\ \A c \in Combos : InPeace(c) => Own(c) = {}
  /\ (\A c \in Combos : InPeace(c)) => ~network

\* usage.md:206-208: a job's steps start after every service of that job
\* that has a health check reported healthy, unless an inspect failed.
ServicesReadyFirst ==
  \A c \in Combos :
    pc[c] = "running" /\ ~unseen[c] =>
      \A k \in 1..Len(Services) :
        /\ <<c, k>> \in containers
        /\ Services[k] \in Checked => <<c, k>> \in healthy

\* Every combination gets to the end of Stop or fails to start.
AllSettle == \A c \in Combos : <>Over(c)
=============================================================================
