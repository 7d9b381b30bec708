--------------------------- MODULE DockerJobProofs ---------------------------
(***************************************************************************)
(* Theorems about the Docker backend's job environments, for every number  *)
(* of combinations and every list of services.                             *)
(***************************************************************************)
EXTENDS DockerJob, TLAPS

-----------------------------------------------------------------------------
(* The parts of the inductive invariant.                                   *)

\* The services that StartJob of c has started and Stop not yet removed.
Started(c) ==
  CASE pc[c] = "runService"   -> 1..next[c] - 1
    [] pc[c] = "awaitHealth"  -> 1..next[c]
    [] pc[c] \in {"runJob", "running", "stopJob"} -> 1..Len(Services)
    [] pc[c] = "stopServices" -> next[c]..Len(Services)
    [] OTHER -> {}

Expected(c) ==
  IF pc[c] \in {"running", "stopJob"} THEN Started(c) \cup {JobContainer} ELSE Started(c)

\* The loops over the services are entered only if there are any, and Stop
\* counts from the first.
PlaceOK(c) ==
  /\ pc[c] \in {"createNetwork", "runService", "awaitHealth", "stopServices", "stopNetwork"}
       => HasServices
  /\ pc[c] \in {"idle", "createNetwork", "runJob", "running", "stopJob"} => next[c] = 1

\* A combination no docker command of which went wrong has exactly the
\* containers its place says.
OwnOK(c) ==
  ~trouble[c] /\ pc[c] # "failed" =>
    \A k \in Index : <<c, k>> \in containers <=> k \in Expected(c)

\* StartJob only goes on from services that it has seen ready.
ReadyOK(c) ==
  pc[c] \in {"runService", "awaitHealth", "runJob", "running"} =>
    /\ \A k \in Started(c) : <<c, k>> \in containers
    /\ ~unseen[c] =>
         \A k \in Started(c) \ (IF pc[c] = "awaitHealth" THEN {next[c]} ELSE {}) :
           Services[k] \in Checked => <<c, k>> \in healthy

LocalOK(c) == PlaceOK(c) /\ OwnOK(c) /\ ReadyOK(c)

LocalInv == \A c \in Combos : LocalOK(c)

\* A combination that leaves the network to others without having been hindered.
Unattached(c) ==
  pc[c] \in {"idle", "createNetwork", "removeFiles", "stopped"} /\ ~trouble[c]

\* While the network is there, somebody is still to remove it, or was
\* hindered.
NetworkInv == network => HasServices /\ \E c \in Combos : ~Unattached(c)

IInv == TypeOK /\ LocalInv /\ NetworkInv

-----------------------------------------------------------------------------
LEMMA ServicesType == Len(Services) \in Nat /\ (HasServices => Len(Services) > 0)
BY ServicesAssumption DEF HasServices

LEMMA KeepsFilesType == \A c : KeepsFiles(c) \in BOOLEAN
BY DEF KeepsFiles

LEMMA TypeStep == TypeOK /\ LocalInv /\ [Next]_vars => TypeOK'
<1> SUFFICES ASSUME TypeOK, LocalInv, [Next]_vars PROVE TypeOK'
  OBVIOUS
<1> USE ServicesType DEF TypeOK, Places, Index, Goto
<1>1. CASE UNCHANGED vars
  BY <1>1 DEF vars
<1>2. ASSUME NEW c \in Combos, Progress(c) PROVE TypeOK'
  <2>1. CASE CreateFilesRoot(c) \/ CreateNetwork(c) \/ JobEnds(c) \/ RemoveFiles(c)
    BY <2>1 DEF CreateFilesRoot, CreateNetwork, JobEnds, RemoveFiles
  <2>2. CASE RunService(c) \/ RunJobContainer(c)
    BY <2>2 DEF RunService, RunJobContainer, Created, JobContainer, LocalInv, LocalOK, PlaceOK
  <2>3. CASE InspectReady(c)
    BY <2>3 DEF InspectReady, ServiceReady
  <2>4. CASE HealthTimesOut(c) \/ NetworkMissing(c)
    <3>1. Fail(c) /\ trouble' \in [Combos -> BOOLEAN] /\ containers' = containers
      BY <2>4 DEF HealthTimesOut, NetworkMissing
    <3> QED
      BY <3>1, KeepsFilesType DEF Fail
  <2>5. CASE StopJobContainer(c)
    BY <2>5 DEF StopJobContainer, Removed
  <2>6. CASE StopService(c)
    <3>1. /\ pc' \in [Combos -> Places]
          /\ next' \in [Combos -> {1} \cup 1..Len(Services)]
      BY <2>6 DEF StopService
    <3>2. /\ containers' \in SUBSET (Combos \X Index)
          /\ healthy' \in SUBSET containers'
          /\ trouble' \in [Combos -> BOOLEAN]
      BY <2>6 DEF StopService, Removed
    <3> QED
      BY <2>6, <3>1, <3>2 DEF StopService
  <2>7. CASE RemoveNetwork(c)
    BY <2>7 DEF RemoveNetwork
  <2> QED
    BY <1>2, <2>1, <2>2, <2>3, <2>4, <2>5, <2>6, <2>7 DEF Progress
<1>3. ASSUME NEW c \in Combos, InspectFails(c) PROVE TypeOK'
  BY <1>3 DEF InspectFails, ServiceReady
<1>4. ASSUME NEW c \in Combos, StartFails(c) PROVE TypeOK'
  BY <1>4 DEF StartFails, Fail, KeepsFiles, Created, JobContainer, LocalInv, LocalOK, PlaceOK
<1>5. ASSUME NEW c \in Combos, ContextEnds(c) PROVE TypeOK'
  BY <1>5 DEF ContextEnds
<1>6. ASSUME NEW c \in Combos, NEW k \in Index, BecomesHealthy(c, k) PROVE TypeOK'
  BY <1>6 DEF BecomesHealthy
<1> QED
  BY <1>1, <1>2, <1>3, <1>4, <1>5, <1>6 DEF Next, Fault, AllOver

-----------------------------------------------------------------------------
(* What a step of one combination leaves to the others.                    *)

\* Nothing that LocalOK(d) is about changes, unless a service of d becomes
\* healthy.
Untouched(d) ==
  /\ pc'[d] = pc[d] /\ next'[d] = next[d]
  /\ trouble'[d] = trouble[d] /\ unseen'[d] = unseen[d]
  /\ \A k \in Index : /\ <<d, k>> \in containers' <=> <<d, k>> \in containers
                      /\ <<d, k>> \in healthy => <<d, k>> \in healthy'

LEMMA IndexType ==
  ASSUME TypeOK, NEW c \in Combos
  PROVE  /\ Len(Services) \in Nat
         /\ next[c] \in Nat \ {0}
         /\ next[c] \in 1..Len(Services) \/ next[c] = 1
         /\ HasServices => next[c] \in Index /\ next[c] <= Len(Services)
BY ServicesType DEF TypeOK, Index

LEMMA StartedInIndex == ASSUME TypeOK, NEW c \in Combos, PlaceOK(c)
                        PROVE  Started(c) \subseteq Index
BY IndexType DEF Started, PlaceOK, Index

LEMMA Frame ==
  ASSUME TypeOK, NEW d \in Combos, LocalOK(d), Untouched(d)
  PROVE  LocalOK(d)'
<1> USE DEF Untouched
<1>1. Started(d)' = Started(d) /\ Expected(d)' = Expected(d)
  BY DEF Started, Expected
<1>2. Started(d) \subseteq Index
  BY StartedInIndex DEF LocalOK
<1>3. PlaceOK(d)'
  BY DEF LocalOK, PlaceOK, HasServices
<1>4. OwnOK(d)'
  BY <1>1 DEF LocalOK, OwnOK, Index
<1>5. ReadyOK(d)'
  BY <1>1, <1>2 DEF LocalOK, ReadyOK
<1> QED
  BY <1>3, <1>4, <1>5 DEF LocalOK

LEMMA OthersUntouched ==
  ASSUME TypeOK, NEW c \in Combos, Progress(c) \/ Fault(c) \/ ContextEnds(c),
         NEW d \in Combos \ {c}
  PROVE  Untouched(d)
<1> USE DEF TypeOK, Goto, Untouched
<1>1. CASE CreateFilesRoot(c) \/ CreateNetwork(c) \/ JobEnds(c) \/ RemoveFiles(c)
  BY <1>1 DEF CreateFilesRoot, CreateNetwork, JobEnds, RemoveFiles
<1>2. CASE RunService(c) \/ RunJobContainer(c)
  BY <1>2 DEF RunService, RunJobContainer, Created
<1>3. CASE InspectReady(c) \/ InspectFails(c)
  BY <1>3 DEF InspectReady, InspectFails, ServiceReady
<1>4. CASE HealthTimesOut(c) \/ NetworkMissing(c)
  BY <1>4 DEF HealthTimesOut, NetworkMissing, Fail
<1>5. CASE StopJobContainer(c)
  BY <1>5 DEF StopJobContainer, Removed
<1>6. CASE StopService(c)
  BY <1>6 DEF StopService, Removed
<1>7. CASE RemoveNetwork(c)
  BY <1>7 DEF RemoveNetwork
<1>8. CASE StartFails(c)
  BY <1>8 DEF StartFails, Fail, Created
<1>9. CASE ContextEnds(c)
  BY <1>9 DEF ContextEnds
<1> QED
  BY <1>1, <1>2, <1>3, <1>4, <1>5, <1>6, <1>7, <1>8, <1>9 DEF Progress, Fault

-----------------------------------------------------------------------------
(* What a step of c does to c itself.                                      *)

LEMMA StartSteps ==
  ASSUME TypeOK, TypeOK', NEW c \in Combos, LocalOK(c),
         \/ CreateFilesRoot(c) \/ CreateNetwork(c) \/ RunService(c)
         \/ InspectReady(c) \/ InspectFails(c) \/ RunJobContainer(c)
  PROVE  LocalOK(c)'
<1> USE IndexType DEF Goto, TypeOK, Index, LocalOK
<1>1. CASE CreateFilesRoot(c)
  <2>1. /\ pc[c] = "idle" /\ pc'[c] = IF HasServices THEN "createNetwork" ELSE "runJob"
        /\ next'[c] = next[c] /\ next[c] = 1
        /\ containers' = containers /\ healthy' = healthy
        /\ trouble' = trouble /\ unseen' = unseen
    BY <1>1 DEF CreateFilesRoot, PlaceOK
  <2>2. Expected(c) = {} /\ Expected(c)' = {} /\ Started(c)' = {}
    BY <2>1, ServicesType DEF Expected, Started, HasServices
  <2>3. PlaceOK(c)'
    BY <2>1 DEF PlaceOK, HasServices
  <2>4. OwnOK(c)'
    BY <2>1, <2>2 DEF OwnOK
  <2> QED
    BY <2>1, <2>2, <2>3, <2>4 DEF ReadyOK
<1>2. CASE CreateNetwork(c)
  <2>1. /\ pc[c] = "createNetwork" /\ pc'[c] = "runService"
        /\ next'[c] = next[c] /\ next[c] = 1
        /\ containers' = containers /\ healthy' = healthy
        /\ trouble' = trouble /\ unseen' = unseen
    BY <1>2 DEF CreateNetwork, PlaceOK
  <2>2. Expected(c) = {} /\ Expected(c)' = {} /\ Started(c)' = {}
    BY <2>1 DEF Expected, Started
  <2>3. PlaceOK(c)'
    BY <2>1 DEF PlaceOK, HasServices
  <2>4. OwnOK(c)'
    BY <2>1, <2>2 DEF OwnOK
  <2> QED
    BY <2>1, <2>2, <2>3, <2>4 DEF ReadyOK
<1>3. CASE RunService(c)
  <2>1. /\ pc[c] = "runService" /\ pc'[c] = "awaitHealth" /\ HasServices
        /\ next'[c] = next[c] /\ next[c] \in 1..Len(Services)
        /\ containers' = containers \cup {<<c, next[c]>>} /\ healthy' = healthy
        /\ trouble' = trouble /\ unseen' = unseen
    BY <1>3 DEF RunService, PlaceOK, Created
  <2>2. /\ Expected(c) = Started(c) /\ Expected(c)' = Started(c)'
        /\ Started(c)' = 1..next[c] /\ Started(c) = 1..next[c] - 1
    BY <2>1 DEF Expected, Started
  <2>3. Started(c)' = Started(c) \cup {next[c]} /\ next[c] \notin Started(c)
    BY <2>1, <2>2
  <2>4. PlaceOK(c)'
    BY <2>1 DEF PlaceOK, HasServices
  <2>5. OwnOK(c)'
    BY <2>1, <2>2, <2>3 DEF OwnOK
  <2>6. ReadyOK(c)'
    BY <2>1, <2>3 DEF ReadyOK
  <2> QED
    BY <2>4, <2>5, <2>6
<1>4. CASE InspectReady(c) \/ InspectFails(c)
  <2>1. /\ pc[c] = "awaitHealth" /\ HasServices
        /\ next[c] \in 1..Len(Services)
        /\ IF next[c] < Len(Services)
           THEN pc'[c] = "runService" /\ next'[c] = next[c] + 1
           ELSE pc'[c] = "runJob" /\ next'[c] = 1 /\ next[c] = Len(Services)
        /\ containers' = containers /\ healthy' = healthy
        /\ trouble' = trouble
    BY <1>4 DEF InspectReady, InspectFails, ServiceReady, PlaceOK
  <2>2. /\ Expected(c) = Started(c) /\ Expected(c)' = Started(c)'
        /\ Started(c) = 1..next[c] /\ Started(c)' = Started(c)
    BY <2>1 DEF Expected, Started
  <2>3. PlaceOK(c)'
    BY <2>1 DEF PlaceOK, HasServices
  <2>4. OwnOK(c)'
    BY <2>1, <2>2 DEF OwnOK
  <2>5. ReadyOK(c)'
    <3>1. ~unseen'[c] => ~unseen[c] /\ SeenReady(c)
      BY <1>4 DEF InspectReady, InspectFails
    <3> QED
      BY <2>1, <2>2, <3>1 DEF ReadyOK, SeenReady
  <2> QED
    BY <2>3, <2>4, <2>5
<1>5. CASE RunJobContainer(c)
  <2>1. /\ pc[c] = "runJob" /\ pc'[c] = "running" /\ next'[c] = next[c] /\ next[c] = 1
        /\ containers' = containers \cup {<<c, 0>>} /\ healthy' = healthy
        /\ trouble' = trouble /\ unseen' = unseen
    BY <1>5 DEF RunJobContainer, PlaceOK, Created, JobContainer
  <2>2. /\ Started(c) = 1..Len(Services) /\ Started(c)' = Started(c)
        /\ Expected(c) = Started(c) /\ Expected(c)' = Started(c) \cup {0}
    BY <2>1 DEF Expected, Started, JobContainer
  <2>3. PlaceOK(c)'
    BY <2>1 DEF PlaceOK, HasServices
  <2>4. OwnOK(c)'
    BY <2>1, <2>2 DEF OwnOK
  <2>5. ReadyOK(c)'
    BY <2>1, <2>2 DEF ReadyOK
  <2> QED
    BY <2>3, <2>4, <2>5
<1> QED
  BY <1>1, <1>2, <1>3, <1>4, <1>5

LEMMA StopSteps ==
  ASSUME TypeOK, TypeOK', NEW c \in Combos, LocalOK(c),
         JobEnds(c) \/ StopJobContainer(c) \/ StopService(c) \/ RemoveNetwork(c)
         \/ RemoveFiles(c)
  PROVE  LocalOK(c)'
<1> USE IndexType DEF Goto, TypeOK, Index, LocalOK
<1>1. CASE JobEnds(c)
  <2>1. /\ pc[c] = "running" /\ pc'[c] = "stopJob" /\ next'[c] = next[c] /\ next[c] = 1
        /\ containers' = containers /\ trouble' = trouble
    BY <1>1 DEF JobEnds, PlaceOK
  <2>2. Expected(c)' = Expected(c)
    BY <2>1 DEF Expected, Started
  <2> QED
    BY <2>1, <2>2 DEF PlaceOK, OwnOK, ReadyOK
<1>2. CASE StopJobContainer(c)
  <2>1. /\ pc[c] = "stopJob" /\ next'[c] = next[c] /\ next[c] = 1
        /\ pc'[c] = IF HasServices THEN "stopServices" ELSE "removeFiles"
        /\ ~trouble'[c] => containers' = containers \ {<<c, 0>>} /\ ~trouble[c]
    BY <1>2 DEF StopJobContainer, PlaceOK, Removed, JobContainer
  <2>2. Expected(c)' = 1..Len(Services) /\ Expected(c) = Expected(c)' \cup {0}
    BY <2>1, ServicesType DEF Expected, Started, JobContainer, HasServices
  <2>3. PlaceOK(c)'
    BY <2>1 DEF PlaceOK, HasServices
  <2>4. OwnOK(c)'
    BY <2>1, <2>2 DEF OwnOK
  <2> QED
    BY <2>1, <2>3, <2>4 DEF ReadyOK
<1>3. CASE StopService(c)
  <2>1. /\ pc[c] = "stopServices" /\ HasServices
        /\ next[c] \in 1..Len(Services)
        /\ IF next[c] < Len(Services)
           THEN pc'[c] = "stopServices" /\ next'[c] = next[c] + 1
           ELSE pc'[c] = "stopNetwork" /\ next[c] = Len(Services)
        /\ ~trouble'[c] => containers' = containers \ {<<c, next[c]>>} /\ ~trouble[c]
    BY <1>3 DEF StopService, PlaceOK, Removed
  <2>2. /\ Expected(c) = next[c]..Len(Services)
        /\ Expected(c)' = IF next[c] < Len(Services) THEN next[c] + 1..Len(Services) ELSE {}
    BY <2>1 DEF Expected, Started
  <2>3. Expected(c)' = Expected(c) \ {next[c]}
    BY <2>1, <2>2
  <2>4. PlaceOK(c)'
    BY <2>1 DEF PlaceOK, HasServices
  <2>5. OwnOK(c)'
    BY <2>1, <2>3 DEF OwnOK
  <2> QED
    BY <2>1, <2>4, <2>5 DEF ReadyOK
<1>4. CASE RemoveNetwork(c) \/ RemoveFiles(c)
  <2>1. /\ pc[c] \in {"stopNetwork", "removeFiles"} /\ pc'[c] \in {"removeFiles", "stopped"}
        /\ ~trouble'[c] => ~trouble[c]
        /\ containers' = containers
    BY <1>4 DEF RemoveNetwork, RemoveFiles
  <2>2. Expected(c) = {} /\ Expected(c)' = {}
    BY <2>1 DEF Expected, Started
  <2> QED
    BY <2>1, <2>2 DEF PlaceOK, OwnOK, ReadyOK
<1> QED
  BY <1>1, <1>2, <1>3, <1>4

LEMMA FailingSteps ==
  ASSUME TypeOK, NEW c \in Combos, LocalOK(c),
         HealthTimesOut(c) \/ NetworkMissing(c) \/ StartFails(c) \/ ContextEnds(c)
  PROVE  LocalOK(c)'
<1>1. CASE HealthTimesOut(c) \/ NetworkMissing(c) \/ StartFails(c)
  <2>1. pc'[c] = "failed"
    BY <1>1 DEF HealthTimesOut, NetworkMissing, StartFails, Fail, TypeOK
  <2> QED
    BY <2>1 DEF LocalOK, PlaceOK, OwnOK, ReadyOK
<1>2. CASE ContextEnds(c)
  <2>1. /\ pc' = pc /\ next' = next /\ unseen' = unseen
        /\ containers' = containers /\ healthy' = healthy /\ trouble'[c]
    BY <1>2 DEF ContextEnds, TypeOK
  <2> QED
    BY <2>1 DEF LocalOK, PlaceOK, OwnOK, ReadyOK, Started, HasServices
<1> QED
  BY <1>1, <1>2

LEMMA LocalStep == TypeOK /\ LocalInv /\ [Next]_vars => LocalInv'
<1> SUFFICES ASSUME TypeOK, LocalInv, [Next]_vars, NEW d \in Combos
             PROVE  LocalOK(d)'
  BY DEF LocalInv
<1>0. LocalOK(d) /\ TypeOK'
  BY TypeStep DEF LocalInv
<1>1. CASE UNCHANGED vars
  BY <1>0, <1>1, Frame DEF vars, Untouched
<1>2. ASSUME NEW c \in Combos, Progress(c) \/ Fault(c) \/ ContextEnds(c) PROVE LocalOK(d)'
  <2>1. CASE d # c
    BY <1>0, <1>2, <2>1, OthersUntouched, Frame
  <2>2. CASE d = c
    BY <1>0, <1>2, <2>2, StartSteps, StopSteps, FailingSteps DEF Progress, Fault
  <2> QED
    BY <2>1, <2>2
<1>3. ASSUME NEW c \in Combos, NEW k \in Index, BecomesHealthy(c, k) PROVE LocalOK(d)'
  BY <1>0, <1>3, Frame DEF BecomesHealthy, Untouched
<1> QED
  BY <1>1, <1>2, <1>3 DEF Next, AllOver

-----------------------------------------------------------------------------
(* The shared network.                                                     *)

LEMMA NetworkStep == IInv /\ [Next]_vars => NetworkInv'
<1> SUFFICES ASSUME IInv, [Next]_vars, network' PROVE NetworkInv'
  BY DEF NetworkInv
<1> USE DEF IInv, Goto
<1>1. CASE UNCHANGED vars
  BY <1>1 DEF vars, NetworkInv, Unattached, HasServices
<1>2. ASSUME NEW c \in Combos, CreateNetwork(c) PROVE NetworkInv'
  <2>1. pc'[c] = "runService" /\ HasServices
    BY <1>2 DEF CreateNetwork, LocalInv, LocalOK, PlaceOK, TypeOK
  <2> QED
    BY <2>1 DEF NetworkInv, Unattached, HasServices
<1>3. ASSUME NEW c \in Combos, RemoveNetwork(c) PROVE NetworkInv'
  <2>1. PICK w \in Combos : ~Unattached(w)
    BY <1>3 DEF RemoveNetwork, NetworkInv
  <2>2. HasServices
    BY <1>3 DEF RemoveNetwork, NetworkInv
  <2>3. \A d \in Combos \ {c} : pc'[d] = pc[d] /\ trouble'[d] = trouble[d]
    BY <1>3, OthersUntouched DEF Untouched, Progress
  <2>4. CASE trouble'[c]
    BY <2>2, <2>4 DEF NetworkInv, Unattached, HasServices
  <2>5. CASE ~trouble'[c]
    <3>1. Attached # {} /\ ~trouble[c] /\ pc[c] = "stopNetwork"
      BY <1>3, <2>5 DEF RemoveNetwork, TypeOK
    <3>2. PICK d \in Combos, k \in Index : <<d, k>> \in containers
      BY <3>1 DEF Attached, TypeOK
    <3>3. trouble[d] \/ pc[d] = "failed" \/ k \in Expected(d)
      BY <3>2 DEF LocalInv, LocalOK, OwnOK
    <3>4. ~Unattached(d) /\ d # c
      BY <3>1, <3>3 DEF Unattached, Expected, Started
    <3> QED
      BY <2>2, <2>3, <3>4 DEF NetworkInv, Unattached, HasServices
  <2> QED
    BY <2>4, <2>5
<1>4. ASSUME NEW c \in Combos, Progress(c) \/ Fault(c) \/ ContextEnds(c),
             ~CreateNetwork(c), ~RemoveNetwork(c)
      PROVE  NetworkInv'
  <2>1. network
    BY <1>4 DEF Progress, Fault, ContextEnds, CreateFilesRoot, RunService, InspectReady,
                InspectFails, HealthTimesOut, NetworkMissing, StartFails, Fail, RunJobContainer,
                JobEnds, StopJobContainer, StopService, RemoveFiles
  <2>2. PICK w \in Combos : ~Unattached(w)
    BY <2>1 DEF NetworkInv
  <2>3. HasServices
    BY <2>1 DEF NetworkInv
  <2>4. CASE w # c
    BY <1>4, <2>2, <2>3, <2>4, OthersUntouched DEF Untouched, NetworkInv, Unattached, HasServices
  <2>5. CASE w = c
    <3>1. ~Unattached(c)'
      BY <1>4, <2>2, <2>3, <2>5
         DEF Progress, Fault, ContextEnds, CreateFilesRoot, RunService, InspectReady, ServiceReady,
             InspectFails, HealthTimesOut, NetworkMissing, StartFails, Fail, RunJobContainer,
             JobEnds, StopJobContainer, StopService, RemoveFiles, TypeOK, Unattached
    <3> QED
      BY <2>3, <3>1 DEF NetworkInv, HasServices
  <2> QED
    BY <2>4, <2>5
<1>5. ASSUME NEW c \in Combos, NEW k \in Index, BecomesHealthy(c, k) PROVE NetworkInv'
  BY <1>5 DEF BecomesHealthy, NetworkInv, Unattached, HasServices
<1> QED
  BY <1>1, <1>2, <1>3, <1>4, <1>5 DEF Next, Progress, AllOver

-----------------------------------------------------------------------------
(* The theorems.                                                           *)

LEMMA Initially == Init => IInv
<1> SUFFICES ASSUME Init PROVE IInv
  OBVIOUS
<1>1. TypeOK
  BY DEF Init, TypeOK, Places
<1>2. LocalInv
  BY DEF Init, LocalInv, LocalOK, PlaceOK, OwnOK, ReadyOK, Expected, Started
<1>3. NetworkInv
  BY DEF Init, NetworkInv
<1> QED
  BY <1>1, <1>2, <1>3 DEF IInv

\* StartJob and Stop of docker_backend.go, all interleavings of all the
\* combinations: every combination's containers are those of its place, it goes
\* on only from services seen ready, and somebody answers for the network.
THEOREM Invariance == Spec => []IInv
<1>1. IInv /\ [Next]_vars => IInv'
  BY TypeStep, LocalStep, NetworkStep DEF IInv
<1> QED
  BY Initially, <1>1, PTL DEF Spec

\* The variables keep their types: no container without its combination, no
\* health report without its container.
THEOREM TypeCorrect == Spec => []TypeOK
<1>1. IInv => TypeOK
  BY DEF IInv
<1> QED
  BY Invariance, <1>1, PTL

\* Stop: a job that ends in peace leaves none of its containers, and when all
\* do, the last one removed the shared network.
THEOREM LeavesNothingBehind == Spec => []CleanAfterStop
<1>1. IInv => CleanAfterStop
  <2> SUFFICES ASSUME IInv PROVE CleanAfterStop
    OBVIOUS
  <2>1. ASSUME NEW c \in Combos, pc[c] = "stopped", ~trouble[c] PROVE Own(c) = {}
    <3>1. Expected(c) = {}
      BY <2>1 DEF Expected, Started
    <3> QED
      BY <2>1, <3>1 DEF IInv, LocalInv, LocalOK, OwnOK, Own, TypeOK
  <2>2. (\A c \in Combos : pc[c] = "stopped" /\ ~trouble[c]) => ~network
    BY DEF IInv, NetworkInv, Unattached
  <2> QED
    BY <2>1, <2>2 DEF CleanAfterStop
<1> QED
  BY Invariance, <1>1, PTL

\* waitHealthy: the steps start after every service with a health check was
\* healthy, unless a docker inspect of this job failed.
THEOREM StepsFindServicesReady == Spec => []ServicesReadyFirst
<1>1. IInv => ServicesReadyFirst
  BY DEF IInv, LocalInv, LocalOK, ReadyOK, Started, ServicesReadyFirst
<1> QED
  BY Invariance, <1>1, PTL
=============================================================================
