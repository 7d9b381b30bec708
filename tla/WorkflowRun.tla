---------------------------- MODULE WorkflowRun -----------------------------
(***************************************************************************)
(* One `mirror run` of a workflow, from the dependency sort to the exit    *)
(* code: TopoSortJobs and the job loop of RunWorkflow                      *)
(* (internal/engine/workflow_run.go) and the end of runCommand             *)
(* (cmd/mirror/main.go).                                                   *)
(*                                                                         *)
(* Jobs are numbered in the sorted order of their names.  The depth-first  *)
(* search keeps the recursion of visit as an explicit stack: a frame is a  *)
(* job and the part of its needs: list not yet looked at.  The list's own  *)
(* order is not modelled: a frame takes its needs in any order.  What one  *)
(* job's matrix comes to (MatrixRun's verdict) is a free choice here.      *)
(***************************************************************************)
EXTENDS Integers, Sequences, FiniteSets

CONSTANTS N,            \* the number of jobs
          Unknown,      \* a needed name that is not a job
          Graphs        \* the needs: graphs considered

Job == 1..N

ASSUME NAssumption == N \in Nat

ASSUME UnknownAssumption == Unknown \notin Job

ASSUME GraphsAssumption == Graphs \subseteq [Job -> SUBSET (Job \cup {Unknown})]

VARIABLES needs,        \* needs[j]: the set of names j needs
          mark,         \* mark[j]: TopoSortJobs' state[name]
          stack,        \* the calls of visit in progress, outermost first
          cursor,       \* the next name of the sorted loop
          order,        \* the order computed so far
          phase,        \* "sort", "jobs", then "sortError", "runError", "report"
          index,        \* the next position of order in the job loop
          result,       \* result[j]: the outcome stored for j
          exit          \* the process exit code, -1 while running

vars == <<needs, mark, stack, cursor, order, phase, index, result, exit>>

Marks == {"unvisited", "visiting", "done"}
Results == {"success", "failure", "skipped"}
Phases == {"sort", "jobs", "sortError", "runError", "report"}
Frame == [job : Job, todo : SUBSET (Job \cup {Unknown})]

TypeOK ==
  /\ needs \in Graphs
  /\ mark \in [Job -> Marks]
  /\ stack \in Seq(Frame)
  /\ cursor \in 1..N + 1
  /\ order \in Seq(Job)
  /\ phase \in Phases
  /\ index \in 1..Len(order) + 1
  /\ result \in [Job -> Results \cup {"pending"}]
  /\ exit \in -1..1

Init ==
  /\ needs \in Graphs
  /\ mark = [j \in Job |-> "unvisited"]
  /\ stack = <<>>
  /\ cursor = 1
  /\ order = <<>>
  /\ phase = "sort"
  /\ index = 1
  /\ result = [j \in Job |-> "pending"]
  /\ exit = -1

-----------------------------------------------------------------------------
(* TopoSortJobs.                                                           *)

sortVars == <<mark, stack, cursor, order>>
runVars == <<index, result, exit>>

Top == stack[Len(stack)]

\* The call visit(j): mark it and start on its needs.
Enter(j, below) ==
  /\ mark' = [mark EXCEPT ![j] = "visiting"]
  /\ stack' = Append(below, [job |-> j, todo |-> needs[j]])

\* The loop over the sorted names: a name already done returns at once.
VisitName ==
  /\ phase = "sort" /\ stack = <<>> /\ cursor <= N
  /\ cursor' = cursor + 1
  /\ \/ /\ mark[cursor] = "done"
        /\ UNCHANGED <<mark, stack>>
     \/ /\ mark[cursor] = "unvisited"
        /\ Enter(cursor, stack)
  /\ UNCHANGED <<needs, order, phase, runVars>>

Looked(dep) == [stack EXCEPT ![Len(stack)].todo = Top.todo \ {dep}]

\* A needed job: done already, or visited first.
VisitNeed(dep) ==
  /\ phase = "sort" /\ stack # <<>> /\ dep \in Top.todo \cap Job
  /\ \/ /\ mark[dep] = "done"
        /\ stack' = Looked(dep)
        /\ UNCHANGED mark
     \/ /\ mark[dep] = "unvisited"
        /\ Enter(dep, Looked(dep))
  /\ UNCHANGED <<needs, cursor, order, phase, runVars>>

OnStackOrDone(dep) == mark[dep] # "unvisited"

OnStackDirect(dep) == dep = Top.job

OnStack(dep) == mark[dep] = "visiting"

\* A needed name that is no job, or one whose visit is still in progress.
RejectNeed(dep) ==
  /\ phase = "sort" /\ stack # <<>> /\ dep \in Top.todo
  /\ dep \in Job => OnStack(dep)
  /\ phase' = "sortError"
  /\ UNCHANGED <<needs, sortVars, runVars>>

FinishVisitEarly ==
  /\ phase = "sort" /\ stack # <<>>
  /\ Cardinality(Top.todo) <= 1
  /\ mark' = [mark EXCEPT ![Top.job] = "done"]
  /\ order' = Append(order, Top.job)
  /\ stack' = SubSeq(stack, 1, Len(stack) - 1)
  /\ UNCHANGED <<needs, cursor, phase, runVars>>

\* Every need visited: the job comes next in the order.
FinishVisit ==
  /\ phase = "sort" /\ stack # <<>> /\ Top.todo = {}
  /\ mark' = [mark EXCEPT ![Top.job] = "done"]
  /\ order' = Append(order, Top.job)
  /\ stack' = SubSeq(stack, 1, Len(stack) - 1)
  /\ UNCHANGED <<needs, cursor, phase, runVars>>

Sorted ==
  /\ phase = "sort" /\ stack = <<>> /\ cursor > N
  /\ phase' = "jobs"
  /\ UNCHANGED <<needs, sortVars, runVars>>

-----------------------------------------------------------------------------
(* The job loop of RunWorkflow.                                            *)

Current == order[index]

BlockedByFailure == \E dep \in needs[Current] : result[dep] = "failure"

\* outcomes[dep].Result != "success"; a job without an outcome reads as "".
Blocked == \E dep \in needs[Current] : result[dep] # "success"

SettleCurrent(r) ==
  /\ result' = [result EXCEPT ![Current] = r]
  /\ index' = index + 1
  /\ UNCHANGED <<needs, sortVars, phase, exit>>

SkipJob ==
  /\ phase = "jobs" /\ index <= Len(order)
  /\ Blocked
  /\ SettleCurrent("skipped")

\* The matrix ran: the job succeeded or failed.
RunMatrix ==
  /\ phase = "jobs" /\ index <= Len(order)
  /\ ~Blocked
  /\ \E r \in {"success", "failure"} : SettleCurrent(r)

\* A matrix or concurrency: field that cannot be read, or an error from one
\* of the combinations: RunWorkflow returns it and no result at all.
AbortRun ==
  /\ phase = "jobs" /\ index <= Len(order)
  /\ ~Blocked
  /\ phase' = "runError"
  /\ UNCHANGED <<needs, sortVars, runVars>>

LoopEnds ==
  /\ phase = "jobs" /\ index > Len(order)
  /\ phase' = "report"
  /\ UNCHANGED <<needs, sortVars, runVars>>

-----------------------------------------------------------------------------
(* runCommand.                                                             *)

ExitOfLast ==
  IF phase \in {"sortError", "runError"} THEN 1
  ELSE IF order # <<>> /\ result[order[Len(order)]] = "failure" THEN 1 ELSE 0

\* An error exits 1, and so does a job whose conclusion is failure.
ExitCode ==
  IF phase \in {"sortError", "runError"} THEN 1
  ELSE IF \E j \in Job : result[j] = "failure" THEN 1 ELSE 0

Report ==
  /\ phase \in {"sortError", "runError", "report"} /\ exit = -1
  /\ exit' = ExitCode
  /\ UNCHANGED <<needs, sortVars, phase, index, result>>

Exited == exit # -1 /\ UNCHANGED vars

-----------------------------------------------------------------------------
SortStep ==
  \/ VisitName
  \/ \E dep \in Job \cup {Unknown} : VisitNeed(dep) \/ RejectNeed(dep)
  \/ FinishVisit \/ Sorted

RunStep == SkipJob \/ RunMatrix \/ AbortRun \/ LoopEnds \/ Report

Next == SortStep \/ RunStep \/ Exited

Spec == Init /\ [][Next]_vars

\* One goroutine, which never blocks for ever: a job's matrix terminates
\* (AllConclude of MatrixRun).
FairSpec == Spec /\ WF_vars(SortStep \/ RunStep)

-----------------------------------------------------------------------------
(* Properties.                                                             *)

\* A set of jobs each of which needs another of the set.
Circular(S) == S # {} /\ \A j \in S : needs[j] \cap S # {}

BadGraph == \/ \E j \in Job : Unknown \in needs[j]
            \/ \E S \in SUBSET Job : Circular(S)

\* TopoSortJobs: what has been put in the order so far lists no job twice
\* and every job after all it needs, and a finished sort lists every job.
OrderIsTopological ==
  /\ \A k \in 1..Len(order) :
       needs[order[k]] \subseteq {order[l] : l \in 1..k - 1}
  /\ Cardinality({order[k] : k \in 1..Len(order)}) = Len(order)
  /\ phase = "jobs" => Len(order) = N

\* The sort fails on a circular or unknown dependency and on nothing else,
\* wherever in the graph it is and whichever job the search starts from.
SortRejectsExactlyBadGraphs ==
  /\ phase = "sortError" => BadGraph
  /\ phase \in {"jobs", "runError", "report"} => ~BadGraph

\* The jobs j depends on, directly or through others.
Ancestors(j) ==
  {a \in Job : \A S \in SUBSET Job :
     (needs[j] \cap Job \subseteq S /\ \A k \in S : needs[k] \cap Job \subseteq S)
       => a \in S}

\* A failure reaches every dependent and nothing else: a job that ran had
\* every ancestor succeed, a skipped one has an ancestor that failed.
SkipsExactlyDownstream ==
  \A j \in Job :
    /\ result[j] \in {"success", "failure"} =>
         \A a \in Ancestors(j) : result[a] = "success"
    /\ result[j] = "skipped" => \E a \in Ancestors(j) : result[a] = "failure"

\* The exit code: 0 promises that every job ran to success.  runCommand
\* looks only for failures, so this needs a skip to imply a failure.
ZeroMeansAllSucceeded == exit = 0 => \A j \in Job : result[j] = "success"

\* The command always exits: the search does not loop on a circular graph
\* and the job loop settles every job.
AlwaysExits == <>(exit # -1)

Needs == INSTANCE DependencyRun

\* Sorting first and then running sequentially is one way to respect `needs`.
RespectsNeeds == Needs!Spec
=============================================================================
