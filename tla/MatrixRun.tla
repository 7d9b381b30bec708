----------------------------- MODULE MatrixRun ------------------------------
(***************************************************************************)
(* One job's matrix fan-out: the goroutine per combination of RunWorkflow  *)
(* (internal/engine/workflow_run.go) with its start chain, its semaphore,  *)
(* the fail-fast flag, the concurrency scheduler and the aggregation after *)
(* wg.Wait().  RunJob is abstracted to what the fan-out can see of it: it  *)
(* runs step processes one after another, each of which needs a context    *)
(* that is not done to start, and returns success, failure or an error.    *)
(*                                                                         *)
(* pc[i] is where goroutine i stands; a section under mu or s.mu is one    *)
(* action.  The job's configuration is chosen in Init and never changes.   *)
(***************************************************************************)
EXTENDS Naturals, FiniteSets

CONSTANTS N,            \* how many combinations ExpandMatrix returned
          Groups,       \* names of concurrency groups
          NoGroup,      \* no concurrency: field, or an empty group name
          BadGroup,     \* a group expression that fails to evaluate
          None,
          Jobs          \* the job configurations considered

Combos == 1..N

JobType == [failFast    : BOOLEAN,      \* strategy.fail-fast
            maxParallel : Nat,          \* strategy.max-parallel, 0 when absent
            timeout     : BOOLEAN,      \* timeout-minutes is set
            preempt     : BOOLEAN,      \* concurrency.cancel-in-progress
            groupOf     : [Combos -> Groups \cup {NoGroup, BadGroup}]]

ASSUME NAssumption == N \in Nat

ASSUME ValuesAssumption ==
  /\ None \notin Combos
  /\ None \notin {"success", "failure", "error"}
  /\ {NoGroup, BadGroup, None} \cap Groups = {}
  /\ NoGroup # BadGroup

ASSUME JobsAssumption == Jobs \subseteq JobType

VARIABLES job,              \* the configuration
          pc,               \* pc[i]: where goroutine i stands
          started,          \* the closed channels of `starts`
          sem,              \* tokens in the semaphore channel
          stopStartingNew, comboSkipped, comboFailed, firstErr, lastOutputs,
          outcome,          \* outcome[i]: what RunJob (or an early return) gave
          verdict,          \* what RunWorkflow makes of the job
          slots, gen, cancel, ctxDone, release, group, myGen   \* scheduler

Sched == INSTANCE ConcurrencyScheduler

loopVars == <<stopStartingNew, comboSkipped, comboFailed, firstErr, lastOutputs>>

schedVars == <<slots, gen, cancel, ctxDone, release, group, myGen>>

vars == <<job, pc, started, sem, loopVars, outcome, verdict, schedVars>>

\* Holding a semaphore token; past the fail-fast check; inside RunJob.
Holding == {"signal", "check", "setup", "acquire", "select", "run", "exec",
            "record", "release", "leave"}
Working == {"setup", "acquire", "select", "run", "exec", "record"}
Places == Holding \cup {"turn", "queued", "done"}
Outcomes == {"success", "failure", "error"}

Holders == {i \in Combos : pc[i] \in Holding}
Workers == {i \in Combos : pc[i] \in Working}

TypeOK ==
  /\ job \in Jobs
  /\ pc \in [Combos -> Places]
  /\ started \in SUBSET Combos
  /\ sem \in Nat
  /\ stopStartingNew \in BOOLEAN
  /\ comboSkipped \in SUBSET Combos
  /\ comboFailed \in SUBSET Combos
  /\ firstErr \in Combos \cup {None}
  /\ lastOutputs \in Combos \cup {None}
  /\ outcome \in [Combos -> Outcomes \cup {None}]
  /\ verdict \in Outcomes \cup {"running"}
  /\ Sched!SchedTypeOK

Init ==
  /\ job \in Jobs
  /\ pc = [i \in Combos |-> "turn"]
  /\ started = {}
  /\ sem = 0
  /\ stopStartingNew = FALSE
  /\ comboSkipped = {}
  /\ comboFailed = {}
  /\ firstErr = None
  /\ lastOutputs = None
  /\ outcome = [i \in Combos |-> None]
  /\ verdict = "running"
  /\ Sched!SchedInit

Goto(i, from, to) == pc[i] = from /\ pc' = [pc EXCEPT ![i] = to]

-----------------------------------------------------------------------------
(* The start chain and the semaphore.                                      *)

\* maxParallel: 4 unless set, at most the number of combinations, at least 1.
SemCapacity ==
  LET declared == IF job.maxParallel > 0 THEN job.maxParallel ELSE 4
      clamped  == IF N < declared THEN N ELSE declared
  IN  IF clamped < 1 THEN 1 ELSE clamped

AnyTurn(i) == TRUE

\* `<-starts[i-1]` returns once the channel is closed; the first never waits.
MyTurn(i) == i = 1 \/ i - 1 \in started

AwaitTurn(i) ==
  /\ Goto(i, "turn", "queued")
  /\ MyTurn(i)
  /\ UNCHANGED <<job, started, sem, loopVars, outcome, verdict, schedVars>>

SemHasRoomOffByOne == sem <= SemCapacity

SemHasRoom == sem < SemCapacity

TakeSemaphoreUncounted(i) ==
  /\ Goto(i, "queued", "signal")
  /\ SemHasRoom
  /\ UNCHANGED <<job, started, sem, loopVars, outcome, verdict, schedVars>>

TakeSemaphore(i) ==
  /\ Goto(i, "queued", "signal")
  /\ SemHasRoom
  /\ sem' = sem + 1
  /\ UNCHANGED <<job, started, loopVars, outcome, verdict, schedVars>>

SignalNextTwoTooFew(i) ==
  /\ Goto(i, "signal", "check")
  /\ started' = IF i + 2 <= N THEN started \cup {i} ELSE started
  /\ UNCHANGED <<job, sem, loopVars, outcome, verdict, schedVars>>

\* close(starts[i]), except for the last combination.
SignalNext(i) ==
  /\ Goto(i, "signal", "check")
  /\ started' = IF i + 1 <= N THEN started \cup {i} ELSE started
  /\ UNCHANGED <<job, sem, loopVars, outcome, verdict, schedVars>>

-----------------------------------------------------------------------------
(* The fail-fast check and the way into the job.                           *)

MayStartAlways == TRUE

MayStart == ~stopStartingNew

SkipCombination(i) ==
  /\ Goto(i, "check", "leave")
  /\ ~MayStart
  /\ comboSkipped' = comboSkipped \cup {i}
  /\ UNCHANGED <<job, started, sem, stopStartingNew, comboFailed, firstErr,
                 lastOutputs, outcome, verdict, schedVars>>

PassCheck(i) ==
  /\ Goto(i, "check", "setup")
  /\ MayStart
  /\ UNCHANGED <<job, started, sem, loopVars, outcome, verdict, schedVars>>

\* `if firstErr == nil { firstErr = ... }` under mu.
NoteError(i) ==
  /\ firstErr' = IF firstErr = None THEN i ELSE firstErr
  /\ outcome' = [outcome EXCEPT ![i] = "error"]
  /\ UNCHANGED <<stopStartingNew, comboSkipped, comboFailed, lastOutputs>>

\* The timeout context is created, then the group expression is evaluated.
EvaluateGroup(i) ==
  \/ /\ job.groupOf[i] # BadGroup
     /\ Goto(i, "setup", "acquire")
     /\ UNCHANGED <<job, started, sem, loopVars, outcome, verdict, schedVars>>
  \/ /\ job.groupOf[i] = BadGroup
     /\ Goto(i, "setup", "leave")
     /\ NoteError(i)
     /\ UNCHANGED <<job, started, sem, verdict, schedVars>>

\* scheduler.acquire: a queued combination waits for the slot or gives up
\* when its context is done; a preempting one cancels the holder.
Acquire(i) ==
  /\ Goto(i, "acquire", "select")
  /\ LET g == job.groupOf[i] IN
     IF g = NoGroup THEN Sched!AcquireNothing(i)
     ELSE IF job.preempt THEN Sched!Supersede(i, g)
     ELSE Sched!AcquireSlot(i, g) \/ Sched!GiveUp(i, g)
  /\ UNCHANGED <<job, started, sem, loopVars, outcome, verdict>>

\* selectBackend is the caller's function: either answer is possible.
SelectBackend(i) ==
  \/ /\ Goto(i, "select", "run")
     /\ UNCHANGED <<job, started, sem, loopVars, outcome, verdict, schedVars>>
  \/ /\ Goto(i, "select", "release")
     /\ NoteError(i)
     /\ UNCHANGED <<job, started, sem, verdict, schedVars>>

-----------------------------------------------------------------------------
(* RunJob, as far as the fan-out sees it.                                  *)

RunsStepAnyway(i) == TRUE

\* Exec with a context that is done never starts the process.
MayExec(i) == ~ctxDone[i]

RunStep(i) ==
  /\ Goto(i, "run", "exec")
  /\ MayExec(i)
  /\ UNCHANGED <<job, started, sem, loopVars, outcome, verdict, schedVars>>

\* The process exits, by itself or killed because its context is done.
StepEnds(i) ==
  /\ Goto(i, "exec", "run")
  /\ UNCHANGED <<job, started, sem, loopVars, outcome, verdict, schedVars>>

JobReturns(i) ==
  /\ Goto(i, "run", "record")
  /\ \E o \in Outcomes : outcome' = [outcome EXCEPT ![i] = o]
  /\ UNCHANGED <<job, started, sem, loopVars, verdict, schedVars>>

\* timeout-minutes runs out while the combination's context is in use.
Timeout(i) ==
  /\ job.timeout
  /\ pc[i] \in Working \ {"setup"}
  /\ ~ctxDone[i]
  /\ Sched!ContextEnds(i)
  /\ UNCHANGED <<job, pc, started, sem, loopVars, outcome, verdict>>

RecordWithoutStop(i) ==
  /\ Goto(i, "record", "release")
  /\ IF outcome[i] = "error"
     THEN /\ firstErr' = IF firstErr = None THEN i ELSE firstErr
          /\ UNCHANGED <<stopStartingNew, comboFailed, lastOutputs>>
     ELSE /\ lastOutputs' = i
          /\ comboFailed' = IF outcome[i] = "success" THEN comboFailed
                            ELSE comboFailed \cup {i}
          /\ UNCHANGED <<stopStartingNew, firstErr>>
  /\ UNCHANGED <<job, started, sem, comboSkipped, outcome, verdict, schedVars>>

\* The section under mu after RunJob: an error is noted, a result recorded,
\* and a failed combination stops further starts under fail-fast.
Record(i) ==
  /\ Goto(i, "record", "release")
  /\ IF outcome[i] = "error"
     THEN /\ firstErr' = IF firstErr = None THEN i ELSE firstErr
          /\ UNCHANGED <<stopStartingNew, comboFailed, lastOutputs>>
     ELSE /\ lastOutputs' = i
          /\ IF outcome[i] = "success"
             THEN UNCHANGED <<stopStartingNew, comboFailed>>
             ELSE /\ comboFailed' = comboFailed \cup {i}
                  /\ stopStartingNew' = (stopStartingNew \/ job.failFast)
          /\ UNCHANGED firstErr
  /\ UNCHANGED <<job, started, sem, comboSkipped, outcome, verdict, schedVars>>

-----------------------------------------------------------------------------
(* The deferred calls, last in first out, and the aggregation.             *)

CallRelease(i) ==
  /\ Goto(i, "release", "leave")
  /\ Sched!Release(i)
  /\ UNCHANGED <<job, started, sem, loopVars, outcome, verdict>>

LeaveWithToken(i) ==
  /\ Goto(i, "leave", "done")
  /\ sem' = IF i \in comboSkipped THEN sem ELSE sem - 1
  /\ UNCHANGED <<job, started, loopVars, outcome, verdict, schedVars>>

\* `<-sem`, then wg.Done().
LeaveSemaphore(i) ==
  /\ Goto(i, "leave", "done")
  /\ sem' = sem - 1
  /\ UNCHANGED <<job, started, loopVars, outcome, verdict, schedVars>>

ConclusionOfLast ==
  IF firstErr # None THEN "error"
  ELSE IF N \in comboFailed THEN "failure" ELSE "success"

\* The first error is RunWorkflow's; a failed combination fails the job.
Conclusion ==
  IF firstErr # None THEN "error"
  ELSE IF comboFailed \ comboSkipped # {} THEN "failure" ELSE "success"

\* wg.Wait() and the loop over the combinations after it.
Aggregate ==
  /\ verdict = "running"
  /\ \A i \in Combos : pc[i] = "done"
  /\ verdict' = Conclusion
  /\ UNCHANGED <<job, pc, started, sem, loopVars, outcome, schedVars>>

Returned == verdict # "running" /\ UNCHANGED vars

-----------------------------------------------------------------------------
\* What goroutine i does outside RunJob.
FanOutStep(i) ==
  \/ AwaitTurn(i) \/ TakeSemaphore(i) \/ SignalNext(i)
  \/ SkipCombination(i) \/ PassCheck(i) \/ EvaluateGroup(i)
  \/ Acquire(i) \/ SelectBackend(i)
  \/ Record(i) \/ CallRelease(i) \/ LeaveSemaphore(i)

Next ==
  \/ \E i \in Combos : \/ FanOutStep(i)
                       \/ RunStep(i) \/ StepEnds(i) \/ JobReturns(i)
                       \/ Timeout(i)
  \/ Aggregate
  \/ Returned

Spec == Init /\ [][Next]_vars

\* The Go scheduler runs every goroutine that can run.  A step's process
\* ends, and a job has finitely many steps.  Timers are not required to fire.
Fairness ==
  /\ \A i \in Combos : /\ WF_vars(FanOutStep(i))
                       /\ WF_vars(StepEnds(i))
                       /\ SF_vars(JobReturns(i))
  /\ WF_vars(Aggregate)

FairSpec == Spec /\ Fairness

-----------------------------------------------------------------------------
(* Safety.                                                                 *)

\* strategy.max-parallel: never more combinations inside the job than the
\* semaphore has room for, whichever way they left it.
MaxParallelRespected == Cardinality(Workers) <= SemCapacity

\* The start chain: a combination that holds or has held a semaphore token
\* is preceded by every lower index, so a freed token cannot be taken by a
\* later combination while an earlier one still waits.
StartsInIndexOrder ==
  \A i, j \in Combos :
    j < i /\ pc[i] \notin {"turn", "queued"} => pc[j] \notin {"turn", "queued"}

\* fail-fast: from the moment a failure is recorded at most capacity - 1
\* combinations are inside the job (those that had passed the check), and
\* with max-parallel 1 none is.
FailFastDrains == stopStartingNew => Cardinality(Workers) <= SemCapacity - 1

SameGroup(i, j) == job.groupOf[i] = job.groupOf[j] /\ job.groupOf[i] \in Groups

\* cancel-in-progress: false: two combinations of a group never have a step
\* running at once, although one whose context ended while it queued goes on
\* to RunJob without the slot.
QueueExclusive ==
  ~job.preempt =>
    \A i, j \in Combos :
      i # j /\ SameGroup(i, j) => ~(pc[i] = "exec" /\ pc[j] = "exec")

\* cancel-in-progress: true: a registered cancel function belongs to the
\* current generation of a combination that has not released, and whose
\* context no other combination has cancelled (a timeout may have).
RegistrationIsLive ==
  \A g \in Groups :
    LET i == cancel[g] IN
      i # None => /\ release[i] = "gen"
                  /\ group[i] = g
                  /\ gen[g] = myGen[i]
                  /\ ctxDone[i] => job.timeout

\* Nothing outlives the job: when every goroutine is done the semaphore and
\* the slots are empty and no cancel function stays registered, whatever
\* mix of skips, errors, give-ups and supersessions led there.
NothingLeaked ==
  (\A i \in Combos : pc[i] = "done") =>
    /\ sem = 0
    /\ \A g \in Groups : slots[g] = 0 /\ cancel[g] = None /\ gen[g] = 0

\* A job is reported successful only if every combination ran to success:
\* the aggregation ignores skipped combinations, and what makes that right
\* is that a combination is skipped only after another one failed.
SuccessMeansAllSucceeded ==
  verdict = "success" => \A i \in Combos : outcome[i] = "success"

\* The combination's result has been recorded as a JobResult.
Recorded(i) == /\ outcome[i] \in {"success", "failure"}
               /\ pc[i] \in {"release", "leave", "done"}

\* result.Outputs: the outputs dependents see are in general those of the
\* combination that happens to complete last; with max-parallel 1 they are
\* those of the combination with the highest index of all that returned a
\* result, so a serial matrix gives the same answer every time.
SerialOutputsAreLast ==
  SemCapacity = 1 =>
    /\ lastOutputs # None => Recorded(lastOutputs)
    /\ \A i \in Combos : Recorded(i) => lastOutputs \in Combos /\ i <= lastOutputs

\* cancel-in-progress: true promises that starting a combination cancels
\* the group's running one.  concurrency_scheduler.go:17-21 says a delayed
\* release can never clear a newer holder's state; the counter restarts at
\* 1 after a release, so it can.
OneUncancelledHolder ==
  job.preempt =>
    \A i, j \in Combos :
      i # j /\ SameGroup(i, j) =>
        ~(pc[i] = "exec" /\ pc[j] = "exec" /\ ~ctxDone[i] /\ ~ctxDone[j])

-----------------------------------------------------------------------------
(* Steps and progress.                                                     *)

\* A combination's context ends under it only because its own timer fired
\* or because another combination of its group has just acquired the group
\* with cancel-in-progress: true.
CancelledOnlyByNewcomer ==
  [][\A i \in Combos :
       (pc[i] \in Working /\ ctxDone[i] # ctxDone'[i]) =>
         \/ job.timeout /\ pc' = pc
         \/ /\ job.preempt
            /\ \E j \in Combos : /\ j # i /\ SameGroup(i, j)
                                 /\ pc[j] = "acquire" /\ pc'[j] = "select"]_vars

\* The fan-out terminates: no combination waits for ever for its turn, for
\* the semaphore or for its group's slot.
AllConclude == <>(verdict # "running")

-----------------------------------------------------------------------------
(* What is promised of a strategy, and how this module's state shows it.   *)

phase ==
  [i \in Combos |->
     IF pc[i] \in {"turn", "queued", "signal", "check"} THEN "pending"
     ELSE IF pc[i] \in Working THEN "running"
     ELSE IF i \in comboSkipped THEN "skipped" ELSE outcome[i]]

Strategy == INSTANCE MatrixStrategy
              WITH failFast <- job.failFast, capacity <- SemCapacity,
                   conclusion <- verdict

\* Every behaviour of the fan-out is one the strategy allows.
Refines == Strategy!Spec
=============================================================================
