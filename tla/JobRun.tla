------------------------------- MODULE JobRun -------------------------------
(***************************************************************************)
(* One job from StartJob to the JobResult: RunJob and runStep              *)
(* (internal/engine/executor.go), prepareUsesStep (uses_step.go) and       *)
(* runCompositeSteps (composite_step.go), with the workflow commands that  *)
(* mask a value (internal/commands/annotations.go).                        *)
(*                                                                         *)
(* The recursion of runStep through composite actions is a stack of        *)
(* frames, the job's own steps at the bottom; a frame is one scope of the  *)
(* steps context.  A process is two actions, its start and its exit, so    *)
(* the job's context can end in between.  Of a step's output the model     *)
(* keeps whether it registered the job's secret with ::add-mask:: and      *)
(* whether the reported text shows that secret.  JobContext adds the env   *)
(* and the outputs.                                                        *)
(***************************************************************************)
EXTENDS Naturals, FiniteSets, Sequences, SequencesExt

CONSTANTS Ids,          \* step ids; an unnamed step is step-<i> in its scope
          Action,       \* the actions that exist, by name
          JobSteps,     \* the jobs considered, each a sequence of steps
          BackendOf,    \* BackendOf[job]: the backend chosen for the job
          MaxDepth,     \* maxCompositeDepth
          None

Conditions == {"none", "success", "failure", "always"}

\* `uses` is the name of an action, or None for a run: step.
IsStep(s) ==
  /\ s.id \in Ids /\ s.cond \in Conditions /\ s.continueOnError \in BOOLEAN
  /\ s.uses \in DOMAIN Action \cup {None}

\* The step lists there are.
Bodies == JobSteps \cup {Action[a].body : a \in DOMAIN Action}

ASSUME StepsAssumption ==
  \A body \in Bodies : /\ Len(body) \in Nat /\ DOMAIN body = 1..Len(body)
                       /\ \A k \in DOMAIN body : IsStep(body[k])

ASSUME ActionAssumption ==
  /\ None \notin DOMAIN Action \cup Conditions \cup {"success", "failure", "error", "skipped"}
  /\ \A a \in DOMAIN Action : /\ Action[a].kind \in {"node", "docker", "composite"}
                              /\ Action[a].post \in Conditions \cup {None}

ASSUME MaxDepthAssumption == MaxDepth \in Nat

VARIABLES steps,        \* the job's steps
          frames,       \* the step lists in progress, the job's own first
          phase,        \* where RunJob stands
          post,         \* how many pending posts are still to run
          pending,      \* pendingPosts, in step order
          reports,      \* result.Steps
          masked,       \* the secret is in the job's mask registry
          staged,       \* staged[id]: what was last copied to the id's path
          ctxDone,      \* the job's context is done
          result        \* what RunJob returned

vars == <<steps, frames, phase, post, pending, reports, masked, staged,
          ctxDone, result>>

Outcomes == {"success", "failure", "skipped"}

Frame == [body : Bodies, next : Nat, outcome : [Ids -> Outcomes \cup {None}],
          failed : BOOLEAN, registered : BOOLEAN, shows : BOOLEAN]

Report == [id : Ids, post : BOOLEAN, conclusion : Outcomes,
           registered : BOOLEAN, shows : BOOLEAN]

Phases == {"steps", "exec", "posts", "postExec", "done"}

TypeOK ==
  /\ steps \in JobSteps
  /\ frames \in Seq(Frame)
  /\ phase \in Phases
  /\ post \in 0..Len(pending)
  /\ pending \in Seq([id : Ids, uses : DOMAIN Action])
  /\ reports \in Seq(Report)
  /\ masked \in BOOLEAN
  /\ staged \in [Ids -> DOMAIN Action \cup {None}]
  /\ ctxDone \in BOOLEAN
  /\ result \in {None, "success", "failure", "error"}

Scope(body) ==
  [body |-> body, next |-> 1, outcome |-> [id \in Ids |-> None],
   failed |-> FALSE, registered |-> FALSE, shows |-> FALSE]

Init ==
  /\ steps \in JobSteps
  /\ frames = <<Scope(steps)>>
  /\ phase = "steps"
  /\ post = 0
  /\ pending = <<>>
  /\ reports = <<>>
  /\ masked = FALSE
  /\ staged = [id \in Ids |-> None]
  /\ ctxDone = FALSE
  /\ result = None

-----------------------------------------------------------------------------
(* The step at hand.                                                       *)

Innermost == frames[Len(frames)]

\* The step list is finished: its end, or its first unhandled failure.
Over == Innermost.failed \/ Innermost.next > Len(Innermost.body)

Current == Innermost.body[Innermost.next]

AtStep == phase = "steps" /\ ~Over

\* success() and failure() look at the outcomes of the step's own scope.
AnyFailed(f) == \E id \in Ids : f.outcome[id] = "failure"

Holds(cond, f) ==
  CASE cond = "success" -> ~AnyFailed(f)
    [] cond = "failure" -> AnyFailed(f)
    [] OTHER -> TRUE

Kind(step) == IF step.uses = None THEN "run" ELSE Action[step.uses].kind

\* The innermost frame's step has outcome c: it enters the steps context,
\* and an unhandled failure ends the list.
Settled(fs, c, reg, shows) ==
  LET f == fs[Len(fs)] IN
  [fs EXCEPT ![Len(fs)] =
     [f EXCEPT !.next = @ + 1,
               !.outcome[f.body[f.next].id] = c,
               !.failed = c = "failure" /\ ~f.body[f.next].continueOnError,
               !.registered = @ \/ reg,
               !.shows = @ \/ shows]]

\* A report of the job's own steps; nested ones only add to their output.
Reported(fs, c, reg, shows) ==
  IF Len(fs) > 1 THEN reports
  ELSE Append(reports, [id |-> fs[1].body[fs[1].next].id, post |-> FALSE,
                        conclusion |-> c, registered |-> reg, shows |-> shows])

SkipStepInPlace ==
  /\ AtStep /\ ~Holds(Current.cond, Innermost)
  /\ frames' = [frames EXCEPT ![Len(frames)].outcome[Current.id] = "skipped"]
  /\ UNCHANGED <<steps, phase, post, pending, reports, masked, staged, ctxDone,
                 result>>

SkipStep ==
  /\ AtStep /\ ~Holds(Current.cond, Innermost)
  /\ frames' = Settled(frames, "skipped", FALSE, FALSE)
  /\ reports' = Reported(frames, "skipped", FALSE, FALSE)
  /\ UNCHANGED <<steps, phase, post, pending, masked, staged, ctxDone, result>>

-----------------------------------------------------------------------------
(* The backends.  Docker and the macOS host differ only in docker actions. *)

\* DryRunBackend copies nothing and starts nothing.
DryRun == BackendOf[steps] = "dryRun"

\* Copying into the job and starting a process both need a live context.
Live == DryRun \/ ~ctxDone

Supported(step) == ~(Kind(step) = "docker" /\ BackendOf[steps] = "host")

\* How a process may end; in a dry run there is none.
Possible(conclusion, registers, prints) ==
  DryRun => conclusion = "success" /\ ~registers /\ ~prints

-----------------------------------------------------------------------------
(* Steps with a process of their own.                                      *)

\* One path for all actions.
CopiedToOnePath(step) ==
  IF Kind(step) \in {"node", "composite"}
  THEN [id \in Ids |-> step.uses] ELSE staged

\* prepareUsesStep copies the action's source to the path of the step's id,
\* except for a docker action, which mounts it in its own container.
Copied(step) ==
  IF Kind(step) \in {"node", "composite"} /\ ~DryRun
  THEN [staged EXCEPT ![step.id] = step.uses] ELSE staged

StartStep ==
  /\ AtStep /\ Holds(Current.cond, Innermost) /\ Kind(Current) # "composite"
  /\ Live /\ Supported(Current)
  /\ phase' = "exec"
  /\ staged' = Copied(Current)
  /\ UNCHANGED <<steps, frames, post, pending, reports, masked, ctxDone, result>>

HasPost(step) == Kind(step) = "node" /\ Action[step.uses].post # None

\* Only the job's own node steps have their post collected.
CollectsPost == Len(frames) = 1 /\ HasPost(Current)

\* A composite given a registry of its own.
MaskedPerScope(reg) == IF Len(frames) > 1 THEN masked ELSE masked \/ reg

\* One registry for the job, shared with the composites inside it.
MaskedAfter(reg) == masked \/ reg

\* The process exits, by itself or killed because its context is done; its
\* output is scanned for masks, then redacted with all of them.
StepExits ==
  /\ phase = "exec"
  /\ \E c \in {"success", "failure"}, reg, prints \in BOOLEAN :
       LET shows == prints /\ ~MaskedAfter(reg) IN
       /\ Possible(c, reg, prints)
       /\ masked' = MaskedAfter(reg)
       /\ frames' = Settled(frames, c, reg, shows)
       /\ reports' = Reported(frames, c, reg, shows)
  /\ pending' = IF CollectsPost
                THEN Append(pending, [id |-> Current.id, uses |-> Current.uses])
                ELSE pending
  /\ phase' = "steps"
  /\ UNCHANGED <<steps, post, staged, ctxDone, result>>

-----------------------------------------------------------------------------
(* Composite actions.                                                      *)

\* p.Depth + 1 > maxCompositeDepth is an error; the job's steps are depth 0.
MayNest == Len(frames) <= MaxDepth

EnterComposite ==
  /\ AtStep /\ Holds(Current.cond, Innermost) /\ Kind(Current) = "composite"
  /\ Live /\ MayNest
  /\ staged' = Copied(Current)
  /\ frames' = Append(frames, Scope(Action[Current.uses].body))
  /\ UNCHANGED <<steps, phase, post, pending, reports, masked, ctxDone, result>>

\* The nested list is over: its conclusion is the composite step's.
LeaveComposite ==
  /\ phase = "steps" /\ Over /\ Len(frames) > 1
  /\ LET outer == Front(frames)
         c     == IF Innermost.failed THEN "failure" ELSE "success"
         reg   == Innermost.registered
         shows == Innermost.shows
     IN  /\ frames' = Settled(outer, c, reg, shows)
         /\ reports' = Reported(outer, c, reg, shows)
  /\ UNCHANGED <<steps, phase, post, pending, masked, staged, ctxDone, result>>

-----------------------------------------------------------------------------
(* The posts, and the end of the job.                                      *)

StepsFinished ==
  /\ phase = "steps" /\ Over /\ Len(frames) = 1
  /\ phase' = "posts"
  /\ post' = Len(pending)
  /\ UNCHANGED <<steps, frames, pending, reports, masked, staged, ctxDone, result>>

PostWanted(p) == Holds(Action[p.uses].post, frames[1])

SkipPost ==
  /\ phase = "posts" /\ post > 0 /\ ~PostWanted(pending[post])
  /\ post' = post - 1
  /\ UNCHANGED <<steps, frames, phase, pending, reports, masked, staged, ctxDone,
                 result>>

StartPostAnyway ==
  /\ phase = "posts" /\ post > 0 /\ PostWanted(pending[post])
  /\ phase' = "postExec"
  /\ UNCHANGED <<steps, frames, post, pending, reports, masked, staged, ctxDone,
                 result>>

StartPost ==
  /\ phase = "posts" /\ post > 0 /\ PostWanted(pending[post])
  /\ Live
  /\ phase' = "postExec"
  /\ UNCHANGED <<steps, frames, post, pending, reports, masked, staged, ctxDone,
                 result>>

ForwardPost == Len(pending) + 1 - post

\* The loop counts down from the last pending post.
ThisPost == post

\* A post's output is reported as it is, and its failure changes nothing.
PostExits ==
  /\ phase = "postExec"
  /\ \E c \in {"success", "failure"}, prints \in BOOLEAN :
       /\ Possible(c, FALSE, prints)
       /\ reports' = Append(reports, [id |-> pending[ThisPost].id, post |-> TRUE,
                                      conclusion |-> c, registered |-> FALSE,
                                      shows |-> prints])
  /\ phase' = "posts"
  /\ post' = post - 1
  /\ UNCHANGED <<steps, frames, pending, masked, staged, ctxDone, result>>

ConclusionOfAnyFailure ==
  IF AnyFailed(frames[1]) THEN "failure" ELSE "success"

Conclusion == IF frames[1].failed THEN "failure" ELSE "success"

JobFinished ==
  /\ phase = "posts" /\ post = 0
  /\ phase' = "done"
  /\ result' = Conclusion
  /\ UNCHANGED <<steps, frames, post, pending, reports, masked, staged, ctxDone>>

Errors ==
  /\ phase' = "done"
  /\ result' = "error"
  /\ UNCHANGED <<steps, frames, post, pending, reports, masked, staged, ctxDone>>

\* A condition or an expression that cannot be evaluated, an action that
\* cannot be fetched or copied, a process that cannot be started, a command
\* file that cannot be read: RunJob returns the error at once.
JobErrors == phase \in {"steps", "posts"} /\ Errors

\* The step or post at hand needs a process and the context is done.
ContextRefuses ==
  /\ ~Live
  /\ \/ AtStep /\ Holds(Current.cond, Innermost)
     \/ phase = "posts" /\ post > 0 /\ PostWanted(pending[post])
  /\ Errors

\* A docker action in a macOS job.
NotOnThisPlatform ==
  /\ AtStep /\ Holds(Current.cond, Innermost) /\ ~Supported(Current)
  /\ Errors

\* The action has been copied by the time its nesting is found too deep.
NestingTooDeep ==
  /\ AtStep /\ Holds(Current.cond, Innermost) /\ Kind(Current) = "composite"
  /\ Live /\ ~MayNest
  /\ staged' = Copied(Current)
  /\ phase' = "done"
  /\ result' = "error"
  /\ UNCHANGED <<steps, frames, post, pending, reports, masked, ctxDone>>

\* timeout-minutes, or a newer combination of the concurrency group.
ContextEnds ==
  /\ phase # "done" /\ ~ctxDone
  /\ ctxDone' = TRUE
  /\ UNCHANGED <<steps, frames, phase, post, pending, reports, masked, staged,
                 result>>

Returned == phase = "done" /\ UNCHANGED vars

-----------------------------------------------------------------------------
Work == \/ SkipStep \/ StartStep \/ StepExits
        \/ EnterComposite \/ LeaveComposite
        \/ StepsFinished \/ SkipPost \/ StartPost \/ PostExits \/ JobFinished
        \/ ContextRefuses \/ NotOnThisPlatform \/ NestingTooDeep

Next == Work \/ JobErrors \/ ContextEnds \/ Returned

Spec == Init /\ [][Next]_vars

\* RunJob is one goroutine; the processes it waits for end.  Nothing is
\* assumed of the errors it could meet or of the context.
FairSpec == Spec /\ WF_vars(Work)

-----------------------------------------------------------------------------
(* Properties.                                                             *)

\* The reports of the steps come first, then those of the posts.
StepCount == CHOOSE n \in 0..Len(reports) :
               \A k \in 1..Len(reports) : reports[k].post <=> k > n

StepReports == SubSeq(reports, 1, StepCount)

PostReports == SubSeq(reports, StepCount + 1, Len(reports))

Unhandled(k) == /\ StepReports[k].conclusion = "failure"
                /\ ~steps[k].continueOnError

\* RunJob: the job fails exactly when one of its own steps failed without
\* continue-on-error, and no step comes after that one; neither a nested
\* step's handled failure nor a post's failure counts.
FailsOnFirstUnhandled ==
  /\ \A k \in 1..Len(StepReports) - 1 : ~Unhandled(k)
  /\ result = "failure" =>
       StepReports # <<>> /\ Unhandled(Len(StepReports))
  /\ result = "success" =>
       /\ Len(StepReports) = Len(steps)
       /\ \A k \in 1..Len(steps) : ~Unhandled(k)

\* The steps whose post is due at the end of the job.
PostsDue ==
  {k \in 1..Len(StepReports) : /\ StepReports[k].conclusion # "skipped"
                               /\ HasPost(steps[k])
                               /\ Holds(Action[steps[k].uses].post, frames[1])}

\* pendingPosts: a job that returns a result has run the post of each of
\* its own node steps that ran and whose post-if holds, once each, in
\* reverse step order, whether or not a step failed, and no nested post.
\* main[k] is the step of the k-th post.
PostsMirrorMains ==
  result \in {"success", "failure"} =>
    \E main \in [1..Len(PostReports) -> PostsDue] :
      /\ \A k, l \in 1..Len(PostReports) : k < l => main[k] > main[l]
      /\ \A n \in PostsDue : \E k \in 1..Len(PostReports) : main[k] = n
      /\ \A k \in 1..Len(PostReports) : PostReports[k].id = steps[main[k]].id

\* usage.md:284-287 of the steps: once a step, or a composite inside it, has
\* registered the secret no later step's output shows it.
MaskedInLaterSteps ==
  \A k, l \in 1..Len(StepReports) :
    k < l /\ StepReports[k].registered => ~StepReports[l].shows

\* usage.md:284-287 and annotations.go:36-37 of everything the job reports.
MaskedInLaterReports ==
  \A k, l \in 1..Len(reports) :
    k < l /\ reports[k].registered => ~reports[l].shows

\* Every step that a list of steps comes to, in it or in composites inside:
\* the smallest set that has the list and the bodies of its composites.
StepsWithin(body) ==
  LET every == UNION {Range(b) : b \in {body} \cup {Action[a].body : a \in DOMAIN Action}}
      Closed(ss) == /\ Range(body) \subseteq ss
                    /\ \A s \in ss : Kind(s) = "composite" =>
                                       Range(Action[s.uses].body) \subseteq ss
  IN  {s \in every : \A ss \in SUBSET every : Closed(ss) => s \in ss}

\* node.go:22-27: an action's files are copied to a path keyed by the step's
\* id.  A post finds those of its own action there, as the steps that ran
\* since left them, unless a step with the same id, in whatever scope, uses
\* another action.
PostFindsOwnAction ==
  phase = "postExec" /\ ~DryRun =>
    LET p == pending[post]
        shared == \E s \in StepsWithin(steps) :
                    s.id = p.id /\ s.uses \notin {None, p.uses}
    IN  ~shared => staged[p.id] = p.uses

\* RunJob returns, however its steps end and even if a composite uses itself
\* (maxCompositeDepth).
AlwaysReturns == <>(result # None)

\* In a dry run no process runs.
place == CASE phase \in {"exec", "postExec"} /\ ~DryRun -> "exec"
           [] phase = "done" -> "done"
           [] OTHER -> "run"

Outline == INSTANCE JobOutline WITH outcome <- result

\* RunJob is what MatrixRun takes it for.
FitsTheMatrix == Outline!Spec
=============================================================================
