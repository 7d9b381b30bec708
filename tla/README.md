# mirror-gha: a TLA+ verification project

mirror-gha (`mirror run`) executes GitHub Actions workflows locally: it sorts the
jobs of a workflow by `needs:`, expands each job's matrix, runs the combinations
concurrently, each in a Docker container or on the host, and serves the cache and
artifact protocols of the real actions from two small HTTP servers.  The modules
here are translated from the Go sources (`src/...`, named in each header comment);
`PROJECT.json` gives for every definition the lines it stands for.

## 1. Inventory

| Component (source) | State | Operations | What makes it correct |
|---|---|---|---|
| Dependency sort and job loop (`engine/workflow_run.go`) | DFS marks, order, outcome of each job | `TopoSortJobs`, the loop of `RunWorkflow`, exit code in `cmd/mirror/main.go` | order respects `needs`; bad graphs rejected, good ones accepted; failures reach all dependents and only them; exit 0 means all succeeded |
| Matrix expansion (`engine/matrix.go`) | list of combinations | product, exclude, include | nothing lost, overwritten or reordered; include entries all used |
| Matrix fan-out (`engine/workflow_run.go`) | semaphore, start chain, `stopStartingNew`, result slots, first error | one goroutine per combination | max-parallel, start order, fail-fast, no leak, success is total, termination |
| Concurrency scheduler (`engine/concurrency_scheduler.go`) | per group: a slot, or a cancel function and a generation | `acquire`, `release` | one at a time in a group; only a newcomer cancels; nothing stays registered |
| Job executor (`engine/executor.go`) | step outcomes, pending posts, masks, reports; env, step outputs, state of mains, job outputs | `RunJob`, `runStep` | conclusion, conditions, posts mirror mains, redaction; each process gets the environment of its place in program order |
| `uses:` and composites (`engine/uses_step.go`, `composite_step.go`, `actions/node.go`) | copied actions, nesting depth | `prepareUsesStep`, `runCompositeSteps` | nested scopes, depth limit, an action's files are its own |
| Workflow commands and files (`commands/`) | mask registry, one set of files per step | `ProcessWorkflowCommands`, `ParseKeyValueFile`, `ParseLegacyOutputs` | masked values stay masked; what a process says arrives as it was said |
| Cache server (`cacheserver/`) | index in memory and on disk, blobs, reservations | reserve, upload, commit, find, open | only whole archives; best match; saves survive |
| Artifact server (`artifactserver/`) | files | v3 and v4 create/upload/finalize/list/download/delete | what was uploaded is downloaded |
| Docker backend (`runner/docker_backend.go`) | containers, network, files root | `StartJob`, `Exec`, `Stop` | services ready first; everything removed, shared network by the last |
| Host and dry-run backends (`runner/host_backend.go`, `dryrun.go`) | a directory | `Exec`, `CopyToContainer` | a job on them is still the job `RunJob` promises |
| Action and Node caches (`actions/fetch.go`, `node.go`) | directories under the cache root | fetch and extract | what is copied into a job is one whole version; a warm cache is left alone |
| Expressions and contexts (`engine/expr.go`, `context.go`) | none | `EvalExpression`, `SubstituteExpressions`, `resolvePath` | names found without regard to case; coercions; errors end the job |
| Workflow parser, credentials, payloads, `hashFiles` | none | pure functions | checked by unit tests |
| Command line | flags | | exit code |

Interactions.  `RunWorkflow` calls `TopoSortJobs`, then for each job in order
`ExpandMatrix`; it starts one goroutine per combination, which shares with the
others the start channels, the semaphore, a mutex, and the scheduler of that job.
Each goroutine evaluates its group, `acquire`s it, selects a backend and calls
`RunJob`, whose context ends on `timeout-minutes` or when the scheduler cancels it.
`RunJob` starts a backend job (containers), runs processes in it through `Exec`,
recursing into composites, and stops it by a deferred call.  The actions in those
processes call back into the cache and artifact servers over HTTP, concurrently
between combinations; several `mirror run` share the cache directory.

Hard behaviours: the interleaving of the goroutines of a fan-out with
cancellations and timeouts; contexts that end between two processes, or before the
clean-up; posts, masks and conditions across nested scopes; overlapping and crashed
invocations on one cache index; overlapping, resent and broken-off uploads; a
network several combinations create and remove; downloads into one directory without
a lock; the env as steps, composites and posts change it in turn.  `PROJECT.json` lists each hazard
at its line with the properties that cover it.

## 2. Modules

| Module | Models | Composes |
|---|---|---|
| `ConcurrencyScheduler` | `acquire` and the release closures, one action per path | |
| `MatrixRun` | the goroutines of one job's combinations | `ConcurrencyScheduler` (its actions are conjuncts of the goroutines' actions) |
| `MatrixStrategy` | what `strategy:` promises, abstractly | implemented by `MatrixRun` (`Refines`) |
| `WorkflowRun` | `TopoSortJobs`, job loop, exit code | |
| `DependencyRun` | what `needs:` promises, abstractly | implemented by `WorkflowRun` (`RespectsNeeds`) |
| `JobRun` | `RunJob`, `runStep`, `prepareUsesStep`, composites, masks, on three backends | |
| `JobContext` | the data of a job: env, inputs, outputs, state | `JobRun` (each action is one of its actions with what it does to the data), `Expressions`, `CommandFiles` |
| `Expressions` | the expression language and the contexts, as operators | |
| `CommandFiles` | the command files and old output commands, as operators | |
| `JobOutline` | a job as `MatrixRun` sees it | implemented by `JobRun` (`FitsTheMatrix`) |
| `MatrixExpand` | `ExpandMatrix` | |
| `CacheStore` | the cache store under several invocations | |
| `ArtifactStore` | the artifact server under several uploads | |
| `DockerJob` | `StartJob` and `Stop` of several combinations | |
| `ActionCache` | `FetchRemote`, and `EnsureNode` which is like it, by concurrent calls | |
| `MatrixRunProofs`, `WorkflowRunProofs`, `JobRunProofs`, `MatrixExpandProofs`, `DockerJobProofs`, `ActionCacheProofs`, `CacheStoreProofs`, `ArtifactStoreProofs` | theorems, with their proofs, about the module each is named for, and in `JobRunProofs` about `JobContext` too (section 4) | |

`MC...` modules hold the constants for TLC and nothing else.  Operators with names
like `AnyTurn`, `SemHasRoomOffByOne` or `OpenTruncating`, placed just before the
operator they resemble and used nowhere, are variants with a plausible bug; with
one in place of the original the property named in `PROJECT.json` is violated, so
each property is known to depend on the code it is about.

**MatrixRun.**  `pc[i]` is where goroutine `i` stands: `turn` (waiting on
`starts[i-1]`), `queued` (for the semaphore), `signal` (token held, next one not yet
told), `check` (fail-fast), `setup` (group expression), `acquire`, `select`
(backend), `run`/`exec` (`RunJob` between and inside processes), `record`, `release`,
`leave` (the deferred receive from the semaphore), `done`.  An action is the code between two points where another goroutine can
interfere; the bodies under `mu` are single actions.  `job` is the job's strategy,
chosen in `Init`, together with the group each combination's expression gives:
one of `Groups`, none, or an error.  The scheduler's `gen[g] = 0` stands for an
absent map entry.  The panic-free early returns of the code (skip, error, give-up)
are separate actions.

**WorkflowRun.**  The recursion of `visit` is an explicit stack of frames with the
needs still to look at; the range over a map or list of needs is in any order.

**JobRun.**  The recursion of `runStep` is a stack of frames, each one scope of the
steps context.  A process is two actions, start and exit, because the context can
end in between.  The secret is one value: a process may register it and may print
it, and a report records whether it shows.  `BackendOf` gives each job its backend:
Docker and the macOS host both need a live context to copy or to start anything and
differ in docker actions; a dry run copies nothing, starts nothing, and is refused
nothing.  Steps of composites are reached through `Bodies`, the step lists there are;
`StepsWithin` is the least set that has a job's steps and, with a composite step, its
action's.

**JobContext.**  `scopes` runs parallel to `frames`: the env, the step outputs and
the inputs of each frame.  `proc` is what the running process was given and will
say, `mains` what each pending post will get of its main.  A script is a sequence of
sayings, each to a command file or to the standard output; a process that fails or
is killed has said a prefix of it, possibly cut inside a heredoc.  The files are
then parsed line by line as `ParseKeyValueFile` does, so a misread line is in the
model.  Values, names and expressions are strings and parsed expressions of a small
set; the ranges over Go maps in `lookupStringCI` are choices.  It is assumed that
names consist of letters and digits, that ids differ inside a composite, that a
heredoc has one line and that a process writes nothing after it has ended.  The
job's context stays live and nothing is masked here; `JobRun` has those cases.
Exported constants such as `GITHUB_WORKSPACE` or `GITHUB_TOKEN` are left out.

**ActionCache.**  The file system as `FetchRemote` uses it: a directory is removed
by unlinking its files and then itself, `tar` keeps the directory it changed to even
if another call removes it, opens and closes its files one by one, and fails in a
directory that is gone; a copy lists the directory first.  `Breaks` is any failure
or kill, and leaves what was written.

**MatrixExpand.**  The loop over the axes makes one pass over the combinations for each
axis, `applyMatrixExclude` one more; `built` is what the pass has made so far, and each
combination of a pass is an action, as is each include entry.  The properties speak of
*picks*, places in the axes' lists, so that an axis that lists a value twice has two
combinations for it.  `Merged` is `@@`, spelt out because the provers do not know it.

**CacheStore.**  `os.WriteFile` is two actions (truncate, write); `End` is exit or
crash at any point.  **ArtifactStore.**  Opening and writing are two actions; a
deleted file's handles belong to an older incarnation.  `os.RemoveAll` of an
artifact is one action.  **DockerJob.**  Each `docker` command is an action that can
fail and does not start under a context that is done.

## 3. Runs

| Run | Checks | Bounds |
|---|---|---|
| `matrix` | the fan-out's safety, refinement and termination; the job's outputs when run serially | N = 3, five strategies, one group |
| `matrix_preempt` | *violated*: see 5.1 | N = 4, one preempting group |
| `workflow` | sort, loop, exit code, refinement, termination | all graphs of 4 jobs with at most 2 needs, one unknown name |
| `job` | executor, posts, masks, conditions, a post's files, refinement, termination | every pair of steps over 12 kinds on Docker, four jobs of 2 or 3 steps, jobs on the host and dry runs, nesting to the real limit of 10 |
| `job_masks` | *violated*: see 5.2 | as `job` |
| `data` | how command files are read; environment, state of posts, outputs | every job of up to 3 steps from a palette of 14; nesting limit 2 |
| `cache` | whole archives, best match, survival | 3 invocations, 3 saves, 3 keys, 2 versions, 2 chunks, symmetric |
| `actions` | copies of one whole version; a warm cache rests | 3 calls, 2 versions of 2 files, symmetric |
| `docker` | clean-up, network, readiness, termination | 2 combinations, 2 services, one with a health check |
| `expand` | product and excludes in order; no include entry lost, entries matched on the axes (under the conditions of 5) | 2 axes of up to 2 values, a value twice included, 1 exclude entry, 2 include entries over 3 names |
| `artifact` | acknowledged parts and round trips | 2 uploads of up to 3 units |
| `artifact_blocks` | *violated*: see 5.3 | 1 upload |

The type invariants of the modules other than `MatrixRun` are checked by no run; where a
module has proofs, they are part of its inductive invariant.

Why the bounds are enough to be interesting.  Three combinations let one run, one
queue and one be superseded or skipped; the counter's reuse needs four (one to
register, one to supersede it, one to register anew and one that should have
cancelled it).  Limits 1, 2 and the default cover a full, a partly full and a free
semaphore.  Four jobs hold every cycle, diamond and chain that two needs can make.
Two steps of every kind give every pair of outcomes before a condition, and the
three-step jobs put two posts around a third step and a composite between steps.
Three invocations allow one to crash, one to overlap and one to come later.  With
two uploads one can overwrite, overlap or follow the other.  Three calls of
`FetchRemote` let one break off, one start while another removes or extracts, and one
find what they left.  The palette of `data` has one step for each way data takes
through a job (own env, command file, heredoc, old command, input and default,
composite, one used by a step with an env of its own, nested composite, state, post),
and three of them are enough for one to set a value, one to change it and one to use
it.  Its matrix has an integer and a float, which expressions tell apart (section 5).

The inductive invariants of `CacheStore`, `ArtifactStore` and `ActionCache` were checked
by TLC before they were proved, and on larger instances than the runs have: three
uploads (4.4 million states), and three versions of an action of which one has no
`action.yml`, by two calls.  That instance showed that a copy is whole only of a version
that has the marker file, since a directory without it is never taken to be warm and so
may be removed while it is read; `CopiesAreWhole` says so.

The runs check for deadlock, but for `cache` and `actions`, where all calls may have ended and no more come.

Coverage of the interesting cases: between them the passing runs take every action
of their modules, give-ups, supersessions, timeouts, faults and broken-off requests
included.

### Fairness

* `MatrixRun`: weak fairness of each goroutine's steps, as the Go scheduler gives,
  and of the end of a started process; strong fairness of `JobReturns`, because a
  job has finitely many steps (`AlwaysReturns` of `JobRun`).  Timers and
  cancellations are never required.
* `WorkflowRun`, `JobRun`: one goroutine, weak fairness of its progress; errors and
  the end of the context are possible and never required.
* `DockerJob`: commands return, the wait for health has a deadline, a command under
  a context that is done fails.
* `CacheStore`, `ArtifactStore`, `ActionCache`, `JobContext`, `MatrixExpand`: safety
  only.  That a job's steps come to an end is `AlwaysReturns` of `JobRun`; that a download
  ends is not promised (section 5).

## 4. What is proved

Every theorem holds for all values of the constants that satisfy the named `ASSUME`s of
its module: any number of jobs, combinations, calls, uploads or invocations, any graph,
any nesting of composites, any axes.  The assumptions say what kind of value a constant
is (a list is a list, `None` is not one of the values it stands beside, an artifact kind
has the protocol's shape); TLC evaluates them on every run.

Each proof module states its inductive invariant `IInv` as a conjunction of named parts,
proves `Invariance` action by action, with one step per part the action can disturb, and
derives the properties from it.  The invariants of the runs are not inductive
themselves; what had to be added is what follows.

| Module | Proved, for the property of the run |
|---|---|
| `MatrixRunProofs` | `TypeCorrect`, `MaxParallel`, `IndexOrder`, `FailFast`, `QueueExclusion`, `LiveRegistration`, `NoLeak`, `SuccessIsTotal`, `SerialOutputs`; the action property `OnlyNewcomerCancels`; the refinement `ImplementsStrategy` |
| `WorkflowRunProofs` | `TypeCorrect`, `SortsTopologically` (`OrderIsTopological`), `SortIsExact` (`SortRejectsExactlyBadGraphs`), `FailureReachesDownstream` (`SkipsExactlyDownstream`), `ZeroIsSuccess` (`ZeroMeansAllSucceeded`); the refinement `Refinement` (`RespectsNeeds`) |
| `JobRunProofs` | `TypeCorrect`, `JobFailsOnUnhandled` (`FailsOnFirstUnhandled`), `LaterStepsAreMasked` (`MaskedInLaterSteps`), `PostsFindTheirAction` (`PostFindsOwnAction`), `PostsRunInReverse` (`PostsMirrorMains`); the refinement `RunsAsOutlined` (`FitsTheMatrix`).  Of `JobContext`: `EnvFollowsProgramOrder` (`EnvInProgramOrder`), `PostsSeeTheirMain` (`PostSeesItsMain`); `DataRunsAsJob`, that it implements `JobRun` |
| `MatrixExpandProofs` | `ExpandsInOrder` (`OriginalsInOrder`), `IncludesOnAxes` (`IncludesMatchOnAxes`), `NamesInvariance` |
| `DockerJobProofs` | `TypeCorrect`, `LeavesNothingBehind` (`CleanAfterStop`), `StepsFindServicesReady` (`ServicesReadyFirst`) |
| `ActionCacheProofs` | `TypeCorrect`, `UndisturbedCopiesAreWhole` (`CopiesAreWhole`); the action property `NoAutoRefresh` (`WarmStaysWarm`) |
| `CacheStoreProofs` | `WholeBlobs` (`ServedBlobsAreWhole`), `Restorable` (`SavedIsRestorable`), `BestIsFound` (`FindIsBest`) |
| `ArtifactStoreProofs` | `PartsStay` (`AcknowledgedIsStored`), `RoundTrip` (`DownloadedAsUploaded`) |

**MatrixRun.**
* `SemInv`: the semaphore counts exactly the goroutines between taking and
  returning a token.  `MaxParallelRespected` needs it, as the guard reads the
  counter and not the goroutines.
* `ChainInv`: who has been signalled, and that signals go in index order.
* `ClosureInv`: which closure a goroutine holds, by where it stands.
* `SlotInv`: a group's slot is held by exactly one goroutine with a slot closure;
  one that gave up has its context done, and so cannot be inside a process.
* `GenInv`: a group's generation and cancel entry are deleted together, a
  registration is the one its owner captured, and before `acquire` only a timer can
  have ended a context.
* `FlagInv`, `OutcomeInv`, `FirstErrInv`: how the result slots, the first error and
  `stopStartingNew` follow from what goroutines have recorded; a skip implies the
  flag and so a recorded failure.
* `VerdictInv`: the verdict is the aggregation over finished goroutines.

The refinement maps each goroutine's place to a phase of the strategy;
most steps stutter, and the ones that do not use `MaxParallelRespected` (a start),
the flag's meaning (a skip) and `VerdictInv` (the conclusion).

`SerialOutputs` needs an invariant of its own, `SerialInv`, stated beside `IInv`:
with room for one, a goroutine that has recorded and one that is inside cannot be in
the wrong order, because a later one passes the semaphore only after every earlier
one has returned its token.  From that, the goroutine that records is the last of
those that have, and its outputs are the ones `SerialOutputsAreLast` names
(`SerialOutputsStep`, `RecordedKept`).

**WorkflowRun.**  `MarkInv` ties the marks to the two places a job can be in, the stack
and the order, and says it is in one of them once.  `StackInv`: a frame was pushed for a
need of the frame below it, and the needs it is through with are placed; so finding a
need that is being visited closes a cycle, which makes the rejection exact.  `OrderInv`
is the topological order of what is placed so far.  For the job loop, `SettledInv`: the
order is settled from its front; `CauseInv`: what ran had all its needs succeed, and a
skip has a failure upstream.  That an accepted graph has no cycle follows from the order:
along a cycle the places would have to decrease for ever, so the least place of a job on
it has a need before it.

**JobRun.**  `FramesInv`: each frame on the stack stands at one of its steps, and a frame
with another one on it stands at the composite step whose list that one is.
`ReportsInv`: the reports are those of the job's own steps that are over, then those of
posts, and only the last step can have failed the job.  `MaskInv`: what has registered
the secret, a report or a frame still open, has it in the registry, and nothing after it
shows it; the open frames matter, because a composite's report is only made from what its
steps said when it returns.  `StagedInv`: what lies at an id's path was copied for a step
with that id that the job comes to, at any depth.  `CollectedInv` and `PostedInv` carry
the two order-preserving correspondences, from pending posts to steps and from post
reports to pending posts, that `PostsMirrorMains` composes.  The refinement maps all
steps of a composite to stutters of `JobOutline`.

**JobContext.**  Each action contains an action of `JobRun`, so a behaviour of `SpecData` is
one of `Spec` (`DataRunsAsJob`), and the theorems about `JobRun` hold of the job with its
data.  The inductive invariant `DataInv` uses that.  `ScopesInv`: there is one scope for
each frame.  `LogInv`: the process of a step ran at a place the job has passed (`Passed`, the
order of places in nested lists) and before all posts; so no two processes of steps have
the same place, and what was said in a list the job has left is never counted again.
`ProcInv`: a running process got its environment from the scope as it still is.
`MainsInv`: what is kept for a post comes from the one process at its main's place.
`EnvInv` is the heart: the env of every open scope is the job's env with, for each list
from the outermost in, the composite's inputs and what that list's steps have said.  It is
about all open scopes at once, because a step changes the innermost one, and when a
composite returns its caller's must still be what it was.  `EnvInProgramOrder` and
`PostSeesItsMain` are about the moments when processes started, so they are conjuncts of
`DataInv`, preserved because `log` only grows at its end (`MaxIs`, the last layer that has
a name, gives the lemmas about maps over one another).

Both theorems have `ReadAsMeant` as a hypothesis inside the box: that the runner's scanner
gets out of a command file what the process put in, unless something unclear was said (a
heredoc cut short, `<<` in a plain line).  It cuts strings at `=` and `<<`, and to the
provers a string is a constant without parts.  The run `data` checks the hypothesis as an
invariant of its own, on every file its processes write.

**MatrixExpand.**  The list of combinations is followed by a list of picks, and the
invariant says for each phase which set of picks is listed, once and in order: after
`axis`, all picks of the axes crossed in; within a pass, those that continue one of the
picks gone through; in the pass of the excludes, those of them no entry matches; and from
then on exactly `Original`, whatever is included.  `Settled`: each entry gone through is
whole in each original, as it has been extended by then, or contradicts it (`Contradicts`);
`Justified`: each further combination is there for an entry that contradicts all
originals, as extended.  Includes only ever extend a combination (`Extends`), which keeps
all of that (`IncludesExtend`).  These are facts about the code's own matching, which sees
added names.  For matching on the axes a second invariant is needed, `NamesInv`: every
name of a combination that is no axis comes from an include entry that is whole in it
(`FromEntries`).  An entry that contradicts a combination in such a name contradicts that
other entry, and under `AddedNamesAgree` there is none, so that all contradictions are in
an axis; with that `IncludesOnAxes` follows from `Settled` and `Justified`.

**DockerJob.**  `OwnOK`: a combination no command of which went wrong has exactly the
containers its place in `StartJob` or `Stop` says; `ReadyOK`: `StartJob` goes on only
from services it has seen ready; `NetworkInv`: while there is a network, somebody is
still to remove it, or was hindered.

**ActionCache.**  `SureOK` says of a call that nothing should disturb that it is the only
one that fetches, that its `tar` has the directory to itself (`Extracting`), and that
while it copies the directory holds its version and nobody fetches (`Copying`).  The rest
(`CallOK`) holds of every call.  `WarmStaysWarm` needs no more than that a call that finds
the marker takes the directory as it is.

**CacheStore.**  `ClosedInv` and `WritingInv`: what an invocation holds, and that the index
is rewritten only for an entry in memory; `ClockInv`: an entry is known by the instant of
its commit, which makes the best match unique; `HandedOnInv`: invocations alive one at a
time hand what was saved on to the next, through the file.  `FindIsBest` says that an
entry is found if one matches; that the set of matching entries has a latest one is a
well-founded descent on the clock.

**ArtifactStore.**  `FilesInv`, `ProtocolInv`: where files and open requests come from;
`SureInv`: an upload no other interfered with has no competing request left that can
reach its file (`Alone`), and the file holds its units at their places, among them all
that were acknowledged (`Intact`).  `PartsStay` is under the hypothesis `OneBlock`, as
5.3 shows that it fails without, and `RoundTrip` also under `Uncompressed`, for the
reason given there; both are hypotheses of the theorems and not assumptions of the
module, which the run with blocks violates.

Only model-checked:

* Liveness (`AllConclude`, `AlwaysExits`, `AlwaysReturns`, `AllSettle`): the prover has no
  rules for fairness.
* `ReadAsMeant`: see above.
* `OutputsBridge`: what an expression yields is a recursive function on expressions, a
  value of no fixed depth, and unfolding it needs an induction the provers cannot be
  given.  Facts about sets of natural numbers, such as a least or a last place, are
  proved without one, from the well-foundedness of `<`.

## 5. Where code and documentation disagree

1. `matrix_preempt`: the generation counter restarts after a release, so a late
   release can delete a newer holder's registration, which the comment at
   `concurrency_scheduler.go:17-21` says can never happen.  What does hold is that a
   *present* registration is live (`RegistrationIsLive`, proved).
2. `job_masks`: a post's output is reported as it is, against `docs/usage.md:284-287`.
   For the steps proper the promise holds (`MaskedInLaterSteps`).
3. `artifact_blocks`: the blocks of a v4 artifact overwrite each other.  The same
   property fails for a compressed v3 item, which the constants of the run include:
   it is listed by its name on disk, suffix and all, and then served without the
   content encoding (leave the v4 kind out of `LargeKinds` to see it).

What else was met while modelling; the models do what the code does, and the
properties are stated around it.

* Unnamed steps of a job and of a composite share ids (`step-<index>`) and so the
  path their action is copied to, against `actions/node.go:22-24` ("distinct actions
  in the same job never collide"): a post may start from another action's files.
  `PostFindsOwnAction` excepts such ids.
* With only `include`, entries that do not contradict each other are merged
  (`matrix.go:141`), against `docs/usage.md:154-155` and `matrix.go:25-27`, which make
  each a combination: `include: [{os: a}, {tag: 1}]` gives one combination, not two.
* An include entry is matched against all a combination has by then, what earlier
  entries added included (`matrix.go:176-179`), against `matrix.go:172-175` and
  `docs/usage.md:152-154`, which match on the axes: of `include: [{tag: 1}, {tag: 2}]`
  the second becomes a combination of its own, although it agrees with every original on
  the axes.  For this and the item before `IncludesMatchOnAxes` is stated for a matrix
  with axes whose entries agree on the names they add (`AddedNamesAgree`): there matching
  against all a combination has and matching on the axes come to the same, which is what
  the property and its proof say.  Of other matrices it says only that no entry is lost.
  Without `AddedNamesAgree` TLC refutes it by this example.
* A plain line with `<<` in its value is read as the start of a heredoc
  (`files.go:58`), and so swallows the lines after it.  `bufio.Scanner` refuses a
  line of 64 KiB or more, which ends the job with an error.
* `GITHUB_PATH` and `GITHUB_STEP_SUMMARY` files are created and given to the process
  (`docs/usage.md:98-100`) but never read.
* The `env:` of a step that uses a composite is not part of its nested steps' env,
  against the comment at `composite_step.go:11-17`; the inputs of an enclosing
  composite, however, are, and reach a nested action as its own inputs where it
  declares no default.
* `env:` blocks are never substituted.
* An integer in a matrix is an `int` as YAML decoding leaves it (`workflow.go:54`), and
  expressions know `float64` and Booleans only: `matrix.arch < 3` is an error, which ends
  the job, and the integer 0 is true (`expr.go:89-102`, `expr.go:118-130`).
  `Expressions` has both kinds of number.
* The comment at `expr.go:206-208` says that property names are matched with regard to
  case; `context.go:85-89` and `expr_test.go:107` say they are not.  The code does what
  the latter say, and so does the model.
* `hashFiles()` walks `github.workspace`, which in a Docker job is a path inside the
  container.
* A dry run still fetches actions and builds their images, against the comment at
  `dryrun.go:54-56`.
* `curl` runs without the job's context (`fetch.go:35`), so a download that hangs
  outlives `timeout-minutes`.  A step that is cut off in a container is: only the
  `docker exec` client is killed, and the process goes on until `Stop`.  The
  exclusion of `QueueExclusive` is of what the runner waits for.
* `RedactMasks` applies the masks in the order they were registered; where one is
  part of another the rest of the longer may stay.

Conditions in passing properties that are there for a reason: `SavedIsRestorable`
holds for invocations that do not overlap, since the later commit rewrites the index
without the other's entries; `CleanAfterStop` for combinations without a failed
command, since `Stop` runs under the job's own context; `CopiesAreWhole` for calls
that no other one overlapped while fetching, since there is no lock, and for versions
with an `action.yml`, without which a directory is fetched anew; the properties of
`JobContext` for processes before which nothing unclear was said (a cut heredoc, a
plain value with `<<`);
`IncludesMatchOnAxes` for matrices with axes whose entries agree on added names, as above;
`OutputsBridge` accepts the value of either of two names that differ only in case, since
the code ranges over a map; `ServicesReadyFirst` for services whose inspection did not
fail, since a failing `docker inspect` counts as ready;
`PostsMirrorMains` for jobs that return a result, since an error ends a job at once;
`DownloadedAsUploaded` for uploads no other upload of the artifact interfered with,
since files are never truncated.

## 6. Not modelled

YAML decoding and the validation of fields, the vendored expression parser, event
payloads, credentials and `hashFiles`: pure functions over text, covered by unit
tests.  Of the expression language `format`, `join`, `toJSON` and `fromJSON` are left
out, as they only format and parse.  How annotations are displayed, Docker registry
logins (process-wide, which the documentation names as a limitation), the arguments
of `docker` commands, the host backend's translation of paths and its refusal of
`container:` and `services:`, the reading of flags and the printed report are left
out.  Vendored code is left out.

## 7. Plan

Done, in this order, the most important behaviour first: `ConcurrencyScheduler` and
`MatrixRun` with `MatrixStrategy`; its proofs; `WorkflowRun` with `DependencyRun`;
`JobRun` with `JobOutline`; `CacheStore`; `DockerJob`; `MatrixExpand`;
`ArtifactStore`; `ActionCache`; `Expressions`, `CommandFiles` and `JobContext`; the
backends in `JobRun`; the serial outputs of a matrix, checked and proved; the proofs of
`DockerJob`, `WorkflowRun`, `ActionCache`, `CacheStore`, `ArtifactStore`, `JobRun`,
`MatrixExpand` and `JobContext`.  For the last three, operators the provers cannot reason
about were written anew (`Layered` was a fold), and the passes of `ExpandMatrix` opened
into their steps.

Open:

1. Lemmas about the operators of `Expressions` that are not recursive: which of two names
   `lookupStringCI` may find.
2. `IncludesMatchOnAxes` without its two conditions, should the code come to match on the
   axes only.
