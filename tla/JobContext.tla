----------------------------- MODULE JobContext -----------------------------
(***************************************************************************)
(* The data of a job: JobRun with the env and steps contexts that RunJob,  *)
(* runStep and runCompositeSteps keep, the environment each process gets,  *)
(* what it says to the runner, the state that goes from a main to its      *)
(* post, and the job's outputs (internal/engine/executor.go, uses_step.go, *)
(* composite_step.go; internal/actions/input_env.go).                      *)
(*                                                                         *)
(* Each action is one of JobRun's with what it does to the data.  A step   *)
(* has further fields here: env, with (inputs to expressions) and script;  *)
(* an action has inputs (with their defaults), env, script, postScript and *)
(* outputs.  A script is the sequence of things its process says, each to  *)
(* a file or, in one of two old forms, to the standard output; a process   *)
(* that fails or is killed has said only some of them.  The job's context  *)
(* stays live here, its backend starts processes and nothing is masked:    *)
(* JobRun has the other cases.                                             *)
(*                                                                         *)
(* `log' is a history variable, what each process got and said.            *)
(***************************************************************************)
EXTENDS JobRun, Expressions, CommandFiles

CONSTANTS EnvLayers,    \* env of workflow, job, command line, container
          GitHub,       \* the github context, of strings only
          Contexts,     \* the other contexts that stay as they are
          JobOutputs    \* the job's outputs, to expressions

VARIABLES scopes,       \* per frame: its env, its steps' outputs, its inputs
          proc,         \* the process running: what it got and will say
          mains,        \* per pending post: what its main leaves to it
          outputs,      \* result.Outputs
          log           \* see above

dataVars == <<scopes, proc, mains, outputs, log>>

\* The maps one over the other: the last one that has a name gives its value.
Layered(maps) ==
  [n \in UNION {DOMAIN maps[k] : k \in DOMAIN maps} |->
     maps[Max({k \in DOMAIN maps : n \in DOMAIN maps[k]})][n]]

NoOutputs == [id \in Ids |-> EmptyMap]

InitData ==
  /\ Init
  /\ scopes = <<[env |-> Layered(EnvLayers), outputs |-> NoOutputs, inputs |-> EmptyMap]>>
  /\ proc = None
  /\ mains = <<>>
  /\ outputs = EmptyMap
  /\ log = <<>>

-----------------------------------------------------------------------------
(* Contexts and environments.                                              *)

\* The contexts of the frame at depth k.  A composite has no secrets.
Ctx(k) ==
  LET ran == {id \in Ids : frames[k].outcome[id] # None} IN
  [Contexts EXCEPT !.secrets = IF k = 1 THEN @ ELSE EmptyMap]
    @@ [env |-> scopes[k].env, github |-> [n \in DOMAIN GitHub |-> Str(GitHub[n])],
        steps |-> [id \in ran |-> [outcome |-> frames[k].outcome[id],
                                   outputs |-> scopes[k].outputs[id]]]]

Here == Len(frames)

\* Where the current step is: its index in each frame.
At == [k \in 1..Here |-> frames[k].next]

\* The maps a family of values allows: one choice for each name.
Maps(sets) == {m \in [DOMAIN sets -> UNION {sets[n] : n \in DOMAIN sets}] :
                 \A n \in DOMAIN sets : m[n] \in sets[n]}

Substituted(exprs, ctx) == Maps([n \in DOMAIN exprs |-> Substitute(exprs[n], ctx)])

\* Keyed(map, key): map with its names rewritten by key.
Keyed(map, Key(_)) ==
  [n \in {Key(k) : k \in DOMAIN map} |-> map[CHOOSE k \in DOMAIN map : n = Key(k)]]

\* exportGitHubContextEnv.
GitHubEnv == Keyed(GitHub, LAMBDA k : "GITHUB_" \o Upper(k))

\* InputEnv: the defaults that are not empty, then the step's with.
InputEnv(action, with) ==
  LET given == {n \in DOMAIN action.inputs : action.inputs[n] # ""}
  IN  Keyed(with, InputKey) @@ Keyed([n \in given |-> action.inputs[n]], InputKey)

\* What prepareUsesStep adds for a step of each kind.
PlanEnv(step, with) ==
  CASE Kind(step) = "run" -> EmptyMap
    [] Kind(step) = "docker" -> Action[step.uses].env @@ InputEnv(Action[step.uses], with)
    [] OTHER -> ("GITHUB_ACTION_PATH" :> step.id) @@ InputEnv(Action[step.uses], with)

\* What a process gets besides the env context, from the weakest on: the
\* step's env, the github context, the plan's.
OwnEnv(step, with) == Layered(<<step.env, GitHubEnv, PlanEnv(step, with)>>)

-----------------------------------------------------------------------------
(* Processes.                                                              *)

ScriptOf(step) == IF Kind(step) = "run" THEN step.script ELSE Action[step.uses].script

\* What is said is an expression in a run: command, substituted before the
\* process starts, or a variable of the process's environment.
Texts(script, ctx, env) ==
  Maps([k \in DOMAIN script |->
          IF script[k].var # None
          THEN {IF script[k].var \in DOMAIN env THEN env[script[k].var] ELSE ""}
          ELSE Substitute(script[k].expr, ctx)])

Said(script, texts) ==
  [k \in DOMAIN script |-> [to |-> script[k].to, name |-> script[k].name,
                            form |-> script[k].form, text |-> texts[k]]]

\* The lines of one saying: NAME=value, or a heredoc.
Lines(s) == IF s.form = "plain" THEN <<s.name \o "=" \o s.text>>
            ELSE <<s.name \o "<<" \o "EOF", s.text, "EOF">>

\* The lines of a file after what was said, and cut lines of what comes next.
FileLines(said, next, cut, file) ==
  LET Of(s) == IF s.to = file THEN Lines(s) ELSE <<>>
      whole == FlattenSeq([k \in DOMAIN said |-> Of(said[k])])
  IN  IF cut > 0 /\ next.to = file THEN whole \o SubSeq(Lines(next), 1, cut) ELSE whole

ToStdout(said) == SelectSeq(said, LAMBDA s : s.to = "stdout")

\* How a process may end: it has said `said' and `cut' lines of the next.
Endings(succeeds) ==
  {e \in [n : 0..Len(proc.says), cut : 0..2] :
     /\ succeeds => e.n = Len(proc.says)
     /\ e.cut > 0 => /\ e.n < Len(proc.says)
                     /\ proc.says[e.n + 1].form = "heredoc"}

SaidBy(e) == SubSeq(proc.says, 1, e.n)

File(e, file) ==
  ParseKeyValueFile(FileLines(SaidBy(e), IF e.cut > 0 THEN proc.says[e.n + 1] ELSE None,
                              e.cut, file))

LegacyWins(file, legacy) == legacy @@ file

FileWins(file, legacy) == file @@ legacy

Entry(e, isPost, inputs) ==
  [at |-> proc.at, post |-> isPost, env |-> proc.env, own |-> proc.own, plan |-> proc.plan,
   inputs |-> inputs, said |-> SaidBy(e), cut |-> e.cut]

-----------------------------------------------------------------------------
(* Steps.                                                                  *)

Quiet == ~masked' /\ \A k \in DOMAIN frames' : ~frames'[k].shows

SkipStepData ==
  /\ SkipStep
  /\ scopes' = [scopes EXCEPT ![Here].outputs[Current.id] = EmptyMap]
  /\ UNCHANGED <<proc, mains, outputs, log>>

StartStepData ==
  /\ StartStep
  /\ \E with \in Substituted(Current.with, Ctx(Here)) :
       LET own == OwnEnv(Current, with)
           env == Layered(<<scopes[Here].env, own>>)
       IN  \E texts \in Texts(ScriptOf(Current), Ctx(Here), env) :
             proc' = [at |-> At, env |-> env, own |-> own,
                      plan |-> PlanEnv(Current, with),
                      says |-> Said(ScriptOf(Current), texts)]
  /\ UNCHANGED <<scopes, mains, outputs, log>>

\* The outputs and the env updates count however the process ended.
StepExitsData ==
  /\ StepExits /\ Quiet
  /\ \E e \in Endings(frames'[Here].outcome[Current.id] = "success") :
       /\ LET out == FileWins(File(e, "output"), ParseLegacyOutputs(ToStdout(SaidBy(e)))) IN
          scopes' = [scopes EXCEPT ![Here] =
            [env |-> Layered(<<@.env, File(e, "env")>>),
             outputs |-> [@.outputs EXCEPT ![Current.id] = out], inputs |-> @.inputs]]
       /\ mains' = IF CollectsPost
                   THEN Append(mains, [at |-> At, plan |-> proc.plan, state |-> File(e, "state")])
                   ELSE mains
       /\ log' = Append(log, Entry(e, FALSE, [k \in 1..Here |-> scopes[k].inputs]))
  /\ proc' = None
  /\ UNCHANGED outputs

EnterCompositeData ==
  /\ EnterComposite
  /\ \E with \in Substituted(Current.with, Ctx(Here)) :
       LET inputs == PlanEnv(Current, with) IN
       scopes' = Append(scopes, [env |-> Layered(<<scopes[Here].env, inputs>>),
                                 outputs |-> NoOutputs, inputs |-> inputs])
  /\ UNCHANGED <<proc, mains, outputs, log>>

\* A nested scope whose env is the caller's.
LeaveCompositeLeaking ==
  /\ LeaveComposite
  /\ LET caller == frames[Here - 1].body[frames[Here - 1].next] IN
     \E bridged \in Substituted(Action[caller.uses].outputs, Ctx(Here)) :
       scopes' = [Front(scopes) EXCEPT ![Here - 1].outputs[caller.id] = bridged,
                                       ![Here - 1].env = scopes[Here].env]
  /\ UNCHANGED <<proc, mains, outputs, log>>

\* The nested scope goes; only the declared outputs come back.
LeaveCompositeData ==
  /\ LeaveComposite
  /\ LET caller == frames[Here - 1].body[frames[Here - 1].next] IN
     \E bridged \in Substituted(Action[caller.uses].outputs, Ctx(Here)) :
       scopes' = [Front(scopes) EXCEPT ![Here - 1].outputs[caller.id] = bridged]
  /\ UNCHANGED <<proc, mains, outputs, log>>
-----------------------------------------------------------------------------
(* Posts, and the end of the job.                                          *)

StateEnv(state) == Keyed(state, LAMBDA n : "STATE_" \o n)

\* A state file found by the action and not by the step.
PostEnvOfAction(main) ==
  Layered(<<scopes[1].env, main.plan, StateEnv(Last(mains).state), GitHubEnv>>)

\* The context's env as it is by now, the main's plan, its state, github.
PostEnv(main) == Layered(<<scopes[1].env, main.plan, StateEnv(main.state), GitHubEnv>>)

StartPostData ==
  /\ StartPost
  /\ LET env == PostEnv(mains[post])
         script == Action[pending[post].uses].postScript
     IN \E texts \in Texts(script, Ctx(1), env) :
          proc' = [at |-> mains[post].at, env |-> env, own |-> EmptyMap,
                   plan |-> mains[post].plan, says |-> Said(script, texts)]
  /\ UNCHANGED <<scopes, mains, outputs, log>>

\* Of what a post says only the env updates are read.
PostExitsData ==
  /\ PostExits /\ ~reports'[Len(reports')].shows
  /\ \E e \in Endings(reports'[Len(reports')].conclusion = "success") :
       /\ scopes' = [scopes EXCEPT ![1].env = Layered(<<@, File(e, "env")>>)]
       /\ log' = Append(log, Entry(e, TRUE, <<EmptyMap>>))
  /\ proc' = None
  /\ UNCHANGED <<mains, outputs>>

JobFinishedData ==
  /\ JobFinished
  /\ \E values \in Substituted(JobOutputs, Ctx(1)) : outputs' = values
  /\ UNCHANGED <<scopes, proc, mains, log>>

AnyFails(exprs, ctx) == \E n \in DOMAIN exprs : MayFail(exprs[n], ctx)

\* An expression in a step's with or run, in a composite's outputs or in the
\* job's has no value.
EvaluationErrors ==
  /\ \/ /\ AtStep /\ Holds(Current.cond, Innermost)
        /\ \/ AnyFails(Current.with, Ctx(Here))
           \/ /\ Kind(Current) = "run"
              /\ \E k \in DOMAIN Current.script :
                   /\ Current.script[k].var = None
                   /\ MayFail(Current.script[k].expr, Ctx(Here))
     \/ /\ phase = "steps" /\ Over /\ Here > 1
        /\ AnyFails(Action[frames[Here - 1].body[frames[Here - 1].next].uses].outputs, Ctx(Here))
     \/ phase = "posts" /\ post = 0 /\ AnyFails(JobOutputs, Ctx(1))
  /\ Errors
  /\ UNCHANGED dataVars

KeepsData == (StepsFinished \/ SkipPost \/ NestingTooDeep \/ Returned) /\ UNCHANGED dataVars

NextData ==
  \/ SkipStepData \/ StartStepData \/ StepExitsData
  \/ EnterCompositeData \/ LeaveCompositeData
  \/ StartPostData \/ PostExitsData \/ JobFinishedData
  \/ EvaluationErrors \/ KeepsData

SpecData == InitData /\ [][NextData]_<<vars, dataVars>>

-----------------------------------------------------------------------------
(* Properties.  They are stated over what the processes said, as it was    *)
(* meant, for processes before which nothing unclear was said: a heredoc   *)
(* cut short, or a plain NAME=value with << in it, which files.go:58 takes *)
(* for the start of a heredoc.                                             *)

Unclear(entry) ==
  entry.cut > 0 \/ \E k \in DOMAIN entry.said :
                     entry.said[k].form = "plain" /\ Index(entry.said[k].text, "<<") # 0

ClearBefore(i) == \A j \in 1..i - 1 : ~Unclear(log[j])

AsMap(said) == [n \in {said[k].name : k \in DOMAIN said} |->
                  said[CHOOSE k \in DOMAIN said :
                         /\ said[k].name = n
                         /\ \A l \in k + 1..Len(said) : said[l].name # n].text]

\* What a process said to a file: of each name what it said last.
Meant(entry, file) == AsMap(SelectSeq(entry.said, LAMBDA s : s.to = file))

\* files.go: what a process says to a file is what the runner reads from it,
\* whichever form each name had, and a name said again has its last value.
ReadAsMeant ==
  \A i \in DOMAIN log : ~Unclear(log[i]) =>
    \A file \in {"env", "output", "state"} :
      ParseKeyValueFile(FileLines(log[i].said, None, 0, file)) = Meant(log[i], file)

\* What the steps of one list, among past processes, said to GITHUB_ENV.
SaidInList(past, list) ==
  Layered([j \in 1..Len(past) |-> IF Front(past[j].at) = list THEN Meant(past[j], "env")
                                  ELSE EmptyMap])

\* The env of the job, then that of each list around the step and of its own:
\* the inputs of the composite it belongs to and what its steps have said.
EnvBefore(i) ==
  LET at == log[i].at
      past == SubSeq(log, 1, i - 1)
      OfList(k) == Layered(<<log[i].inputs[k], SaidInList(past, SubSeq(at, 1, k - 1))>>)
  IN  Layered(<<Layered(EnvLayers)>> \o [k \in 1..Len(at) |-> OfList(k)])

\* A step's process gets the env of workflow, job, command line and container
\* changed by everything said to GITHUB_ENV before it in program order, by
\* steps that failed too: in its own list and the lists around it, and never
\* by a composite that is over (composite_step.go:33-36); then its own.
EnvInProgramOrder ==
  \A i \in DOMAIN log : ~log[i].post /\ ClearBefore(i) =>
    log[i].env = Layered(<<EnvBefore(i), log[i].own>>)

\* usage.md:262-265: a post gets the state and the inputs of its own main,
\* over the env as all steps and the posts before it have left it, however
\* often the same action is used in the job.
PostSeesItsMain ==
  \A i, j \in DOMAIN log :
    log[i].post /\ ~log[j].post /\ log[j].at = log[i].at /\ ClearBefore(i) =>
      log[i].env = Layered(<<EnvBefore(i), log[j].plan,
                             StateEnv(Meant(log[j], "state")), GitHubEnv>>)

\* What the process at a path said its output is; the file counts before the
\* old commands (executor.go:444-450).
OutputAt(path, name) ==
  LET Of(to, forms) ==
        LET i == CHOOSE i \in DOMAIN log : log[i].at = path /\ ~log[i].post
        IN  SelectSeq(log[i].said, LAMBDA s : /\ s.to = to /\ s.form \in forms
                                              /\ Upper(s.name) = Upper(name))
      file == Of("output", {"plain", "heredoc"})
      bracket == Of("stdout", {"bracket"})
      colon == Of("stdout", {"colon"})
  IN  IF ~\E i \in DOMAIN log : log[i].at = path /\ ~log[i].post THEN ""
      ELSE IF file # <<>> THEN Last(file).text
      ELSE IF bracket # <<>> THEN Last(bracket).text
      ELSE IF colon # <<>> THEN Last(colon).text
      ELSE ""

StepsNamed(body, id) == {k \in DOMAIN body : body[k].id = id}

\* steps.<id>.outputs.<name> of the job, through a composite to its step (in
\* a composite ids are taken to differ): of the last such step it came to.
StepOutput(id, name) ==
  LET reached == {k \in StepsNamed(steps, id) : k <= Len(StepReports)}
      k == Max(reached)
      action == Action[steps[k].uses]
      ref == action.outputs[name].path
      nested == CHOOSE j \in StepsNamed(action.body, ref[2]) : TRUE
  IN  IF reached = {} THEN ""
      ELSE IF Kind(steps[k]) # "composite" THEN OutputAt(<<k>>, name)
      ELSE IF name \in DOMAIN action.outputs THEN OutputAt(<<k, nested>>, ref[4])
      ELSE ""

\* A reference, or a reference || a default (usage.md:82-84).  Of env names
\* that differ only in case either may be found.
Wanted(expr) ==
  LET path == IF expr.op = "ref" THEN expr.path ELSE expr.args[1].path
      env  == Layered(<<Layered(EnvLayers), SaidInList(log, <<>>)>>)
      found == Matching(env, path[2])
      texts == IF path[1] = "steps" THEN {StepOutput(path[2], path[4])}
               ELSE IF found = {} THEN {""} ELSE {env[n] : n \in found}
  IN  {IF expr.op = "||" /\ t = "" THEN ToStr(expr.args[2].value) ELSE t : t \in texts}

\* A job that returns a result has as outputs what the steps they name, in
\* the job's own scope or bridged from a composite's, said last, or the env
\* after all posts; nothing from a step that was skipped, was never reached
\* or has the same id in another scope (composite_step.go:33-39).
OutputsBridge ==
  result \in {"success", "failure"} /\ ClearBefore(Len(log) + 1) =>
    \A name \in DOMAIN JobOutputs : outputs[name] \in Wanted(JobOutputs[name])
=============================================================================
