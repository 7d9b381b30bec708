---------------------------- MODULE MCJobContext ----------------------------
(***************************************************************************)
(* JobContext for TLC: the jobs of up to MaxSteps steps from a palette in   *)
(* which each step is about one way data takes through a job.              *)
(***************************************************************************)
EXTENDS JobContext

CONSTANT MaxSteps      \* bound: steps of a job

UpperOf == "a" :> "A" @@ "in" :> "IN" @@ "out" :> "OUT" @@ "Out" :> "OUT" @@ "res" :> "RES"
             @@ "ref" :> "REF" @@ "emit" :> "EMIT" @@ "comp" :> "COMP" @@ "use" :> "USE"
             @@ "last" :> "LAST" @@ "arch" :> "ARCH" @@ "os" :> "OS" @@ "build" :> "BUILD"
             @@ "key" :> "KEY" @@ "level" :> "LEVEL"

MCUpper(s) == IF s \in DOMAIN UpperOf THEN UpperOf[s] ELSE s

\* Expressions.
Lit(v) == [op |-> "lit", value |-> v]
Text(s) == Lit(Str(s))
Ref(path) == [op |-> "ref", path |-> path]
Op(op, args) == [op |-> op, args |-> args]
Call(name, args) == [op |-> "call", name |-> name, args |-> args]

EnvA == Ref(<<"env", "A">>)
EnvOrDefault == Op("||", <<EnvA, Text("none")>>)
InputIn == Ref(<<"inputs", "in">>)
StepOut == Ref(<<"steps", "emit", "outputs", "OUT">>)
CompRes == Ref(<<"steps", "comp", "outputs", "res">>)
NestedOut == Ref(<<"steps", "emit", "outputs", "out">>)
Arch == Ref(<<"matrix", "arch">>)
OnLinux == Op("&&", <<Op("&&", <<Arch, Op("==", <<Ref(<<"runner", "os">>), Text("Linux")>>)>>),
                      Op("<", <<Ref(<<"matrix", "level">>), Lit(Num(3))>>)>>)
Status == Op("!", <<Op("&&", <<Call("success", <<>>), Call("failure", <<>>)>>)>>)
Parts == Op("==", <<Call("contains", <<Ref(<<"needs", "build", "result">>), Text("cc")>>),
                    Call("startsWith", <<Ref(<<"github", "ref">>), Text("refs/")>>)>>)
Secret == Ref(<<"secrets", "key">>)
NoOrder == Op("<", <<Arch, Lit(Num(3))>>)
NoContext == Ref(<<"strategy", "x">>)

Subexprs(e) == {e} \cup IF "args" \in DOMAIN e THEN {e.args[k] : k \in DOMAIN e.args} ELSE {}

MCExprs ==
  LET top == {EnvOrDefault, InputIn, StepOut, CompRes, NestedOut, OnLinux, Status, Parts,
              Secret, NoOrder, NoContext} \cup {Text(s) : s \in {"0", "1", "2", "x", "1<<2"}}
      one == UNION {Subexprs(e) : e \in top}
      two == UNION {Subexprs(e) : e \in one}
  IN  UNION {Subexprs(e) : e \in two}

\* Sayings.
Say(to, form, name, e) == [to |-> to, form |-> form, name |-> name, expr |-> e, var |-> None]
SayVar(to, name, v) == [to |-> to, form |-> "plain", name |-> name, expr |-> None, var |-> v]

\* Steps.
Plain == [id |-> "x", cond |-> "none", continueOnError |-> FALSE, uses |-> None,
          env |-> EmptyMap, with |-> EmptyMap, script |-> <<>>]
Run(i, script) == [Plain EXCEPT !.id = i, !.script = script]
Use(i, action, with) == [Plain EXCEPT !.id = i, !.uses = action, !.with = with]

MCIds == {"emit", "use", "comp", "last"}

MCAction ==
  [setup |-> [kind |-> "node", post |-> "always", body |-> <<>>, inputs |-> ("in" :> "0"),
              env |-> EmptyMap, outputs |-> EmptyMap,
              script |-> <<SayVar("state", "key", "INPUT_IN"), SayVar("env", "A", "INPUT_IN")>>,
              postScript |-> <<SayVar("env", "A", "STATE_key")>>],
   image |-> [kind |-> "docker", post |-> None, body |-> <<>>, inputs |-> ("in" :> ""),
              env |-> ("INPUT_IN" :> "2"), outputs |-> EmptyMap,
              script |-> <<SayVar("output", "out", "INPUT_IN")>>, postScript |-> <<>>],
   nest |-> [kind |-> "composite", post |-> None, inputs |-> ("in" :> "1"), env |-> EmptyMap,
             outputs |-> ("res" :> NestedOut), script |-> <<>>, postScript |-> <<>>,
             body |-> <<Run("emit", <<Say("env", "plain", "A", InputIn),
                                      Say("output", "plain", "out", InputIn)>>),
                        Use("use", "image", EmptyMap)>>],
   deep |-> [kind |-> "composite", post |-> None, inputs |-> EmptyMap, env |-> EmptyMap,
             outputs |-> ("res" :> NoContext), script |-> <<>>, postScript |-> <<>>,
             body |-> <<Run("emit", <<Say("env", "plain", "A", Secret)>>)>>],
   twice |-> [kind |-> "composite", post |-> None, inputs |-> EmptyMap, env |-> EmptyMap,
              outputs |-> EmptyMap, script |-> <<>>, postScript |-> <<>>,
              body |-> <<Use("comp", "nest", "in" :> Text("x")),
                         Run("last", <<SayVar("env", "A", "INPUT_IN")>>)>>],
   self |-> [kind |-> "composite", post |-> None, inputs |-> EmptyMap, env |-> EmptyMap,
             outputs |-> EmptyMap, script |-> <<>>, postScript |-> <<>>,
             body |-> <<[Plain EXCEPT !.id = "comp", !.uses = "self"]>>]]

EmitFirst == Run("emit", <<Say("env", "heredoc", "A", Text("0")),
                           Say("env", "plain", "A", Text("1")),
                           Say("stdout", "colon", "out", Text("0")),
                           Say("stdout", "bracket", "out", Text("1")),
                           Say("output", "plain", "out", Text("x"))>>)

\* The steps the jobs are made of.
Palette ==
  { \* outputs in all forms, from a step whose failure is excused
    [EmitFirst EXCEPT !.continueOnError = TRUE],
    \* a heredoc, then a line that is taken for one
    Run("emit", <<Say("env", "heredoc", "A", Text("2")), Say("env", "plain", "B", Text("1<<2")),
                  Say("output", "plain", "out", Text("x"))>>),
    \* names that differ in case
    Run("emit", <<Say("env", "plain", "a", Text("0")), Say("output", "plain", "Out", EnvA)>>),
    \* an env of its own, part of which the github context overrides
    [Run("last", <<SayVar("env", "A", "A"), SayVar("env", "B", "GITHUB_REF")>>)
       EXCEPT !.env = ("A" :> "2" @@ "GITHUB_REF" :> "0")],
    \* the language
    Run("last", <<Say("env", "plain", "A", OnLinux), Say("stdout", "colon", "out", Status),
                  Say("env", "plain", "B", Parts)>>),
    \* a node action with and without its input, a docker action
    Use("use", "setup", "in" :> EnvOrDefault), Use("last", "setup", EmptyMap),
    Use("use", "image", EmptyMap),
    \* composites: one with a step of the same id as the job's and with an env
    \* of the step that uses it, which no process gets; one that nests
    [Use("comp", "nest", "in" :> EnvA) EXCEPT !.env = ("B" :> "2")],
    Use("comp", "twice", EmptyMap),
    \* what is skipped, has no value or nests too deep
    [Run("emit", <<>>) EXCEPT !.cond = "failure"],
    Use("comp", "deep", EmptyMap), Use("use", "setup", "in" :> NoOrder),
    Use("comp", "self", EmptyMap) }

MCJobSteps == UNION {[1..n -> Palette] : n \in 1..MaxSteps}

MCBackendOf == [job \in MCJobSteps |-> "docker"]

MCEnvLayers == << "A" :> "0", "B" :> "0", EmptyMap, "B" :> "1" >>

MCGitHub == "ref" :> "refs/heads/main"

MCContexts == [needs |-> "build" :> [result |-> "success", outputs |-> EmptyMap],
               \* the integer 0 and the float 2.0 of a YAML file
               matrix |-> "arch" :> Integer(0) @@ "level" :> Num(2),
               vars |-> EmptyMap, secrets |-> "key" :> "x",
               runner |-> "os" :> Str("Linux")]

MCJobOutputs == "out" :> StepOut @@ "res" :> CompRes @@ "last" :> EnvOrDefault
=============================================================================
