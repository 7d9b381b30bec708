---------------------------- MODULE Expressions -----------------------------
(***************************************************************************)
(* The evaluation of parsed `${{ }}' expressions: evalNode and what it     *)
(* calls (internal/engine/expr.go) over the contexts of a job              *)
(* (internal/engine/context.go).                                           *)
(*                                                                         *)
(* An expression is a record: a literal, a reference by path, or an        *)
(* operator or function with arguments.  Its meaning is the SET of values  *)
(* it may have: a name is looked up without regard to case by ranging over *)
(* a Go map, so of two names that differ in case either may be found.      *)
(* Left out: format, join, toJSON, fromJSON and hashFiles, whose results   *)
(* are text the properties do not tell apart, and the event payload.       *)
(***************************************************************************)
EXTENDS Integers, Sequences, FiniteSets, TLC

CONSTANTS Exprs,        \* the expressions, closed under arguments
          Upper(_)      \* a name in upper case

Null == <<"null">>
Bool(b) == <<"bool", b>>
Num(n) == <<"num", n>>   \* a number of an expression or of JSON: a float64
Integer(n) == <<"int", n>>   \* an integer of a YAML file, as in a matrix: an int
Str(s) == <<"str", s>>
Err == <<"err">>

\* A value of a type the switch does not name, as an int, is true, 0 too.
Truthy(v) ==
  CASE v[1] = "bool" -> v[2]
    [] v[1] = "int"  -> TRUE
    [] v[1] = "str"  -> v[2] # ""
    [] v[1] = "num"  -> v[2] # 0
    [] v[1] = "null" -> FALSE

ToStr(v) ==
  CASE v[1] = "null" -> ""
    [] v[1] = "str"  -> v[2]
    [] v[1] = "bool" -> IF v[2] THEN "true" ELSE "false"
    [] v[1] \in {"num", "int"} -> ToString(v[2])

\* Only float64 and Boolean values have an order: an int has none.
IsNumeric(v) == v[1] \in {"num", "bool"}
ToNumber(v) == IF v[1] = "num" THEN v[2] ELSE IF v[2] THEN 1 ELSE 0

CompareNumbers(op, x, y) ==
  CASE op = "<"  -> x < y
    [] op = "<=" -> x <= y
    [] op = ">"  -> x > y
    [] op = ">=" -> x >= y

CompareValues(op, l, r) ==
  IF op = "==" THEN Bool(ToStr(l) = ToStr(r))
  ELSE IF op = "!=" THEN Bool(ToStr(l) # ToStr(r))
  ELSE IF IsNumeric(l) /\ IsNumeric(r)
       THEN Bool(CompareNumbers(op, ToNumber(l), ToNumber(r))) ELSE Err

-----------------------------------------------------------------------------
(* References.                                                             *)

Matching(map, key) == {k \in DOMAIN map : Upper(k) = Upper(key)}

LookupStringCI(map, key) ==
  IF Matching(map, key) = {} THEN {Str("")}
  ELSE {Str(map[k]) : k \in Matching(map, key)}

LookupAnyCI(map, key) ==
  IF Matching(map, key) = {} THEN {Null} ELSE {map[k] : k \in Matching(map, key)}

\* Names here are letters and digits; the code replaces the rest by _.
InputKey(name) == "INPUT_" \o Upper(name)

\* A step or needed job: its result field, or one of its outputs.
OfOutcome(o, path, field) ==
  IF path[3] = field THEN {Str(o[field])}
  ELSE IF path[3] = "outputs" /\ Len(path) = 4 THEN LookupStringCI(o.outputs, path[4])
  ELSE {Err}

ResolveOutcome(outcomes, path, field) ==
  IF Len(path) < 3 THEN {Err}
  ELSE IF Matching(outcomes, path[2]) = {} THEN {Null}
  ELSE UNION {OfOutcome(outcomes[id], path, field) : id \in Matching(outcomes, path[2])}

ResolveName(ctx, name, key) ==
  CASE name \in {"env", "vars", "secrets"} -> LookupStringCI(ctx[name], key)
    [] name \in {"github", "runner", "matrix"} -> LookupAnyCI(ctx[name], key)
    [] name = "inputs" -> LookupStringCI(ctx.env, InputKey(key))
    [] OTHER -> {Err}

ResolvePath(ctx, path) ==
  CASE path[1] = "steps" -> ResolveOutcome(ctx.steps, path, "outcome")
    [] path[1] = "needs" -> ResolveOutcome(ctx.needs, path, "result")
    [] OTHER -> IF Len(path) = 2 THEN ResolveName(ctx, path[1], path[2]) ELSE {Err}

-----------------------------------------------------------------------------
(* Functions.                                                              *)

SomeStepFailed(ctx) == \E id \in DOMAIN ctx.steps : ctx.steps[id].outcome = "failure"

HasPart(s, t) == \E i \in 0..Len(s) - Len(t) : SubSeq(s, i + 1, i + Len(t)) = t
StartsWith(s, t) == Len(t) <= Len(s) /\ SubSeq(s, 1, Len(t)) = t
EndsWith(s, t) == Len(t) <= Len(s) /\ SubSeq(s, Len(s) - Len(t) + 1, Len(s)) = t

ValueOfCall(name, args, ctx) ==
  CASE Len(args) = 0 /\ name = "success"   -> Bool(~SomeStepFailed(ctx))
    [] Len(args) = 0 /\ name = "failure"   -> Bool(SomeStepFailed(ctx))
    [] Len(args) = 0 /\ name = "always"    -> Bool(TRUE)
    [] Len(args) = 0 /\ name = "cancelled" -> Bool(FALSE)
    [] Len(args) = 2 /\ name = "contains" -> Bool(HasPart(ToStr(args[1]), ToStr(args[2])))
    [] Len(args) = 2 /\ name = "startsWith" -> Bool(StartsWith(ToStr(args[1]), ToStr(args[2])))
    [] Len(args) = 2 /\ name = "endsWith" -> Bool(EndsWith(ToStr(args[1]), ToStr(args[2])))
    [] OTHER -> Err

\* An argument that cannot be evaluated makes the call fail.
CallFunction(name, args, ctx) ==
  IF \E k \in DOMAIN args : args[k] = Err THEN Err ELSE ValueOfCall(name, args, ctx)

-----------------------------------------------------------------------------
(* Expressions.                                                            *)

Arguments(sets) ==
  {s \in [1..Len(sets) -> UNION {sets[k] : k \in 1..Len(sets)}] :
     \A k \in 1..Len(sets) : s[k] \in sets[k]}

\* && and || return an operand and leave the right one unevaluated when the
\* left one decides; everything else evaluates all its arguments.
EvalExpression(expr, ctx) ==
  LET Value[e \in Exprs] ==
        CASE e.op = "lit"  -> {e.value}
          [] e.op = "ref"  -> ResolvePath(ctx, e.path)
          [] e.op = "!"    -> {IF v = Err THEN Err ELSE Bool(~Truthy(v)) : v \in Value[e.args[1]]}
          [] e.op \in {"&&", "||"} ->
               UNION {CASE l = Err -> {Err}
                        [] l # Err /\ Truthy(l) = (e.op = "&&") -> Value[e.args[2]]
                        [] OTHER -> {l} : l \in Value[e.args[1]]}
          [] e.op = "call" -> {CallFunction(e.name, args, ctx) :
                                 args \in Arguments([k \in DOMAIN e.args |-> Value[e.args[k]]])}
          [] OTHER -> {IF Err \in {l, r} THEN Err ELSE CompareValues(e.op, l, r) :
                         l \in Value[e.args[1]], r \in Value[e.args[2]]}
  IN  Value[expr]

\* SubstituteExpressions, of a text that is one expression: the texts it may
\* become, unless it fails.
Substitute(expr, ctx) == {ToStr(v) : v \in EvalExpression(expr, ctx) \ {Err}}

MayFail(expr, ctx) == Err \in EvalExpression(expr, ctx)
=============================================================================
