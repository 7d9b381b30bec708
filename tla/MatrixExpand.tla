---------------------------- MODULE MatrixExpand ----------------------------
(***************************************************************************)
(* ExpandMatrix (internal/engine/matrix.go): from a job's `strategy:` to   *)
(* the list of combinations MatrixRun runs.  The loop over the axes makes  *)
(* a pass over the combinations for each axis, applyMatrixExclude makes    *)
(* one more; a pass takes one action a combination, and the loop of        *)
(* applyMatrixInclude one action an entry.                                 *)
(*                                                                         *)
(* A combination, an include entry and an exclude entry are functions from *)
(* names to values.  A strategy that YAML decoding gives another shape (an *)
(* axis that is no list, an entry that is no mapping) is Malformed.        *)
(***************************************************************************)
EXTENDS Naturals, Sequences, FiniteSets, SequencesExt

CONSTANTS Keys,         \* the possible axis names, in sorted order
          Strategies,   \* [axes, exclude, include], NoMatrix or Malformed
          NoMatrix, Malformed

IsList(list) == Len(list) \in Nat /\ DOMAIN list = 1..Len(list)

ASSUME KeysAssumption ==
  /\ IsList(Keys)
  /\ \A m, n \in DOMAIN Keys : Keys[m] = Keys[n] => m = n

ASSUME StrategiesAssumption ==
  \A s \in Strategies \ {NoMatrix, Malformed} :
    /\ DOMAIN s.axes \subseteq {Keys[n] : n \in DOMAIN Keys}
    /\ \A k \in DOMAIN s.axes : IsList(s.axes[k])
    /\ IsList(s.exclude) /\ IsList(s.include)

VARIABLES strategy,
          phase,        \* "start", "axes", "cross", "exclude", "include",
                        \* then "done" or "error"
          axis,         \* the axis last crossed in, by its place in Keys
          handled,      \* how much of the list at hand has been gone through
          combos,
          built         \* what the pass over combos makes of them

vars == <<strategy, phase, axis, handled, combos, built>>

Empty == [k \in {} |-> k]

Axes == DOMAIN strategy.axes

Init ==
  /\ strategy \in Strategies
  /\ phase = "start"
  /\ axis = 0
  /\ handled = 0
  /\ combos = <<>>
  /\ built = <<>>

-----------------------------------------------------------------------------
\* A job without a matrix runs once.
RunOnce ==
  /\ phase = "start" /\ strategy = NoMatrix
  /\ phase' = "done"
  /\ combos' = <<Empty>>
  /\ UNCHANGED <<strategy, axis, handled, built>>

ExcludesOnlyAxes == \A e \in ToSet(strategy.exclude) : DOMAIN e \subseteq Axes

Reject ==
  /\ phase = "start" /\ strategy # NoMatrix
  /\ strategy # Malformed => ~ExcludesOnlyAxes
  /\ phase' = "error"
  /\ UNCHANGED <<strategy, axis, handled, combos, built>>

\* Without an axis the product is empty, not one empty combination.
Begin ==
  /\ phase = "start" /\ strategy \notin {NoMatrix, Malformed} /\ ExcludesOnlyAxes
  /\ phase' = "axes"
  /\ combos' = IF Axes = {} THEN <<>> ELSE <<Empty>>
  /\ UNCHANGED <<strategy, axis, handled, built>>

\* A pass over the combinations begins.
BeginPass(to) ==
  /\ phase' = to
  /\ handled' = 0
  /\ built' = <<>>
  /\ UNCHANGED <<strategy, combos>>

\* The axes still to be crossed in.
Uncrossed == {n \in axis + 1..Len(Keys) : Keys[n] \in Axes}

NextAxis ==
  /\ phase = "axes"
  /\ \E n \in Uncrossed : (\A m \in Uncrossed : n <= m) /\ axis' = n
  /\ BeginPass("cross")

AllCrossed ==
  /\ phase = "axes" /\ Uncrossed = {}
  /\ BeginPass("exclude")
  /\ UNCHANGED axis

\* The combination of the pass that is next.
Combo == combos[handled + 1]

InPass(of) == phase = of /\ handled < Len(combos)

PassOver(of, to) ==
  /\ phase = of /\ handled = Len(combos)
  /\ phase' = to
  /\ handled' = 0
  /\ combos' = built
  /\ UNCHANGED <<strategy, axis, built>>

\* The combination c with the pairs of e set (e @@ c, spelt out).
Merged(e, c) ==
  [k \in DOMAIN e \cup DOMAIN c |-> IF k \in DOMAIN e THEN e[k] ELSE c[k]]

\* A combination with every value of one more axis.
Crossed(c, key, values) ==
  [n \in 1..Len(values) |-> Merged([k \in {key} |-> values[n]], c)]

CrossInFront == Crossed(Combo, Keys[axis], strategy.axes[Keys[axis]]) \o built

CrossBehind == built \o Crossed(Combo, Keys[axis], strategy.axes[Keys[axis]])

CrossCombo ==
  /\ InPass("cross")
  /\ built' = CrossBehind
  /\ handled' = handled + 1
  /\ UNCHANGED <<strategy, phase, axis, combos>>

AxisCrossed == PassOver("cross", "axes")

\* Every pair of the entry is in the combination.
AllMatch(c, e) == \A k \in DOMAIN e : k \in DOMAIN c /\ c[k] = e[k]

\* No pair of the entry contradicts the combination as it now stands.
SubsetMatch(c, e) == \A k \in DOMAIN e \cap DOMAIN c : c[k] = e[k]

Excluded(c) == \E e \in ToSet(strategy.exclude) : AllMatch(c, e)

ExcludeCombo ==
  /\ InPass("exclude")
  /\ built' = IF Excluded(Combo) THEN built ELSE Append(built, Combo)
  /\ handled' = handled + 1
  /\ UNCHANGED <<strategy, phase, axis, combos>>

ExcludesApplied == PassOver("exclude", "include")

\* One entry: merged into every combination it matches, or one more.
Include ==
  /\ phase = "include" /\ handled < Len(strategy.include)
  /\ LET e == strategy.include[handled + 1] IN
     combos' = IF \E c \in ToSet(combos) : SubsetMatch(c, e)
               THEN [n \in 1..Len(combos) |->
                       IF SubsetMatch(combos[n], e) THEN Merged(e, combos[n]) ELSE combos[n]]
               ELSE Append(combos, e)
  /\ handled' = handled + 1
  /\ UNCHANGED <<strategy, phase, axis, built>>

Finish ==
  /\ phase = "include" /\ handled = Len(strategy.include)
  /\ phase' = "done"
  /\ UNCHANGED <<strategy, axis, handled, combos, built>>

Returned == phase \in {"done", "error"} /\ UNCHANGED vars

Next == \/ RunOnce \/ Reject \/ Begin \/ NextAxis \/ CrossCombo \/ AxisCrossed
        \/ AllCrossed \/ ExcludeCombo \/ ExcludesApplied \/ Include \/ Finish
        \/ Returned

Spec == Init /\ [][Next]_vars

-----------------------------------------------------------------------------
(* Properties.                                                             *)

Expanded == phase = "done" /\ strategy # NoMatrix

\* The ways to pick, for each of some axes, a place in its list.  Two places
\* with the same value are two picks.
Picks(axes) ==
  {p \in [axes -> UNION {DOMAIN strategy.axes[k] : k \in axes}] :
     \A k \in axes : p[k] \in DOMAIN strategy.axes[k]}

Value(p, k) == strategy.axes[k][p[k]]

\* The picks whose values no exclude entry matches.
Original ==
  IF Axes = {} THEN {}
  ELSE {p \in Picks(Axes) :
          \A e \in ToSet(strategy.exclude) : \E k \in DOMAIN e : Value(p, k) # e[k]}

\* p differs from q, and first, in the order of Keys, by an earlier place.
Precedes(p, q) ==
  \E n \in 1..Len(Keys) :
    /\ Keys[n] \in DOMAIN p /\ p[Keys[n]] < q[Keys[n]]
    /\ \A m \in 1..n - 1 : Keys[m] \in DOMAIN p => p[Keys[m]] = q[Keys[m]]

\* usage.md:150-153: the list begins with every assignment of the axes that
\* is not excluded, in lexicographic order, and no sequence of include
\* entries drops one, reorders them or overwrites the value of an axis.
OriginalsInOrder ==
  Expanded =>
    /\ Cardinality(Original) <= Len(combos)
    /\ \E pick \in [1..Cardinality(Original) -> Original] :
         /\ \A p \in Original : \E i \in 1..Cardinality(Original) : pick[i] = p
         /\ \A i, j \in 1..Cardinality(Original) : i < j => Precedes(pick[i], pick[j])
         /\ \A i \in 1..Cardinality(Original), k \in Axes :
              k \in DOMAIN combos[i] /\ combos[i][k] = Value(pick[i], k)

\* No pair of the entry that names an axis contradicts the combination.
AgreesOnAxes(e, c) == \A k \in DOMAIN e \cap Axes : c[k] = e[k]

\* No two include entries give a name that is no axis different values.
AddedNamesAgree ==
  \A e, f \in ToSet(strategy.include) :
    \A k \in (DOMAIN e \cap DOMAIN f) \ Axes : e[k] = f[k]

\* usage.md:152-154: no include entry is lost.  In a matrix with axes, whose
\* entries agree on the names they add, they are matched on the axes only, in
\* whatever order they come: an original combination is its assignment with
\* the entries that agree with it there, whole and nothing else, and a further
\* combination is for an entry that agrees with no original.  Without these
\* conditions usage.md:152-155 and matrix.go:172-175 say so too, and the code
\* does otherwise: it matches added names, and merges the entries of a matrix
\* without axes.
IncludesMatchOnAxes ==
  Expanded =>
    LET Entries == ToSet(strategy.include)
        Size == Cardinality(Original)
        Of(i) == {e \in Entries : AgreesOnAxes(e, combos[i])}
    IN  /\ \A e \in Entries : \E c \in ToSet(combos) : AllMatch(c, e)
        /\ AddedNamesAgree /\ Axes # {} =>
             /\ \A i \in 1..Size :
                  /\ \A e \in Of(i) : AllMatch(combos[i], e)
                  /\ DOMAIN combos[i] = Axes \cup UNION {DOMAIN e : e \in Of(i)}
             /\ \A i \in Size + 1..Len(combos) :
                  \E e \in Entries : AllMatch(combos[i], e) /\ \A j \in 1..Size : e \notin Of(j)
=============================================================================
